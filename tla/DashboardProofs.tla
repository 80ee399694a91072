--------------------------- MODULE DashboardProofs ---------------------------
(***************************************************************************)
(* Theorems about Dashboard, for any number of browsers and scripts, any   *)
(* depth of the channels and any number of clicks, losses and deaths.      *)
(***************************************************************************)
EXTENDS Dashboard, FiniteSetTheorems, SequenceTheorems, TLAPS

USE Setting

(* The link is a KosLink, since every message of a CPU names a script that *)
(* it was sent, or none.                                                   *)
Linked ==
  /\ up \in BOOLEAN
  /\ link \in KosLink
  /\ queue \in Seq(Command)
  /\ busy \in Command \cup {None}
  /\ wire \in [Clients -> Seq(Command)]
  /\ scripts \in Seq(Scripts)
  /\ running => scripts # <<>>
  /\ outbox \in Seq(Message)
  /\ LinkPublished

LEMMA InitLinked == Init => Linked
<1>. SUFFICES ASSUME Init PROVE Linked
  OBVIOUS
<1>1. up \in BOOLEAN /\ (running => scripts # <<>>) /\ LinkPublished
  BY Zenon DEF Init, LinkPublished, Truth
<1>2. link \in KosLink
  BY DEF Init, KosLink, NoLink
<1>3. /\ queue \in Seq(Command) /\ busy \in Command \cup {None}
      /\ scripts \in Seq(Scripts) /\ outbox \in Seq(Message)
      /\ wire \in [Clients -> Seq(Command)]
  BY DEF Init
<1>. QED
  BY <1>1, <1>2, <1>3 DEF Linked

LEMMA NextLinked == Linked /\ [Next]_vars => Linked'
<1>. SUFFICES ASSUME Linked, [Next]_vars PROVE Linked'
  OBVIOUS
<1>. USE DEF Linked
<1>1. ASSUME NEW c \in Clients, NEW op \in Ops, Click(c, op) PROVE Linked'
  <2>1. [op |-> op, from |-> c] \in Command
    BY DEF Command
  <2>. QED
    BY <1>1, <2>1 DEF Click, game, server, LinkPublished, Truth
<1>2. ASSUME NEW c \in Clients, Receive(c) \/ Subscribe(c) \/ Snapshot(c) \/ ForwardEvent(c) \/ ForwardStatus(c)
      PROVE  Linked'
  BY <1>2 DEF Receive, Subscribe, Snapshot, ForwardEvent, ForwardStatus, game, server, LinkPublished, Truth
<1>3. ASSUME NEW c \in Clients, Close(c) PROVE Linked'
  BY <1>3 DEF Close, game, server, LinkPublished, Truth
<1>4. ASSUME NEW c \in Clients, TakeCommand(c) PROVE Linked'
  <2>1. wire[c] \in Seq(Command) /\ wire[c] # <<>>
    BY <1>4 DEF TakeCommand
  <2>2. Head(wire[c]) \in Command /\ Tail(wire[c]) \in Seq(Command)
    BY <2>1
  <2>3. queue' \in Seq(Command) /\ wire' \in [Clients -> Seq(Command)]
    <3>1. wire' = [wire EXCEPT ![c] = Tail(wire[c])]
      BY <1>4 DEF TakeCommand
    <3>2. queue' = Append(queue, Head(wire[c])) \/ queue' = queue
      BY <1>4, Zenon DEF TakeCommand
    <3>3. Append(queue, Head(wire[c])) \in Seq(Command)
      BY <2>2
    <3>4. wire' \in [Clients -> Seq(Command)]
      BY <2>2, <3>1
    <3>. QED
      BY <3>2, <3>3, <3>4, Zenon
  <2>4. /\ up' = up /\ status' = status /\ link' = link /\ busy' = busy
        /\ scripts' = scripts /\ running' = running /\ outbox' = outbox
    BY <1>4, Zenon DEF TakeCommand, game
  <2>5. LinkPublished'
    BY <2>4, Zenon DEF LinkPublished, Truth
  <2>. QED
    BY <2>3, <2>4, <2>5, Zenon
<1>5. CASE Connect
  <2>1. up' /\ status' = link /\ link' = link
    BY <1>5, Zenon DEF Connect, SetStatus
  <2>2. LinkPublished' /\ up' \in BOOLEAN
    BY <1>5, <2>1 DEF LinkPublished, Truth, Connect
  <2>. QED
    BY <1>5, <2>1, <2>2 DEF Connect, game
<1>6. CASE SessionEnds
  <2>1. scripts' \in Seq(Scripts) /\ (scripts # <<>> => scripts' # <<>>)
    <3>1. \/ scripts' = scripts
          \/ busy.op \in Scripts /\ scripts' = Append(scripts, busy.op)
      BY <1>6, Zenon DEF SessionEnds
    <3>. QED
      BY <3>1
  <2>2. outbox' = outbox \/ (outbox # <<>> /\ outbox' = Tail(outbox))
    <3>1. outbox' \in {outbox} \cup {Tail(m) : m \in {outbox} \ {<<>>}}
      BY <1>6, Zenon DEF SessionEnds
    <3>. QED
      BY <3>1, Zenon
  <2>3. outbox' \in Seq(Message)
    <3>1. outbox # <<>> => Tail(outbox) \in Seq(Message)
      OBVIOUS
    <3>. QED
      BY <2>2, <3>1, Zenon
  <2>4. status' = Off /\ up' = FALSE
    BY <1>6, Zenon DEF SessionEnds, SetStatus
  <2>5. LinkPublished'
    BY <2>4 DEF LinkPublished, Truth
  <2>6. /\ link' = link /\ queue' = queue /\ wire' = wire /\ running' = running
        /\ busy' = None
    BY <1>6, Zenon DEF SessionEnds
  <2>. QED
    BY <2>1, <2>3, <2>4, <2>5, <2>6, Zenon
<1>7. CASE NextCommand
  <2>1. Head(queue) \in Command /\ Tail(queue) \in Seq(Command)
    BY <1>7 DEF NextCommand
  <2>. QED
    BY <1>7, <2>1 DEF NextCommand, game, socket, LinkPublished, Truth
<1>8. CASE Refuse
  BY <1>8 DEF Refuse, game, LinkPublished, Truth
<1>9. CASE Dispatch
  <2>1. scripts' \in Seq(Scripts) /\ (scripts # <<>> => scripts' # <<>>)
    BY <1>9 DEF Dispatch
  <2>. QED
    BY <1>9, <2>1 DEF Dispatch, LinkPublished, Truth
<1>10. ASSUME NEW l \in KosLink, up, PublishLink(l), up' = up PROVE LinkPublished' /\ link' \in KosLink
  BY <1>10 DEF PublishLink, SetStatus, LinkPublished, Truth
<1>11. CASE PopMessage
  <2>1. Head(outbox) \in Message /\ Tail(outbox) \in Seq(Message)
    BY <1>11 DEF PopMessage
  <2>2. PICK l \in KosLink : PublishLink(l)
    <3>1. CASE Head(outbox).done
      BY <1>11, <2>1, <3>1 DEF PopMessage, KosLink, Message
    <3>2. CASE ~Head(outbox).done
      BY <1>11, <2>1, <3>2 DEF PopMessage, KosLink, Message
    <3>. QED
      BY <3>1, <3>2
  <2>3. LinkPublished' /\ link' \in KosLink
    BY <1>10, <1>11, <2>2 DEF PopMessage
  <2>. QED
    BY <1>11, <2>1, <2>3 DEF PopMessage
<1>12. CASE DeclareDead
  <2>1. NoLink \in KosLink
    BY DEF NoLink, KosLink
  <2>2. LinkPublished' /\ link' \in KosLink
    BY <1>10, <1>12, <2>1 DEF DeclareDead
  <2>. QED
    BY <1>12, <2>2 DEF DeclareDead
<1>13. CASE ShowUt
  BY <1>13 DEF ShowUt, game, server, LinkPublished, Truth
<1>14. CASE StartScript
  BY <1>14 DEF StartScript, server, socket, LinkPublished, Truth
<1>15. CASE Beat
  <2>1. outbox' \in Seq(Message)
    BY <1>15 DEF Beat, Says, Message
  <2>. QED
    BY <1>15, <2>1 DEF Beat, server, socket, LinkPublished, Truth
<1>16. CASE EndScript
  <2>1. outbox' \in Seq(Message) /\ scripts' \in Seq(Scripts)
    BY <1>16 DEF EndScript, Says, Message
  <2>. QED
    BY <1>16, <2>1 DEF EndScript, server, socket, LinkPublished, Truth
<1>17. CASE Die
  BY <1>17 DEF Die, server, socket, LinkPublished, Truth
<1>18. CASE UNCHANGED vars
  BY <1>18 DEF vars, game, server, socket, LinkPublished, Truth
<1>. QED
  BY <1>1, <1>2, <1>3, <1>4, <1>5, <1>6, <1>7, <1>8, <1>9, <1>11, <1>12, <1>13,
     <1>14, <1>15, <1>16, <1>17, <1>18 DEF Next, Task

(* The status of a running session is the watchdog's link.                 *)
THEOREM LinkAlwaysPublished == Spec => []LinkPublished
<1>1. Linked => LinkPublished
  BY DEF Linked
<1>. QED
  BY <1>1, InitLinked, NextLinked, PTL DEF Spec

-----------------------------------------------------------------------------
Frame == {Show(s) : s \in KosLink \cup {Off}}
           \cup {Tell(event) : event \in Event \cup {"launch_defaults"}}

(* What a browser shows when its last frame arrives, put for the status.   *)
ShowsStatus(c) ==
  /\ StatusAt(c) = {} => view[c] = status
  /\ \A i \in StatusAt(c) :
       (\A j \in StatusAt(c) : j <= i) => feed[c][i].value = status
StatusShown == \A c \in Clients : served[c] /\ ~changed[c] => ShowsStatus(c)

(* What the channels to the browsers hold, and StatusReaches itself.  Only *)
(* an open socket is served.                                               *)
Typed ==
  /\ open \in [Clients -> BOOLEAN]
  /\ served \in [Clients -> BOOLEAN]
  /\ \A c \in Clients : served[c] => open[c]
  /\ changed \in [Clients -> BOOLEAN]
  /\ feed \in [Clients -> Seq(Frame)]
  /\ events \in [Clients -> Seq(Event)]
  /\ view \in [Clients -> KosLink \cup {Off}]
  /\ status \in KosLink \cup {Off}
Reaching == Typed /\ StatusShown

LEMMA FrameIs ==
  /\ \A s \in KosLink \cup {Off} :
       Show(s) \in Frame /\ Show(s).kind = "status" /\ Show(s).value = s
  /\ \A event \in Event \cup {"launch_defaults"} :
       Tell(event) \in Frame /\ Tell(event).kind # "status"
  BY DEF Frame, Show, Tell, Event, Verdict

LEMMA StatusIs == Linked => status \in KosLink \cup {Off}
  BY DEF Linked, LinkPublished, Truth

LEMMA LastOfTyped ==
  ASSUME NEW S, NEW s \in Seq(S), NEW n \in Nat \ {0}
  PROVE  LastOf(s, n) \in Seq(S)
<1>1. CASE Len(s) > n
  <2>1. Len(s) - n + 1 \in 1..(Len(s) + 1) /\ Len(s) \in Nat
    BY <1>1
  <2>2. SubSeq(s, Len(s) - n + 1, Len(s)) \in Seq(S)
    BY <2>1, SubSeqProperties
  <2>. QED
    BY <1>1, <2>2 DEF LastOf
<1>2. CASE ~(Len(s) > n)
  BY <1>2 DEF LastOf
<1>. QED
  BY <1>1, <1>2

LEMMA BroadcastTyped ==
  ASSUME events \in [Clients -> Seq(Event)], NEW event \in Event, Broadcast(event)
  PROVE  events' \in [Clients -> Seq(Event)]
<1>1. ASSUME NEW c \in Clients
      PROVE  LastOf(Append(events[c], event), EventDepth) \in Seq(Event)
  <2>1. Append(events[c], event) \in Seq(Event)
    OBVIOUS
  <2>. QED
    BY <2>1, LastOfTyped
<1>. QED
  BY <1>1 DEF Broadcast

(* A status that is set is the old one, or makes every open socket look.   *)
Moves == \/ UNCHANGED <<status, changed>>
         \/ changed' = [c \in Clients |-> changed[c] \/ open[c]]

LEMMA SetMoves ==
  /\ \A s : SetStatus(s) => Moves
  /\ \A l : PublishLink(l) => Moves
  BY DEF SetStatus, PublishLink, Moves

LEMMA MovesReach ==
  ASSUME Reaching, Moves, UNCHANGED <<open, served, feed, view>>,
         status' \in KosLink \cup {Off}, events' \in [Clients -> Seq(Event)]
  PROVE  Reaching'
<1>1. CASE UNCHANGED <<status, changed>>
  BY <1>1 DEF Reaching, Typed, StatusShown, ShowsStatus, StatusAt
<1>2. CASE changed' = [c \in Clients |-> changed[c] \/ open[c]]
  <2>1. changed' \in [Clients -> BOOLEAN]
    BY <1>2 DEF Reaching, Typed
  <2>2. \A c \in Clients : served'[c] => changed'[c]
    BY <1>2, Zenon DEF Reaching, Typed
  <2>. QED
    BY <2>1, <2>2 DEF Reaching, Typed, StatusShown
<1>. QED
  BY <1>1, <1>2 DEF Moves

LEMMA InitReaching == Init => Reaching
  BY DEF Init, Reaching, Typed, StatusShown

(* What a socket task or a browser does concerns one client.               *)
LEMMA OneClient ==
  ASSUME Reaching, NEW c \in Clients, UNCHANGED status, Typed',
         NEW o, NEW ch, NEW f, NEW v,
         served' = [served EXCEPT ![c] = o], changed' = [changed EXCEPT ![c] = ch],
         feed' = [feed EXCEPT ![c] = f], view' = [view EXCEPT ![c] = v],
         o /\ ~ch => ShowsStatus(c)'
  PROVE  Reaching'
<1>1. /\ served'[c] = o /\ changed'[c] = ch
      /\ \A d \in Clients : d # c =>
           /\ served'[d] = served[d] /\ changed'[d] = changed[d]
           /\ feed'[d] = feed[d] /\ view'[d] = view[d]
  BY Zenon DEF Reaching, Typed
<1>2. ASSUME NEW d \in Clients, served'[d] /\ ~changed'[d] PROVE ShowsStatus(d)'
  <2>1. CASE d = c
    BY <1>1, <1>2, <2>1
  <2>2. CASE d # c
    <3>1. ShowsStatus(d)
      BY <1>1, <1>2, <2>2 DEF Reaching, StatusShown
    <3>. QED
      BY <1>1, <2>2, <3>1 DEF ShowsStatus, StatusAt
  <2>. QED
    BY <2>1, <2>2
<1>. QED
  BY <1>2 DEF Reaching, StatusShown

LEMMA SocketReaching ==
  ASSUME Reaching, NEW c \in Clients,
         Receive(c) \/ Close(c) \/ Subscribe(c) \/ Task(c)
  PROVE  Reaching'
<1>0. Typed /\ StatusShown
  BY DEF Reaching
<1>1. CASE Close(c)
  <2>1. /\ open' = [open EXCEPT ![c] = FALSE] /\ served' = [served EXCEPT ![c] = FALSE]
        /\ changed' = [changed EXCEPT ![c] = FALSE]
        /\ feed' = [feed EXCEPT ![c] = <<>>] /\ view' = [view EXCEPT ![c] = Off]
        /\ events' = [events EXCEPT ![c] = <<>>] /\ status' = status
    BY <1>1 DEF Close, server
  <2>2. Typed'
    BY <1>0, <2>1 DEF Typed
  <2>. QED
    BY <2>1, <2>2, OneClient
<1>2. CASE Subscribe(c)
  <2>. DEFINE f == <<Tell("launch_defaults")>>
  <2>1. /\ open' = [open EXCEPT ![c] = TRUE] /\ feed' = [feed EXCEPT ![c] = f]
        /\ ~open[c]
        /\ UNCHANGED <<served, events, changed, view, status>>
    BY <1>2 DEF Subscribe, server, browser
  <2>2. f \in Seq(Frame)
    BY FrameIs
  <2>. HIDE DEF f
  <2>3. Typed' /\ ~served[c]
    BY <1>0, <2>1, <2>2 DEF Typed
  <2>4. /\ served' = [served EXCEPT ![c] = FALSE]
        /\ changed' = [changed EXCEPT ![c] = changed[c]]
        /\ view' = [view EXCEPT ![c] = view[c]]
    BY <1>0, <2>1, <2>3 DEF Typed
  <2>. QED
    BY <2>1, <2>3, <2>4, OneClient
<1>3. CASE Snapshot(c) \/ ForwardStatus(c)
  <2>. DEFINE f == Append(feed[c], Show(status))
              n == Len(feed[c])
  <2>1. /\ changed' = [changed EXCEPT ![c] = FALSE] /\ feed' = [feed EXCEPT ![c] = f]
        /\ served' = [served EXCEPT ![c] = TRUE] /\ open[c]
        /\ UNCHANGED <<events, open, view, status>>
    BY <1>0, <1>3 DEF Snapshot, ForwardStatus, Free, Typed, server, browser
  <2>2. /\ f \in Seq(Frame) /\ n \in Nat /\ Len(f) = n + 1
        /\ f[n + 1].kind = "status" /\ f[n + 1].value = status
    BY <1>0, FrameIs DEF Typed
  <2>. HIDE DEF f, n
  <2>3. Typed'
    BY <1>0, <2>1, <2>2 DEF Typed
  <2>4. feed'[c] = f
    BY <1>0, <2>1 DEF Typed
  <2>5. n + 1 \in StatusAt(c)' /\ StatusAt(c)' \subseteq 1..(n + 1)
    BY <2>2, <2>4 DEF StatusAt
  <2>6. ASSUME NEW i \in StatusAt(c)', \A j \in StatusAt(c)' : j <= i PROVE i = n + 1
    BY <2>2, <2>5, <2>6
  <2>7. ShowsStatus(c)'
    BY <2>1, <2>2, <2>4, <2>5, <2>6 DEF ShowsStatus
  <2>8. view' = [view EXCEPT ![c] = view[c]]
    BY <1>0, <2>1 DEF Typed
  <2>. QED
    BY <2>1, <2>3, <2>7, <2>8, OneClient
<1>4. CASE ForwardEvent(c)
  <2>. DEFINE frame == Tell(Head(events[c]))
              f == Append(feed[c], frame)
  <2>1. /\ feed' = [feed EXCEPT ![c] = f] /\ events' = [events EXCEPT ![c] = Tail(events[c])]
        /\ events[c] # <<>>
        /\ UNCHANGED <<changed, open, served, view, status>>
    BY <1>4 DEF ForwardEvent, server, browser
  <2>2. Head(events[c]) \in Event /\ Tail(events[c]) \in Seq(Event)
    BY <1>0, <2>1 DEF Typed
  <2>3. frame \in Frame /\ frame.kind # "status"
    BY <2>2, FrameIs
  <2>. HIDE DEF frame
  <2>4. f \in Seq(Frame) /\ feed[c] \in Seq(Frame)
    BY <1>0, <2>3 DEF Typed
  <2>5. /\ Len(f) = Len(feed[c]) + 1 /\ f[Len(feed[c]) + 1] = frame
        /\ \A i \in 1..Len(feed[c]) : f[i] = feed[c][i]
    BY <2>4
  <2>. HIDE DEF f
  <2>6. Typed'
    BY <1>0, <2>1, <2>2, <2>4 DEF Typed
  <2>7. feed'[c] = f
    BY <1>0, <2>1 DEF Typed
  <2>8. StatusAt(c)' = StatusAt(c) /\ StatusAt(c) \subseteq 1..Len(feed[c])
    BY <2>3, <2>4, <2>5, <2>7 DEF StatusAt
  <2>9. ShowsStatus(c) => ShowsStatus(c)'
    BY <2>1, <2>5, <2>7, <2>8 DEF ShowsStatus
  <2>10. served' = [served EXCEPT ![c] = served[c]] /\ changed' = [changed EXCEPT ![c] = changed[c]]
    BY <1>0, <2>1 DEF Typed
  <2>11. PICK v : view' = [view EXCEPT ![c] = v]
    BY <1>0, <2>1 DEF Typed
  <2>12. served[c] /\ ~changed[c] => ShowsStatus(c)'
    BY <1>0, <2>9 DEF StatusShown
  <2>. QED
    BY <2>1, <2>6, <2>10, <2>12, <2>11, OneClient
<1>5. CASE Receive(c)
  <2>. DEFINE frame == Head(feed[c])
              f == Tail(feed[c])
              n == Len(f)
  <2>1. /\ feed' = [feed EXCEPT ![c] = f] /\ feed[c] # <<>>
        /\ UNCHANGED <<changed, open, served, events, status>>
    BY <1>5 DEF Receive, server
  <2>2. feed[c] \in Seq(Frame)
    BY <1>0 DEF Typed
  <2>3. /\ f \in Seq(Frame) /\ frame \in Frame /\ frame = feed[c][1]
        /\ n \in Nat /\ Len(feed[c]) = n + 1
        /\ \A i \in 1..n : f[i] = feed[c][i + 1]
    BY <2>1, <2>2
  <2>. HIDE DEF f, frame, n
  <2>4. PICK v \in KosLink \cup {Off} :
          /\ view' = [view EXCEPT ![c] = v]
          /\ frame.kind = "status" => v = frame.value
          /\ frame.kind # "status" => v = view[c]
    <3>1. CASE frame.kind = "status"
      <4>1. frame.value \in KosLink \cup {Off}
        BY <2>3, <3>1, FrameIs DEF Frame
      <4>2. view' = [view EXCEPT ![c] = frame.value]
        BY <1>5, <3>1 DEF Receive, Verdict, frame
      <4>. QED
        BY <3>1, <4>1, <4>2
    <3>2. CASE frame.kind # "status"
      <4>1. view' = view
        BY <1>5, <3>2 DEF Receive, browser, frame
      <4>. QED
        BY <1>0, <3>2, <4>1 DEF Typed
    <3>. QED
      BY <3>1, <3>2
  <2>5. Typed'
    BY <1>0, <2>1, <2>3, <2>4 DEF Typed
  <2>6. feed'[c] = f /\ view'[c] = v
    BY <1>0, <2>1, <2>4 DEF Typed
  <2>7. \A i \in Int : i \in StatusAt(c)' <=> i \in 1..n /\ i + 1 \in StatusAt(c)
    BY <2>3, <2>6 DEF StatusAt, n
  <2>8. StatusAt(c) \subseteq 1..(n + 1) /\ StatusAt(c)' \subseteq 1..n
    BY <2>3, <2>6 DEF StatusAt, n
  <2>9. ASSUME ShowsStatus(c) PROVE ShowsStatus(c)'
    <3>1. CASE StatusAt(c)' = {}
      <4>1. ASSUME NEW j \in StatusAt(c) PROVE j = 1
        <5>0. j \in 1..(n + 1) /\ j - 1 \in Int /\ (j - 1) + 1 = j
          BY <2>3, <2>8
        <5>1. CASE j - 1 \in 1..n
          BY <2>7, <3>1, <5>0, <5>1
        <5>2. CASE j - 1 \notin 1..n
          BY <2>3, <5>0, <5>2
        <5>. QED
          BY <5>1, <5>2
      <4>2. v = status
        <5>1. CASE 1 \in StatusAt(c)
          <6>1. frame.kind = "status" /\ feed[c][1].value = status
            BY <2>3, <2>9, <4>1, <5>1 DEF ShowsStatus, StatusAt
          <6>. QED
            BY <2>3, <2>4, <6>1
        <5>2. CASE 1 \notin StatusAt(c)
          <6>1. StatusAt(c) = {} /\ frame.kind # "status"
            BY <2>3, <4>1, <5>2 DEF StatusAt
          <6>. QED
            BY <2>4, <2>9, <6>1 DEF ShowsStatus
        <5>. QED
          BY <5>1, <5>2
      <4>. QED
        BY <2>1, <2>6, <3>1, <4>2 DEF ShowsStatus
    <3>2. ASSUME NEW i \in StatusAt(c)', \A j \in StatusAt(c)' : j <= i
          PROVE  feed'[c][i].value = status
      <4>1. i \in 1..n /\ i + 1 \in StatusAt(c)
        BY <2>7, <2>8, <3>2
      <4>2. \A j \in StatusAt(c) : j <= i + 1
        <5>1. ASSUME NEW j \in StatusAt(c), j > 1 PROVE j <= i + 1
          <6>1. j - 1 \in Int /\ (j - 1) + 1 = j /\ j - 1 \in 1..n
            BY <2>3, <2>8, <5>1
          <6>2. j - 1 \in StatusAt(c)'
            BY <2>7, <6>1
          <6>. QED
            BY <2>3, <2>8, <3>2, <4>1, <6>1, <6>2
        <5>. QED
          BY <2>3, <2>8, <4>1, <5>1
      <4>3. feed[c][i + 1].value = status
        BY <2>9, <4>1, <4>2 DEF ShowsStatus
      <4>. QED
        BY <2>3, <2>6, <4>1, <4>3
    <3>. QED
      BY <2>1, <3>1, <3>2 DEF ShowsStatus
  <2>10. served' = [served EXCEPT ![c] = served[c]] /\ changed' = [changed EXCEPT ![c] = changed[c]]
    BY <1>0, <2>1 DEF Typed
  <2>11. served[c] /\ ~changed[c] => ShowsStatus(c)'
    BY <1>0, <2>9 DEF StatusShown
  <2>. QED
    BY <2>1, <2>4, <2>5, <2>10, <2>11, OneClient
<1>6. CASE TakeCommand(c)
  BY <1>0, <1>6 DEF TakeCommand, browser, Reaching, Typed, StatusShown, ShowsStatus, StatusAt
<1>. QED
  BY <1>1, <1>2, <1>3, <1>4, <1>5, <1>6 DEF Task

LEMMA NextReaching == Linked /\ Linked' /\ Reaching /\ [Next]_vars => Reaching'
<1>. SUFFICES ASSUME Linked, Linked', Reaching, [Next]_vars PROVE Reaching'
  OBVIOUS
<1>0. status' \in KosLink \cup {Off} /\ events \in [Clients -> Seq(Event)]
  BY StatusIs DEF Reaching, Typed, Linked, LinkPublished, Truth
<1>1. ASSUME UNCHANGED <<open, served, feed, view>>, Moves, events' \in [Clients -> Seq(Event)]
      PROVE  Reaching'
  BY <1>0, <1>1, MovesReach
<1>2. ASSUME UNCHANGED <<open, served, feed, view, events, changed, status>> PROVE Reaching'
  BY <1>0, <1>1, <1>2 DEF Moves
<1>3. ASSUME NEW c \in Clients, NEW op \in Ops, Click(c, op) PROVE Reaching'
  BY <1>2, <1>3 DEF Click, server
<1>4. ASSUME NEW c \in Clients, Receive(c) \/ Close(c) \/ Subscribe(c) \/ Task(c)
      PROVE  Reaching'
  BY <1>4, SocketReaching
<1>6. CASE Connect \/ SessionEnds
  BY <1>0, <1>1, <1>6, SetMoves DEF Connect, SessionEnds, browser
<1>7. CASE NextCommand
  BY <1>2, <1>7 DEF NextCommand, socket, browser
<1>8. CASE Refuse \/ ShowUt
  <2>1. PICK event \in Event : Broadcast(event)
    BY <1>8 DEF Refuse, ShowUt, Event, Verdict
  <2>. QED
    BY <1>0, <1>1, <1>8, <2>1, BroadcastTyped DEF Refuse, ShowUt, Moves, server, browser
<1>9. CASE Dispatch
  <2>1. events' = events \/ Broadcast("node_planned")
    BY <1>9 DEF Dispatch
  <2>2. events' \in [Clients -> Seq(Event)]
    BY <1>0, <2>1, BroadcastTyped DEF Event, Verdict
  <2>. QED
    BY <1>1, <1>9, <2>2 DEF Dispatch, Moves, browser
<1>10. CASE PopMessage \/ DeclareDead
  <2>1. events' = events \/ Broadcast("script_done")
    BY <1>10 DEF PopMessage, DeclareDead
  <2>2. events' \in [Clients -> Seq(Event)]
    BY <1>0, <2>1, BroadcastTyped DEF Event, Verdict
  <2>3. \E l : PublishLink(l)
    BY <1>10 DEF PopMessage, DeclareDead
  <2>. QED
    BY <1>1, <1>10, <2>2, <2>3, SetMoves DEF PopMessage, DeclareDead, browser
<1>11. CASE StartScript \/ Beat \/ EndScript \/ Die
  BY <1>2, <1>11 DEF StartScript, Beat, EndScript, Die, server, socket, browser
<1>12. CASE UNCHANGED vars
  BY <1>2, <1>12 DEF vars, server, socket, browser
<1>. QED
  BY <1>3, <1>4, <1>6, <1>7, <1>8, <1>9, <1>10, <1>11, <1>12 DEF Next

(* Whatever the number of browsers and the depth of their channels, no     *)
(* browser is left showing an old status with nothing to correct it.       *)
THEOREM StatusAlwaysReaches == Spec => []StatusReaches
<1>1. Linked /\ Reaching => StatusReaches
  BY DEF Linked, LinkPublished, Reaching, StatusShown, ShowsStatus, StatusReaches, ShowsLast
<1>. QED
  BY <1>1, InitLinked, NextLinked, InitReaching, NextReaching, PTL DEF Spec

-----------------------------------------------------------------------------
(* The limits.  A broadcast keeps the last EventDepth events.              *)
LEMMA LastOfShort ==
  ASSUME NEW S, NEW s \in Seq(S), NEW n \in Nat \ {0}
  PROVE  Len(LastOf(s, n)) <= n
<1>1. CASE Len(s) > n
  <2>1. Len(s) - n + 1 \in 1..(Len(s) + 1) /\ Len(s) \in Nat
    BY <1>1
  <2>2. Len(SubSeq(s, Len(s) - n + 1, Len(s))) = n
    BY <2>1, SubSeqProperties
  <2>. QED
    BY <1>1, <2>2 DEF LastOf
<1>2. CASE ~(Len(s) > n)
  BY <1>2 DEF LastOf
<1>. QED
  BY <1>1, <1>2

Bounded ==
  /\ running \in BOOLEAN /\ pending \in [Clients -> BOOLEAN] /\ lost \in [Clients -> BOOLEAN]
  /\ Len(queue) <= QueueDepth
  /\ \A c \in Clients : Len(events[c]) <= EventDepth /\ Len(feed[c]) <= FeedDepth

LEMMA BroadcastBounded ==
  ASSUME events \in [Clients -> Seq(Event)], NEW event \in Event, Broadcast(event)
  PROVE  /\ \A c \in Clients : Len(events'[c]) <= EventDepth
         /\ lost' \in [Clients -> BOOLEAN]
<1>1. ASSUME NEW c \in Clients PROVE Len(events'[c]) <= EventDepth
  <2>1. Append(events[c], event) \in Seq(Event)
    OBVIOUS
  <2>2. Len(LastOf(Append(events[c], event), EventDepth)) <= EventDepth
    BY <2>1, LastOfShort
  <2>. QED
    BY <2>2 DEF Broadcast
<1>2. lost' \in [Clients -> BOOLEAN]
  BY Zenon DEF Broadcast
<1>. QED
  BY <1>1, <1>2

LEMMA InitBounded == Init => Bounded
<1>. SUFFICES ASSUME Init PROVE Bounded
  OBVIOUS
<1>1. running \in BOOLEAN /\ pending \in [Clients -> BOOLEAN] /\ lost \in [Clients -> BOOLEAN]
  BY Zenon DEF Init
<1>2. /\ Len(queue) <= QueueDepth
      /\ \A c \in Clients : Len(events[c]) <= EventDepth /\ Len(feed[c]) <= FeedDepth
  BY DEF Init
<1>. QED
  BY <1>1, <1>2 DEF Bounded

(* A frame more or less for one client.                                    *)
LEMMA FeedBounded ==
  ASSUME Reaching, Bounded, NEW c \in Clients, NEW f \in Seq(Frame), Len(f) <= FeedDepth,
         feed' = [feed EXCEPT ![c] = f]
  PROVE  \A d \in Clients : Len(feed'[d]) <= FeedDepth
  BY DEF Reaching, Typed, Bounded

LEMMA NextBounded == Linked /\ Reaching /\ Bounded /\ [Next]_vars => Bounded'
<1>. SUFFICES ASSUME Linked, Reaching, Bounded, [Next]_vars PROVE Bounded'
  OBVIOUS
<1>0. /\ events \in [Clients -> Seq(Event)] /\ queue \in Seq(Command)
      /\ feed \in [Clients -> Seq(Frame)]
      /\ \A v \in Verdict : v \in Event
      /\ "ut" \in Event
  BY DEF Linked, Reaching, Typed, Event
<1>. USE DEF Bounded
<1>1. ASSUME UNCHANGED <<running, pending, queue, feed>>,
             \/ UNCHANGED <<events, lost>>
             \/ \E event \in Event : Broadcast(event)
      PROVE  Bounded'
  BY <1>0, <1>1, BroadcastBounded
<1>2. ASSUME NEW c \in Clients, NEW op \in Ops, Click(c, op) PROVE Bounded'
  <2>1. (pending[c] \/ op \in HeldOps) \in BOOLEAN /\ (lost[c] /\ op \notin HeldOps) \in BOOLEAN
    BY Zenon
  <2>2. pending' \in [Clients -> BOOLEAN] /\ lost' \in [Clients -> BOOLEAN]
    BY <1>2, <2>1, Zenon DEF Click
  <2>. QED
    BY <1>2, <2>2, Zenon DEF Click, game, server
<1>3. ASSUME NEW c \in Clients, Receive(c) PROVE Bounded'
  <2>1. PICK p \in BOOLEAN : pending' = [pending EXCEPT ![c] = p] \/ pending' = pending
    <3>1. CASE Head(feed[c]).kind = "status"
      BY <1>3, <3>1, Zenon DEF Receive, Verdict
    <3>2. CASE Head(feed[c]).kind # "status"
      BY <1>3, <3>2, Zenon DEF Receive, browser
    <3>. QED
      BY <3>1, <3>2
  <2>2. feed[c] \in Seq(Frame) /\ feed[c] # <<>> /\ Len(feed[c]) <= FeedDepth
    BY <1>0, <1>3 DEF Receive
  <2>3. Tail(feed[c]) \in Seq(Frame) /\ Len(Tail(feed[c])) <= FeedDepth
    BY <2>2
  <2>4. \A d \in Clients : Len(feed'[d]) <= FeedDepth
    BY <1>3, <2>3, FeedBounded DEF Receive
  <2>. QED
    BY <1>3, <2>1, <2>4 DEF Receive, game, server
<1>4. ASSUME NEW c \in Clients, Close(c) PROVE Bounded'
  BY <1>0, <1>4 DEF Close, game, server
<1>5. ASSUME NEW c \in Clients, Subscribe(c) PROVE Bounded'
  <2>1. <<Tell("launch_defaults")>> \in Seq(Frame) /\ Len(<<Tell("launch_defaults")>>) <= FeedDepth
    BY FrameIs
  <2>2. \A d \in Clients : Len(feed'[d]) <= FeedDepth
    BY <1>5, <2>1, FeedBounded DEF Subscribe
  <2>. QED
    BY <1>5, <2>2 DEF Subscribe, game, server, browser
<1>6. ASSUME NEW c \in Clients, NEW frame \in Frame, Free(c),
             feed' = [feed EXCEPT ![c] = Append(@, frame)]
      PROVE  \A d \in Clients : Len(feed'[d]) <= FeedDepth
  <2>1. feed[c] \in Seq(Frame) /\ Len(feed[c]) < FeedDepth /\ FeedDepth \in Nat
    BY <1>0, <1>6 DEF Free
  <2>2. Append(feed[c], frame) \in Seq(Frame) /\ Len(Append(feed[c], frame)) <= FeedDepth
    BY <2>1
  <2>. QED
    BY <1>6, <2>2, FeedBounded
<1>7. ASSUME NEW c \in Clients, Snapshot(c) \/ ForwardStatus(c) PROVE Bounded'
  <2>1. Show(status) \in Frame
    BY FrameIs DEF Reaching, Typed
  <2>2. \A d \in Clients : Len(feed'[d]) <= FeedDepth
    BY <1>6, <1>7, <2>1 DEF Snapshot, ForwardStatus
  <2>. QED
    BY <1>7, <2>2 DEF Snapshot, ForwardStatus, game, server, browser
<1>8. ASSUME NEW c \in Clients, ForwardEvent(c) PROVE Bounded'
  <2>1. events[c] \in Seq(Event) /\ events[c] # <<>>
    BY <1>0, <1>8 DEF ForwardEvent
  <2>2. Len(Tail(events[c])) <= Len(events[c]) /\ Tell(Head(events[c])) \in Frame
    BY <2>1, FrameIs
  <2>3. \A d \in Clients : Len(events'[d]) <= EventDepth
    <3>1. ASSUME NEW d \in Clients PROVE Len(events'[d]) <= EventDepth
      <4>1. /\ Len(events[d]) \in Nat /\ Len(events[d]) <= EventDepth
            /\ Len(events'[d]) \in Nat /\ Len(events'[d]) <= Len(events[d])
        BY <1>0, <1>8, <2>1, <2>2 DEF ForwardEvent
      <4>. QED
        BY <4>1
    <3>. QED
      BY <3>1
  <2>4. \A d \in Clients : Len(feed'[d]) <= FeedDepth
    BY <1>6, <1>8, <2>2 DEF ForwardEvent
  <2>. QED
    BY <1>8, <2>3, <2>4 DEF ForwardEvent, game, server, browser
<1>9. ASSUME NEW c \in Clients, TakeCommand(c) PROVE Bounded'
  <2>1. wire[c] \in Seq(Command) /\ wire[c] # <<>>
    BY <1>9 DEF TakeCommand, Linked
  <2>2. Head(wire[c]) \in Command
    BY <2>1
  <2>3. Len(queue') <= QueueDepth
    BY <1>0, <1>9, <2>2 DEF TakeCommand
  <2>4. lost' \in [Clients -> BOOLEAN]
    BY <1>9, Zenon DEF TakeCommand
  <2>. QED
    BY <1>9, <2>3, <2>4 DEF TakeCommand, game, browser
<1>10. CASE Connect
  BY <1>1, <1>10 DEF Connect, game, browser
<1>11. CASE SessionEnds
  <2>1. lost' \in [Clients -> BOOLEAN]
    BY <1>11, Zenon DEF SessionEnds
  <2>. QED
    BY <1>11, <2>1 DEF SessionEnds, browser
<1>12. CASE NextCommand
  BY <1>0, <1>12 DEF NextCommand, game, socket, browser
<1>13. CASE Refuse \/ Dispatch \/ PopMessage \/ DeclareDead \/ ShowUt
  <2>1. UNCHANGED <<events, lost>> \/ \E event \in Event : Broadcast(event)
    BY <1>0, <1>13, Zenon DEF Refuse, Dispatch, PopMessage, DeclareDead, ShowUt, Verdict
  <2>. QED
    BY <1>1, <1>13, <2>1 DEF Refuse, Dispatch, PopMessage, DeclareDead, ShowUt, game, server, browser
<1>14. CASE StartScript \/ Beat \/ EndScript
  BY <1>14 DEF StartScript, Beat, EndScript, server, socket, browser
<1>15. CASE Die
  <2>1. lost' \in [Clients -> BOOLEAN]
    BY <1>15, Zenon DEF Die
  <2>. QED
    BY <1>15, <2>1 DEF Die, server, socket, browser
<1>16. CASE UNCHANGED vars
  BY <1>16 DEF vars, game, server, socket, browser
<1>. QED
  BY <1>2, <1>3, <1>4, <1>5, <1>7, <1>8, <1>9, <1>10, <1>11, <1>12, <1>13, <1>14, <1>15,
     <1>16 DEF Next, Task

-----------------------------------------------------------------------------
(* Every click is in one place at most: on the wire, in the queue, with    *)
(* the dispatcher, on the CPU, or with the runs that died there.  So no    *)
(* more runs die than commands were clicked.                               *)
OnWire == {p \in Clients \X Nat : p[2] \in 1..Len(wire[p[1]])}
AtWork == IF busy = None THEN 0 ELSE 1

Counted ==
  /\ spent \in [DOMAIN Budget -> Nat] /\ spent["click"] <= MaxClick
  /\ IsFiniteSet(OnWire)
  /\ dead \in Nat
  /\ Cardinality(OnWire) + Len(queue) + AtWork + Len(scripts) + dead <= spent["click"]

LEMMA Sizes ==
  ASSUME Linked, Counted
  PROVE  /\ Cardinality(OnWire) \in Nat /\ Len(queue) \in Nat /\ AtWork \in Nat
         /\ Len(scripts) \in Nat /\ dead \in Nat /\ spent["click"] \in Nat /\ MaxClick \in Nat
<1>1. "click" \in DOMAIN Budget /\ Budget["click"] = MaxClick
  BY DEF Budget
<1>2. MaxClick \in Nat /\ spent["click"] \in Nat
  BY <1>1 DEF Counted
<1>3. Cardinality(OnWire) \in Nat
  BY FS_CardinalityType DEF Counted
<1>. QED
  BY <1>2, <1>3 DEF Linked, Counted, AtWork

LEMMA InitCounted == Init => Counted
<1>. SUFFICES ASSUME Init PROVE Counted
  OBVIOUS
<1>1. OnWire = {}
  <2>1. ASSUME NEW p \in OnWire PROVE FALSE
    <3>1. p[1] \in Clients /\ p[2] \in 1..Len(wire[p[1]]) /\ wire[p[1]] = <<>>
      BY <2>1 DEF Init, OnWire
    <3>. QED
      BY <3>1
  <2>. QED
    BY <2>1
<1>2. IsFiniteSet(OnWire) /\ Cardinality(OnWire) = 0
  BY <1>1, FS_EmptySet
<1>3. "click" \in DOMAIN Budget /\ Budget["click"] = MaxClick
  BY DEF Budget
<1>4. spent \in [DOMAIN Budget -> Nat] /\ spent["click"] = 0 /\ MaxClick \in Nat
  BY <1>3 DEF Init
<1>. QED
  BY <1>2, <1>4 DEF Init, Counted, AtWork

(* The wires when one of them grows, shrinks or is cut.                    *)
LEMMA WireGrows ==
  ASSUME Linked, Counted, NEW c \in Clients, NEW x \in Command,
         wire' = [wire EXCEPT ![c] = Append(@, x)]
  PROVE  IsFiniteSet(OnWire') /\ Cardinality(OnWire') = Cardinality(OnWire) + 1
<1>. DEFINE n == Len(wire[c]) + 1
<1>1. wire \in [Clients -> Seq(Command)] /\ n \in Nat /\ Len(wire'[c]) = n
  BY DEF Linked
<1>2. /\ \A d \in Clients : Len(wire[d]) \in Nat /\ Len(wire'[d]) \in Nat
      /\ \A d \in Clients : d # c => wire'[d] = wire[d]
  BY <1>1
<1>3. <<c, n>> \notin OnWire
  BY <1>1 DEF OnWire
<1>4. OnWire' = OnWire \cup {<<c, n>>}
  <2>1. ASSUME NEW p \in Clients \X Nat
        PROVE  p \in OnWire' <=> p \in OnWire \/ p = <<c, n>>
    <3>1. CASE p[1] = c
      BY <1>1, <3>1 DEF OnWire
    <3>2. CASE p[1] # c
      BY <1>2, <3>2 DEF OnWire
    <3>. QED
      BY <3>1, <3>2
  <2>2. OnWire \subseteq Clients \X Nat /\ OnWire' \subseteq Clients \X Nat
    BY DEF OnWire
  <2>3. <<c, n>> \in Clients \X Nat
    BY <1>1
  <2>. QED
    BY <2>1, <2>2, <2>3
<1>. QED
  BY <1>3, <1>4, FS_AddElement DEF Counted

LEMMA WireShrinks ==
  ASSUME Linked, Counted, NEW c \in Clients, wire[c] # <<>>,
         wire' = [wire EXCEPT ![c] = Tail(@)]
  PROVE  IsFiniteSet(OnWire') /\ Cardinality(OnWire') = Cardinality(OnWire) - 1
<1>. DEFINE n == Len(wire[c])
<1>1. wire \in [Clients -> Seq(Command)] /\ n \in Nat \ {0} /\ Len(wire'[c]) = n - 1
  BY DEF Linked
<1>2. /\ \A d \in Clients : Len(wire[d]) \in Nat
      /\ \A d \in Clients : d # c => wire'[d] = wire[d]
  BY <1>1
<1>3. <<c, n>> \in OnWire
  BY <1>1 DEF OnWire
<1>4. OnWire' = OnWire \ {<<c, n>>}
  <2>1. ASSUME NEW p \in Clients \X Nat
        PROVE  p \in OnWire' <=> p \in OnWire /\ p # <<c, n>>
    <3>1. CASE p[1] = c
      BY <1>1, <3>1 DEF OnWire
    <3>2. CASE p[1] # c
      BY <1>2, <3>2 DEF OnWire
    <3>. QED
      BY <3>1, <3>2
  <2>2. OnWire \subseteq Clients \X Nat /\ OnWire' \subseteq Clients \X Nat
    BY DEF OnWire
  <2>. QED
    BY <2>1, <2>2
<1>. QED
  BY <1>3, <1>4, FS_RemoveElement DEF Counted

LEMMA WireCut ==
  ASSUME Linked, Counted, NEW c \in Clients, wire' = [wire EXCEPT ![c] = <<>>]
  PROVE  IsFiniteSet(OnWire') /\ Cardinality(OnWire') <= Cardinality(OnWire)
<1>1. /\ \A d \in Clients : d # c => wire'[d] = wire[d]
      /\ wire'[c] = <<>>
  BY DEF Linked
<1>2. OnWire' \subseteq OnWire
  <2>1. ASSUME NEW p \in OnWire' PROVE p \in OnWire
    <3>1. p \in Clients \X Nat /\ p[2] \in 1..Len(wire'[p[1]])
      BY DEF OnWire
    <3>2. p[1] # c
      BY <1>1, <3>1
    <3>. QED
      BY <1>1, <3>1, <3>2 DEF OnWire
  <2>. QED
    BY <2>1
<1>. QED
  BY <1>2, FS_Subset DEF Counted

LEMMA WireStays ==
  ASSUME Counted, wire' = wire
  PROVE  IsFiniteSet(OnWire') /\ Cardinality(OnWire') = Cardinality(OnWire)
<1>1. OnWire' = OnWire
  BY DEF OnWire
<1>. QED
  BY <1>1 DEF Counted

LEMMA SpendIs ==
  ASSUME Counted, NEW kind \in DOMAIN Budget, Spend(kind)
  PROVE  /\ spent' \in [DOMAIN Budget -> Nat] /\ spent'["click"] <= MaxClick
         /\ spent'["click"] = IF kind = "click" THEN spent["click"] + 1 ELSE spent["click"]
<1>1. "click" \in DOMAIN Budget /\ Budget["click"] = MaxClick /\ Budget[kind] \in Nat
  BY DEF Budget
<1>2. spent[kind] + 1 \in Nat
  BY DEF Counted
<1>3. spent' = [spent EXCEPT ![kind] = spent[kind] + 1] /\ spent[kind] < Budget[kind]
  BY DEF Spend
<1>. HIDE DEF Budget
<1>4. spent' \in [DOMAIN Budget -> Nat]
  BY <1>2, <1>3 DEF Counted
<1>5. CASE kind = "click"
  BY <1>1, <1>3, <1>4, <1>5 DEF Counted
<1>6. CASE kind # "click"
  BY <1>1, <1>3, <1>4, <1>6 DEF Counted
<1>. QED
  BY <1>4, <1>5, <1>6

LEMMA SumMoves ==
  ASSUME NEW m \in Int, NEW n \in Int, NEW x \in Int, NEW y \in Int,
         m <= x, n - m <= y - x
  PROVE  n <= y
  OBVIOUS

LEMMA NextCounted == Linked /\ Linked' /\ Counted /\ [Next]_vars => Counted'
<1>. SUFFICES ASSUME Linked, Linked', Counted, [Next]_vars PROVE Counted'
  OBVIOUS
<1>0. {"click", "ut", "cut", "close", "death"} \subseteq DOMAIN Budget
  BY DEF Budget
<1>. DEFINE wires == Cardinality(OnWire)
            total == wires + Len(queue) + AtWork + Len(scripts) + dead
(* What a step may do to the numbers.                                      *)
<1>1. ASSUME IsFiniteSet(OnWire'), wires' \in Nat,
             AtWork' \in Nat, dead' \in Nat, Len(queue') \in Nat, Len(scripts') \in Nat,
             spent' \in [DOMAIN Budget -> Nat], spent'["click"] <= MaxClick,
             total' - total <= spent'["click"] - spent["click"]
      PROVE  Counted'
  <2>1. spent'["click"] \in Nat /\ spent["click"] \in Nat
    BY <1>0, <1>1, Sizes
  <2>2. total <= spent["click"] /\ total \in Int
    BY Sizes DEF Counted
  <2>3. total' \in Int
    BY <1>1
  <2>. HIDE DEF total
  <2>4. total' <= spent'["click"]
    BY <1>1, <2>1, <2>2, <2>3, SumMoves
  <2>. QED
    BY <1>1, <2>4 DEF Counted, total
<1>2. /\ wires \in Nat /\ Len(queue) \in Nat /\ AtWork \in Nat /\ Len(scripts) \in Nat
      /\ dead \in Nat /\ spent["click"] \in Nat /\ MaxClick \in Nat
  BY Sizes
<1>3. Len(queue') \in Nat /\ Len(scripts') \in Nat /\ AtWork' \in Nat
  BY DEF Linked, AtWork
<1>4. IsFiniteSet(OnWire') => wires' \in Nat
  BY FS_CardinalityType
<1>5. wire' = wire => IsFiniteSet(OnWire') /\ wires' = wires
  BY WireStays
<1>6. spent' = spent => spent' \in [DOMAIN Budget -> Nat] /\ spent'["click"] <= MaxClick
  BY DEF Counted
<1>7. busy' = busy => AtWork' = AtWork
  BY DEF AtWork
<1>. HIDE DEF wires
<1>8. ASSUME wire' = wire, spent' = spent, dead' \in Nat,
             Len(queue') + AtWork' + Len(scripts') + dead' <= Len(queue) + AtWork + Len(scripts) + dead
      PROVE  Counted'
  <2>1. /\ IsFiniteSet(OnWire') /\ wires' = wires /\ spent'["click"] = spent["click"]
        /\ spent' \in [DOMAIN Budget -> Nat] /\ spent'["click"] <= MaxClick
    BY <1>5, <1>6, <1>8
  <2>2. total' \in Int /\ total' - total <= 0
    BY <1>2, <1>3, <1>8, <2>1
  <2>. HIDE DEF total
  <2>3. total' - total <= spent'["click"] - spent["click"]
    <3>1. spent'["click"] - spent["click"] = 0
      BY <1>2, <2>1
    <3>. QED
      BY <2>2, <3>1
  <2>. QED
    BY <1>1, <1>3, <1>4, <1>8, <2>1, <2>3
<1>9. ASSUME UNCHANGED <<wire, queue, busy, scripts, dead>>,
             spent' = spent \/ \E kind \in DOMAIN Budget : Spend(kind)
      PROVE  Counted'
  <2>1. /\ spent' \in [DOMAIN Budget -> Nat] /\ spent'["click"] <= MaxClick
        /\ spent'["click"] >= spent["click"]
    BY <1>2, <1>6, <1>9, SpendIs
  <2>2. spent'["click"] \in Nat
    BY <1>0, <2>1
  <2>. QED
    BY <1>1, <1>2, <1>4, <1>5, <1>7, <1>9, <2>1, <2>2
<1>10. ASSUME NEW c \in Clients, NEW op \in Ops, Click(c, op) PROVE Counted'
  <2>1. /\ wire' = [wire EXCEPT ![c] = Append(@, [op |-> op, from |-> c])]
        /\ Spend("click") /\ UNCHANGED <<queue, busy, scripts, dead>>
    BY <1>10 DEF Click, game, server
  <2>2. [op |-> op, from |-> c] \in Command
    BY DEF Command
  <2>3. IsFiniteSet(OnWire') /\ wires' = wires + 1
    BY <2>1, <2>2, WireGrows DEF wires
  <2>4. /\ spent' \in [DOMAIN Budget -> Nat] /\ spent'["click"] <= MaxClick
        /\ spent'["click"] = spent["click"] + 1
    BY <1>0, <2>1, SpendIs
  <2>. QED
    BY <1>1, <1>2, <1>4, <1>7, <2>1, <2>3, <2>4
<1>11. ASSUME NEW c \in Clients, Receive(c) \/ Subscribe(c) \/ Snapshot(c) \/ ForwardEvent(c) \/ ForwardStatus(c)
       PROVE  Counted'
  BY <1>9, <1>11 DEF Receive, Subscribe, Snapshot, ForwardEvent, ForwardStatus, game, server
<1>12. ASSUME NEW c \in Clients, Close(c) PROVE Counted'
  <2>1. /\ wire' = [wire EXCEPT ![c] = <<>>]
        /\ Spend("close") /\ UNCHANGED <<queue, busy, scripts, dead>>
    BY <1>12 DEF Close, game, server
  <2>2. IsFiniteSet(OnWire') /\ wires' <= wires
    BY <2>1, WireCut DEF wires
  <2>3. /\ spent' \in [DOMAIN Budget -> Nat] /\ spent'["click"] <= MaxClick
        /\ spent'["click"] = spent["click"]
    BY <1>0, <2>1, SpendIs
  <2>. QED
    BY <1>1, <1>2, <1>4, <1>7, <2>1, <2>2, <2>3
<1>13. ASSUME NEW c \in Clients, TakeCommand(c) PROVE Counted'
  <2>1. /\ wire[c] # <<>> /\ wire' = [wire EXCEPT ![c] = Tail(@)]
        /\ queue' = IF Len(queue) < QueueDepth THEN Append(queue, Head(wire[c])) ELSE queue
        /\ UNCHANGED <<busy, scripts, dead, spent>>
    BY <1>13 DEF TakeCommand, game
  <2>2. IsFiniteSet(OnWire') /\ wires' = wires - 1
    BY <2>1, WireShrinks DEF wires
  <2>3. Head(wire[c]) \in Command /\ queue \in Seq(Command)
    BY <2>1 DEF Linked
  <2>4. Len(queue') <= Len(queue) + 1
    BY <2>1, <2>3
  <2>. QED
    BY <1>1, <1>2, <1>3, <1>4, <1>6, <1>7, <2>1, <2>2, <2>4
<1>14. CASE Connect \/ ShowUt
  BY <1>0, <1>9, <1>14 DEF Connect, ShowUt, game, server
<1>15. CASE SessionEnds
  <2>1. /\ Spend("cut") /\ UNCHANGED <<wire, queue, dead>> /\ AtWork' = 0
        /\ scripts' = scripts \/ (busy # None /\ scripts' = Append(scripts, busy.op) /\ busy.op \in Scripts)
    BY <1>15 DEF SessionEnds, AtWork
  <2>2. Len(scripts') + AtWork' <= Len(scripts) + AtWork
    BY <2>1 DEF AtWork, Linked
  <2>3. /\ spent' \in [DOMAIN Budget -> Nat] /\ spent'["click"] <= MaxClick
        /\ spent'["click"] = spent["click"]
    BY <1>0, <2>1, SpendIs
  <2>. QED
    BY <1>1, <1>2, <1>3, <1>4, <1>5, <2>1, <2>2, <2>3
<1>16. CASE NextCommand
  <2>1. /\ queue # <<>> /\ queue' = Tail(queue) /\ AtWork = 0 /\ AtWork' <= 1
        /\ UNCHANGED <<wire, scripts, dead, spent>>
    BY <1>16 DEF NextCommand, game, socket, AtWork
  <2>2. Len(queue') = Len(queue) - 1
    BY <2>1 DEF Linked
  <2>. QED
    BY <1>2, <1>3, <1>8, <2>1, <2>2
<1>17. CASE Refuse
  <2>1. AtWork' = 0 /\ UNCHANGED <<wire, queue, scripts, dead, spent>>
    BY <1>17 DEF Refuse, game, AtWork
  <2>. QED
    BY <1>2, <1>3, <1>8, <2>1
<1>18. CASE Dispatch
  <2>1. /\ AtWork = 1 /\ AtWork' = 0 /\ UNCHANGED <<wire, queue, dead, spent>>
        /\ scripts' = IF busy.op \in Scripts THEN Append(scripts, busy.op) ELSE scripts
    BY <1>18 DEF Dispatch, AtWork
  <2>2. Len(scripts') <= Len(scripts) + 1
    BY <2>1 DEF Linked
  <2>. QED
    BY <1>2, <1>3, <1>8, <2>1, <2>2
<1>19. CASE PopMessage \/ StartScript \/ Beat
  BY <1>9, <1>19 DEF PopMessage, StartScript, Beat, server, socket
<1>20. CASE DeclareDead
  <2>1. dead > 0 /\ dead' = dead - 1 /\ UNCHANGED <<wire, queue, busy, scripts, spent>>
    BY <1>20 DEF DeclareDead
  <2>. QED
    BY <1>2, <1>7, <1>8, <2>1
<1>21. CASE EndScript
  <2>1. scripts # <<>> /\ scripts' = Tail(scripts) /\ UNCHANGED <<wire, queue, busy, dead, spent>>
    BY <1>21 DEF EndScript, Linked, server, socket
  <2>2. Len(scripts') = Len(scripts) - 1
    BY <2>1 DEF Linked
  <2>. QED
    BY <1>2, <1>7, <1>8, <2>1, <2>2
<1>22. CASE Die
  <2>1. /\ scripts' = <<>> /\ Spend("death") /\ UNCHANGED <<wire, queue, busy>>
        /\ dead' = dead + Len(scripts) \/ dead' = dead
    BY <1>22 DEF Die, server, socket
  <2>2. Len(scripts') = 0
    BY <2>1
  <2>3. /\ spent' \in [DOMAIN Budget -> Nat] /\ spent'["click"] <= MaxClick
        /\ spent'["click"] = spent["click"]
    BY <1>0, <2>1, SpendIs
  <2>. QED
    BY <1>1, <1>2, <1>3, <1>4, <1>5, <1>7, <2>1, <2>2, <2>3
<1>23. CASE UNCHANGED vars
  BY <1>9, <1>23 DEF vars, game, server, socket
<1>. QED
  BY <1>10, <1>11, <1>12, <1>13, <1>14, <1>15, <1>16, <1>17, <1>18, <1>19, <1>20, <1>21,
     <1>22, <1>23 DEF Next, Task

(* The queue and the backlogs of events keep to their depths whatever the  *)
(* browsers send, and no run dies that nobody clicked for.                 *)
THEOREM TypeCorrect == Spec => []TypeOK
<1>1. Linked /\ Reaching /\ Bounded /\ Counted => TypeOK
  <2>. SUFFICES ASSUME Linked, Reaching, Bounded, Counted PROVE TypeOK
    OBVIOUS
  <2>1. dead \in 0..MaxClick
    BY Sizes DEF Counted
  <2>. QED
    BY <2>1 DEF Linked, Reaching, Typed, Bounded, TypeOK
<1>. QED
  BY <1>1, InitLinked, NextLinked, InitReaching, NextReaching, InitBounded, NextBounded,
     InitCounted, NextCounted, PTL DEF Spec
=============================================================================
