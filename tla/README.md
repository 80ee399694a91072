# A verification of ksp-mission-control

ksp-mission-control is a server that flies Kerbal Space Program vessels from a
browser. The server talks kRPC to the game; inside the game a kOS processor runs
a dispatcher script that executes what the server sends. This directory holds
TLA+ models of how these parts interact, the TLC configurations that check them
on small worlds, and proofs, checked by TLAPS, of what holds in every world.

Check a model with `tlc -workers 2 -config MCReplay.cfg MCMissionLink.tla`, and a
proof with `tlapm WatchdogProofs.tla`. `PROJECT.json` lists the runs, the
lines each definition models, the hazards, and for each property a plausible bug
that breaks it.

## The system

| Component | Source | State | Operations |
|---|---|---|---|
| Script watchdog | `src/src/script_watchdog.rs` | runs watched, the link and its session, silence counters, last UT | `on_dispatch`, `on_done`, `on_heartbeat`, `on_ut`, `ping_due` |
| kRPC session | `src/src/krpc.rs`, `src/src/control.rs` | none across sessions | five loops under one `select!`: dispatcher, inbox, UT stream, kOS ping, heartbeat |
| Telemetry supervisor | `src/src/krpc.rs` | `ConnStatus`, back-off, the watchdog | connect, publish, run a session, retry |
| WebSocket server | `src/src/web.rs`, `src/src/main.rs` | one task per socket; broadcast, watch and mpsc channels | snapshot, forward event, forward status, take command |
| Browser | `src/static/index.html` | `lastKos`, `pending` | click, receive, close, reconnect |
| Dispatch listener | `src/kos/scripts/boot/dispatch_listener.ks` | `BOOT_ID`, `hbPath`, inbox, the `mc` tag | boot, pop a message, run a script, beat, report the end |
| Launch planning | `src/src/launch_planning.rs` | a bracket of altitudes | survey the terrain, bisect the density, clamp |
| Envelope codec | `src/src/control.rs` | none | encode and decode kOS values |
| Circularisation | `src/src/planning.rs` | none | one formula |
| Ascent and maneuver scripts | `src/kos/scripts/*.ks`, `lib/` | flight phases, staging | fly |
| Configuration, deployment, tools | `src/src/config.rs`, `src/src/bin/` | files | read, write, copy |

**How they interact.** A click becomes a frame on a WebSocket; the socket task
puts it in a bounded channel (`try_send`, dropped when full); `run_dispatcher`
takes it, plans over many kRPC calls if it must, looks up the active vessel and
its `mc` CPU, sends the message and records the dispatch in the watchdog. The
CPU queues the message, runs the script when it comes to it, beats once a second
while it runs and sends `script_done` when it returns. Messages of all CPUs go
through one kIPC queue, which is part of the save file. The inbox loop pops it
and feeds the watchdog; the UT stream feeds it time. What the watchdog concludes
goes to the browsers as a status (a watch: only the last value is kept) and as
events (a broadcast: a slow reader loses the oldest).

**What is hard.** A script that dies says nothing. The game pauses, loads a save,
changes vessel, reboots CPUs. `select!` drops loops at their awaits, a popped
message included. kIPC replays messages from before a load. Two vessels can run
the same script. The watch coalesces and the broadcast lags. The two halves of
the dashboard's button logic (the status and `pending`) are updated by different
messages. `PROJECT.json` lists these as hazards, each at its line.

**What makes each part correct.**

- Watchdog: every run has one fate for good; a run dies exactly when its own
  session is quiet for too long, or a save is loaded; the link is up exactly
  while the active vessel answers.
- Session and CPUs: a run that flies on stays watched; runs of a dead session do
  not stay watched; the link comes to name what really runs.
- Supervisor: a game that hangs is noticed within the heartbeat's interval and
  timeout; a game that is reachable is reached within the longest pause.
- The `mc` tag: a vessel with a running CPU has a holder, two only after a race or
  a docking, and the only holder executes what it is sent.
- Server and browsers: no status is lost, the status is the link, and every click
  that disables buttons is followed by something that enables them, unless the code
  drops that something in one of the ways it is known to.
- The way of a command: kOS flies with what was asked for, with the defaults for
  the rest and with what was planned; no key is missing, and what a button sends is
  either acknowledged and executed, or refused aloud and not executed.
- Launch planning: the altitude of the phase split stays inside the bracket and
  the answer is never below the terrain.
- Ascent and maneuver: the clamps release at the end of the countdown, no engine
  is shed that still burns, the payload is kept, the apoapsis is reached, only the
  circularization node is flown, and the script ends or waits before the burn.

## The modules

| Module | What it is |
|---|---|
| `ScriptWatchdog` | every method of the watchdog, one action each |
| `RunTracking` | what the watchdog promises: one fate for each run |
| `WatchdogHistory` | the watchdog with histories that say what its counters should mean |
| `DispatchListener` | the CPUs, the kIPC queue, and what the game may do to them |
| `MissionLink` | `ScriptWatchdog` and `DispatchListener` joined by the loops of `krpc.rs` |
| `McClaim` | which CPU of a vessel takes the `mc` tag, and how commands find it |
| `Supervisor` | the supervisor's retries and the kRPC heartbeat, in seconds |
| `Dashboard` | browsers, socket tasks, channels, supervisor, dispatcher |
| `LaunchPlanning` | the survey and the bisection, one action per batch of calls |
| `Envelope` | the kIPC envelopes and `parse_inbound`, as operators |
| `CommandPath` | one command from the queue through planning (`LaunchPlanning`), `Envelope` and `handleMessage`, and its answers back |
| `Craft`, `Flight` | a vessel; `launch.ks` and `maneuver.ks` flying it |
| `WatchdogProofs` | theorems about `ScriptWatchdog` and `WatchdogHistory` |
| `CommandPathProofs` | theorems about `LaunchPlanning`, `Envelope` and `CommandPath` |
| `MissionLinkProofs`, `DashboardProofs`, `SupervisorProofs`, `McClaimProofs`, `FlightProofs` | theorems about the module of that name |
| `Recursion` | lemmas on the natural numbers that several of them need |
| `MC...` | small worlds for TLC |

Operators whose comment describes a mistake (`SilentAtDeadline`,
`LinkDownKeepsBoot`, ...) are variants no specification uses: they stand beside
the definition they vary, to show that a property would notice.

### ScriptWatchdog, RunTracking and WatchdogHistory

State and names follow the Rust struct. The `Vec` of entries is a set of records
whose `id` is the rank of the dispatch, which is the order of the `Vec`. Time is
discrete: `sinceSample` is the wall time since the last UT sample, capped one
above `MAX_UT_SAMPLE_GAP`, as only the minimum of the two is read. `reported` and
`dispatched` are ghosts; the code returns failures and forgets them. The code
adds to `link_silence` while the link is down, when nothing reads it; the model
does not.

`WatchdogHistory` adds how long each session has been quiet, how long ago each
run was sent and how long ago the active vessel answered, ageing by the time a
sample should count. The watchdog never reads them. `SilenceExact` and
`LinkExact` say that its counters agree with them in every state, which is what
"liveness is tracked per CPU session" means; `OnlyQuietDie` says that a sample
reports exactly the runs whose own session was quiet past the deadline.

`RunTracking` knows runs by number and gives each a fate: unsent, watched, done,
silent or rewind. A run is sent, and settled by one `script_done`; silence fails
some of the watched, a load fails all of them at once and takes the link down.
`ImplementsTracking` says that the watchdog is an implementation of it, under the
mapping `FateOf`: an entry is watched, a reported failure keeps its reason, and a
run in neither place is done. `RunsTracked` proves it for every number of runs.

### DispatchListener and MissionLink

A CPU is powered or not, has a session number, the `run_script` it is executing
(`run`), `hbPath`, and whether its trigger has fired in this period. A run is
over for the game when `hbPath` is cleared, and for the server when
`script_done` is popped; the two are separate actions. A script that aborts takes
the boot script with it: the CPU is down until it boots into a new session.
Saving keeps the outbound queue; loading brings it back, reboots every CPU and
moves the clock back.

`MissionLink` has one action per iteration of a loop. `send_command` is two
actions, because the vessel may be switched between the lookup and the delivery;
delivering and `on_dispatch` are one, because kRPC answers one call at a time and
the reply to the send is followed by `on_dispatch` with no await in between.
`SessionEnds` drops the loops at their awaits: the command under way may have
reached the game or not, and a message may be popped and lost. The watchdog
survives. `Tick` is a beat period of unpaused play and waits for everything that
takes far less: the inbox is polled every 200 ms and UT comes at 5 Hz, against a
beat a second and a deadline of ten.

### Dashboard

The task of a new socket subscribes to both channels and sends `launch_defaults`
(`Subscribe`); when that send is through it reads the status, marks it as seen and
sends it (`Snapshot`, after which `served` holds). Statuses and events published
between the two are kept for it. From then on it serves events, the watched status
and commands in any order; each waits for room in the socket. Clients keep
`lastKos` (`view`) and `pending`. A click sends a command; `held` ones (launch,
plan, execute) set `pending`. The dispatcher takes one command at a time and refuses
it (`command_error`) or dispatches it. The CPU and the watchdog are reduced to what
makes messages and the link move; `MissionLink` has them in full.

`lost` is a ghost. It holds of a client when the code has dropped what could have
released its buttons, which it does in five ways:

- a command that finds the queue full is logged and dropped (`web.rs:105`);
- a broadcast overwrites a verdict a slow socket has not forwarded (`web.rs:54`);
- a kRPC session ends while a command is being planned or sent, and nobody is told
  (`krpc.rs:184`);
- a session ends with a `script_done` popped and not read (`krpc.rs:343`);
- a script sent while the link is down dies unclaimed (`MCUnclaimedRun`).

`PendingResolves` says that nothing else keeps the buttons disabled.

### McClaim

A CPU that boots walks the parts of its vessel and becomes passive at the first
other tag it meets; the walk takes kOS more than a tick, so each part read is a
step, and two CPUs that walk at the same time interleave. Passive CPUs walk again
at every poll. The tag is the part's: it outlives power, reboots, docking and
undocking. `send_command` picks any holder aboard. `excused` remembers which pairs
of CPUs looked at the same time, or met by docking; `SharedOnlyByRace` says that
only those ever carry the tag together, which is what the warning in
`control.rs:101-106` is about.

### Supervisor

`run_telemetry_supervisor` awaits one thing at a time (`phase`): a connection, the
calendar, the UT stream, the session, or the end of a pause. The game is down, up,
frozen, or at its main menu (`sulking`: it answers `get_client_id`, and may fail
anything else). Time passes in seconds, only when nothing that can be answered and
no timer that is due is left. A tick of the heartbeat that was missed during a slow
call is made up for, as Tokio's interval does (`due` below zero). `silent` and
`reach` are histories; `fails` counts what the back-off should be.

### LaunchPlanning

The body's density curve, the depth of its atmosphere, the target density and the
height of the ground are inputs. The bracket starts at the terrain and the top of
the atmosphere, which may be upside down. Any call may fail and end the planning.
Altitudes are whole numbers with a midpoint rounded down.

### Envelope and CommandPath

A JSON value is a record whose field names its type, so `as_str` on a number is
what it is in Rust: nothing. The encoders and `decode_dict` are operators of the
same name. What kIPC does in between is external: it takes containers only in
envelopes, and gives a Lexicon back in either of two shapes (`Serialized`).

`CommandPath` follows one command: `run_dispatcher` takes it, refuses it, plans it
or passes it through; `encode_dict` wraps it; `handleMessage` does what it says,
rejects it with its reason (a script it does not know, one that was never copied to
the disk, arguments that are missing or no Lexicon), acknowledges it without
doing anything (an action group outside 1 to 10), or drops it; the events come back
through `parse_inbound`. A parameter is a small
whole number: its sign and which one it is are all that matters, and a formula is
reduced to whether it yields a number (a square root of something negative, zero
over zero). `Null` is what `serde_json` writes for one that is none.

### Craft and Flight

`Craft` is the vessel: stages, engines that light at one and are shed at another,
clamps, fuel in ticks, altitude and apoapsis in bands, drag that may lower the
apoapsis. None of it is code of the repository. `Flight` is the scripts: each step
of the mainline runs from one `wait` to the next, but kOS may suspend it anywhere
in between, so physics may tick after any step (`rest`). The staging trigger
interrupts the mainline wherever it is, is never removed, and holds it up while it
waits for `stage:ready`. The waits of `maneuver.ks:45-59`, for the node, the heading
and the end of warp, last as many ticks as they like. A sum that divides by a mass flow of zero ends the script
(`aborted`).

## What is assumed of the code outside

- kRPC answers the calls of one client one at a time.
- A message delivered to a CPU waits in its inbox, powered or not; whether the
  inbox survives a reboot is left open, and after a load it is empty.
- kIPC's outbound queue is first in, first out, and is saved and restored whole.
- A WebSocket and a Tokio channel keep order; `select!` picks at random among
  what is ready.
- A kOS mainline is suspended when its instructions for a tick are used up, a
  trigger interrupts it, and a trigger that waits holds the mainline up. A CPU
  without power keeps the tag of its part.
- A game that answers a call answers it at once, a frozen one never, and one that
  quit resets its connections.
- A vessel has the staging `README.md:69-73` asks for and fuel enough for its
  mission, and a final altitude leaves room above the atmosphere for what drag
  takes. Stages of the player's own making during an ascent are left out.

## The runs

| Run | Module | Checks | Outcome |
|---|---|---|---|
| `MCWatchdogHistory` | `WatchdogHistory` | `AccountedOnce` `LinkCoherent` `SilenceExact` `LinkExact` `OnlyQuietDie` `ImplementsTracking` | holds |
| `MCReplay` | `MissionLink` | `TypeOK` `RunningIsTrue` `OwnRunWatched` | holds |
| `MCReboot` | `MissionLink` | `DeadSessionSettles` `LinkConverges` `OwnRunWatched` | holds |
| `MCVessels` | `MissionLink` | `OwnRunWatched` | holds |
| `MCDashboard` | `Dashboard` | `TypeOK` `StatusReaches` `PendingResolves` `ViewConverges` | holds |
| `MCCommandPath` | `CommandPath` | `SplitBracketed` `EntryPlaced` `BracketNarrow` `KeysDefined` `LaunchAsAsked` `ButtonAnswered` `HeardAsSaid` | holds |
| `MCFlight` | `Flight` | `TypeOK` `Liftoff` `PayloadKept` `ApoapsisHeld` `OnlyCircFlown` `QuietRelease` `UnspentKept` `AscentEnds` | holds |
| `MCMcClaim` | `McClaim` | `SharedOnlyByRace` `HolderAppears` `SoleHolderServes` | holds |
| `MCSupervisor` | `Supervisor` | `HangNoticed` `ReachableSoon` `PausesDouble` `Reconnects` | holds |
| `MCStaleStamp` | `MissionLink` | `NoHeardRunDies` | violated |
| `MCUnclaimedRun` | `MissionLink` | `DeadRunSettles` | violated |
| `MCDashReleased` | `Dashboard` | `PendingCovers` | violated |

`StatusReaches` contains that the published status is the link (`LinkPublished`),
which is proved. The type invariants of `ScriptWatchdog`, `LaunchPlanning`, `McClaim` and
`Supervisor` are proved and not run.

### Bounds, and why they are enough

- **Watchdog.** Two sessions, two scripts, two runs, four UT values, a deadline of
  two units and a sample gap of two. A run can be claimed late, outlived by
  another session's beats, settled by the other session's `script_done`, rewound
  or aged out over one or two samples; the gap can exceed its cap, as in a pause.
- **MissionLink.** UT values are names: only what the watchdog remembers must be
  told from the game's clock, so three always leave a fresh one. One ping per inbox
  is told apart: more repeat an answer. `MCReplay` has two runs and
  one load, enough for a message of the old session to meet a run of the new one;
  its second script name is one the dispatcher rejects. `MCReboot` has two CPUs
  on two vessels and one run, one death, one lost kRPC session and one switch, with a
  deadline of three: the loss of one beat with the session must leave time for the
  next (ten periods in the code). The constraint `SwitchApart` keeps the switch out
  of the behaviours with a death or a lost session, and the second CPU out of those
  without a switch, where the first is the active one. No step it
  rules out is one that fairness calls for, so every behaviour that remains is a fair
  one of the whole model. It takes two minutes. `MCVessels`
  has two CPUs, which are symmetric, two runs of one script and one switch. While
  nobody listens kIPC gathers two messages at most (`MaxBacklog`).
- **Dashboard.** One browser, as browsers meet only in the channels and the proofs
  have any number of them; a socket of two frames, room for `launch_defaults` and
  the snapshot and little else, so that frames wait; a command queue and an event
  channel with room for one (16 and 64 in the code) against two clicks and a UT
  sample, so that both overflow; two scripts, which may die; a lost session and a
  closed socket. Every loss that `lost` names happens within these bounds, and
  `PendingResolves` holds around them.
- **CommandPath.** Every field of the form absent, zero, positive, negative, of
  every other type, alone or with another; arrays, envelopes, unknown keys; every
  op of the listener and one it does not know; an action group out of range. A launch with the defaults meets
  twenty altitudes and every thinning curve of three densities, with the ground
  below the datum, below, within and above the atmosphere; four iterations are
  enough to reach one unit. Other commands meet one curve.
- **Flight.** Boosters beside a core, one engine for the whole way, a vessel without
  clamps, and a tall one whose countdown exceeds three seconds, each with several
  amounts of fuel; missions under thick and thin air and without any, with drag
  that takes nothing or two bands; one node of the player's before or during the
  ascent. The stages of an ascent end in every phase and in the burn. A payload
  stage burns 27 ticks, what `FuelEnough` asks for.
- **McClaim.** Three CPUs on two vessels, and one each of a loss of power, a docking,
  an undocking and a command: a race of two takes two CPUs, a third looks on.
- **Supervisor.** The durations of `krpc.rs` in seconds. Nine turns of the game are
  more than a start, a load, a freeze, a thaw, a quit and another start. Missed
  ticks are remembered for 26 seconds, more than one call that times out.

Deadlock is checked for the watchdog, `MissionLink` and the supervisor, whose
clocks always tick. The dashboard and the CPUs of `McClaim` may rest when the
bounds are spent; a command and a flight end.

### Fairness

- `MissionLink!FairSpec`: weak fairness of the server's loops, of reconnecting, of
  each listener's own steps and of time. A Tokio task that is ready runs, and a
  powered CPU that is not blocked executes. No fairness for commands, for the end
  of a script, for power, for the operator's switches or for failures.
- `Dashboard!FairSpec`: the browser's event loop, the socket tasks, the dispatcher
  (a command ends in a refusal or a dispatch), the inbox, the start of a script and
  its beats while the game is played. No script need end. The three
  branches of a socket task get strong fairness, since a branch may be disabled
  again and again by a full socket while `select!` picks ready branches at random.
  No fairness for clicks or for kRPC to be reachable.
- `Supervisor!FairSpec`: weak fairness of the supervisor's task and of time. None
  for the game.
- `McClaim!FairSpec`: weak fairness of each CPU's own steps, as kOS runs every
  powered CPU. Nobody must power one, dock or send.
- `Flight!FairSpec`: weak fairness of the mainline, of the trigger and of physics.
  Nothing says that the waits before the burn end (the vessel may not be able to
  turn), so `AscentEnds` names staying there for ever as its other outcome: the
  ascent up to there ends, and so does a burn once it has begun.

### What the violated runs show

- `MCStaleStamp`: `on_dispatch` stamps a run with the session that answered last.
  Just after a vessel switch that is the old vessel's, so the run is watched by
  the wrong heartbeats and is declared dead while its own CPU beats
  (`script_watchdog.rs:14-16` says a script dies only when its own CPU goes quiet).
- `MCUnclaimedRun`: a script is sent while the link is down, so its entry has no
  session. It starts, and dies in mid-flight before the heartbeat trigger has fired.
  The CPU reboots, its idle answer to a ping claims the entry, and the answers that
  follow keep it alive for ever: the failure that `script_watchdog.rs:3-7` promises
  of a script that dies mid-flight is never reported.
- `MCDashReleased`: every `command_error`, `node_planned` or `script_done` clears
  `pending`, whatever command it answers (`index.html:223`). A toggle that is
  refused while a launch clicked after it is still queued enables the launch button
  again; `index.html:108-110` says that `pending` covers the planning until the
  server has confirmed *it*.

Where the passing runs exclude these cases they say how: `OwnRunWatched` speaks of
runs stamped with the session that executes them, `DeadSessionSettles` of runs
stamped with a session that is over, `PendingResolves` of clicks for which nothing
is `lost`.

## The proofs

Each theorem holds for every value of the constants that the assumptions of its
module allow. These say what the code takes for granted, and no more:

| Assumption | What it says |
|---|---|
| `ConstAssumption` (`ScriptWatchdog`) | `None` is no name, UT values are integers, the deadline is a natural number |
| `LinkAssumption` (`MissionLink`) | some CPUs, a session each to begin with, a sample gap above zero, and always a fresh UT value |
| `Durations` (`Supervisor`) | the pauses are positive, the first is not above the longest, nor the heartbeat's interval |
| `PlanAssumption` (`LaunchPlanning`) | density never grows with altitude, and a midpoint of two known altitudes is known |
| `CommandAssumption` (`CommandPath`) | what a command holds, and what that holds, is JSON |
| `DesignAssumption`, `MissionAssumption` (`Craft`) | a vessel is built of numbered stages and engines, a mission of numbers |
| `StagingAssumption` (`Craft`) | what `README.md:69-73` asks of the staging: clamps before engines, of two engines that burn together none is shed before one that burns longer |
| `NodesAssumption` (`Flight`), `Setting` (`Dashboard`) | bounds are natural numbers, and names are apart |

TLC evaluates each of them on the small worlds.

### The watchdog

`WatchdogProofs` has two parts. Of `ScriptWatchdog`:

- `TypeCorrect`: `Spec => []TypeOK`. The one step that is not bookkeeping is
  `Advance`: the entries that remain are those whose silence stays within the
  deadline.
- `LinkAlwaysCoherent`: inductive together with `TypeOK`, by cases on the action.
- `RunsAccountedOnce`: inductive with `TypeOK`. All actions but a dispatch and a
  sample keep or shrink the watched runs without touching their ids
  (`AccountedKept`); a dispatch takes a new id; a sample moves ids from watched
  to reported.
- `RunsTracked`, the refinement of `RunTracking`. An entry's place decides its
  fate: `AccountedOnce` (an id is in one place), and `FateIsOnRecord` (a reported
  id keeps its reason) are needed to see that a step changes the fate of exactly
  the runs it names.

Of `WatchdogHistory`: `SilenceAlwaysExact`, `LinkAlwaysExact` and
`OnlyTheQuietDie`. The invariant is `HInv`: the three invariants above (a step of
the history is a step of the watchdog), the types of the histories, and
`SilenceExact` and `LinkExact` themselves. `AccountedOnce` is needed because two
runs with one id would share a history; `LinkCoherent` because a rewind must
forget both sides. Ages are capped at `Never`; `OlderFacts` shows the cap never
brings an age back within the deadline, and `OlderYoungest` that ageing a run and
its session commutes with taking the younger. `OnlyTheQuietDie` then compares the
guard of the code with the histories in the state before the sample.

### The watchdog, the CPUs and the session between them

`MissionLinkProofs` is about the composition, for any CPUs and scripts and any
number of sessions, dispatches, loads, deaths, switches and cut sessions.

- `TypeCorrect`: the parts keep their types because every step of the server is
  one of a few steps of the watchdog (`WatchStep`), and a step of the game is one of
  a CPU, of the operator, or a load.
- `RunningStaysTrue`: `RunningIsTrue` while no kRPC session was cut. The invariant
  says of every beat in the queue what `RunningIsTrue` says of the link:
  what it names runs in its session, or its end is reported *behind* it in the
  queue, or that session is over (`BornOut`, `QueueTruthful`, `LinkTruthful`). It
  holds of the saved queue too, since a load ends every session. `GameOK` adds that
  no two CPUs share a session, and that a CPU whose beats name a script executes
  it; `WatchOK` that the watchdog knows only sessions that were started. The limit
  is real: a session that is cut may have popped the `script_done` and lost it,
  and then the link names the script until the next beat: `MCReplay` with
  `MaxCut = 1` violates the invariant.
- `OwnRunsWatched`: a run stamped with the session that executes it leaves the
  watch only for a load or its own `script_done`. The argument is a budget: `Timely`
  bounds the silence of such a run, with the time that the next sample will count,
  by one beat period, by two while a beat of its CPU is still to come or to be read,
  and by a sample gap more for each session that was cut; `Clocked` says that while
  none was, samples keep up with the clock. The theorem assumes
  `Deadline >= 2 + MaxCut * MaxGap`. With the values of `script_watchdog.rs:24,29`,
  a deadline of 10 s and a gap of 1 s, it covers eight cut sessions; the runs check
  the property with the least deadline that it allows. With one unit less
  (`MCReboot` with `Deadline = 2`) TLC finds a run declared dead because the beat
  that spoke for it was lost with a session.

### The way of a command

`CommandPathProofs` begins with the bisection: `SplitAlwaysBracketed`,
`EntryAlwaysPlaced` and `BracketAlwaysNarrow` for every thinning curve, every
depth, target and terrain, and every number of iterations
(`launch_planning.rs:17-20` chooses 25). The invariant adds which way up the
bracket is: between terrain and top when the terrain is lower, and the other way
round when it is not. A midpoint lies between its ends (`MidBetween`), so the
bracket stays within them, and the thinning of the air carries the comparison at
the midpoint to every altitude on its side. `BracketNarrow` multiplies what is left
of the bracket by a power of two, written as a recursive function so that it can
be reasoned about (`PowerOf2Is`). `PathPlans` shows that no other step of a
command's way touches the plan, so all three hold of what is sent to kOS
(`SentSplitBracketed`, `SentBracketNarrow`, `SentEntryPlaced`).

The rest follows one command. `PathInv` says for each place what the command has
become: `Sendable` (the node of a circularization, the command as it came, or a
launch made of its own plan), `Enclosed` (in an envelope), and at the end `Refused`,
`Ignored` or `Executed`. `Executed` is where the two directions meet: what kOS runs
comes from the plan (`PlannedCfg`), and the first answer is the acknowledgement of
what it runs, read or still to be read (`Hears`). Its two pillars are lemmas about
the operators of `Envelope`:

- outward, `OpenedIs` and `LaunchOpened`: what kIPC hands to kOS is the payload
  that was enclosed, a launch's parameters one envelope deeper, unless something in
  it is not flat. `StringSent` says that a string kOS reads was a string when it
  was sent, so no other value can pass for a name.
- back, `RoundTrip`: `decode_dict` gives back every event kOS sends, in either
  shape of its envelope. It rests on `SetToSeqIs`, that the keys are listed once
  each, whatever the order.

From them `AlwaysLaunchAsAsked`, `AlwaysHeardAsSaid` and

- `KeysAlwaysDefined`: whatever the command, no key that `launch.ks` reads is missing.
  A value is null in two cases only, and both are in the formula: `vMin` for a
  `qAuth` below zero, and the terminal pitch over ground at or below the datum or for
  a `finalAltitude` or `tApTarget` below zero. Elsewhere the square root of `v_est_at`
  is taken of something positive, by `EntryPlaced`. The form refuses the negative
  values; ground below the datum of an airless body is the case that can be flown.
- `ButtonAlwaysAnswered`: what a button sends is executed and its first answer is the
  acknowledgement, or it is not executed and its first answer is a `command_error` or
  the `script_done` of a script that is not on the disk.

### Supervisor, tag, dashboard

- `SupervisorProofs`: `HangAlwaysNoticed` and `AlwaysReachedSoon` for all
  durations. The silence of a session is bounded by the wait for the next tick plus
  the age of the call under way; the time a game has been reachable by what has
  elapsed of the pause. Time passes only when no timer is due, which is what keeps
  both within their bounds. `PausesAlwaysDouble` needs what the recursive function
  `Pause` is (`PauseIs`), and that a pause at the longest stays there.
- `McClaimProofs`: `AlwaysSharedByRace` for any number of CPUs and vessels. The
  invariant says why a second claim is excused: a CPU that looks has read as
  untagged every CPU aboard that is not in `unread`, or has a pair with it in
  `excused`.
- `DashboardProofs`: `LinkAlwaysPublished` and `StatusAlwaysReaches` for any number
  of browsers and any depths. The status is the link while a session runs and `Off`
  while none does; and once the snapshot has been taken, the last status frame on
  the way, or the view when there is none, is the current status unless the watch
  has a change the socket task has not read. `TypeCorrect` is more than types: a
  queue and a backlog never exceed their depth, and the runs that died are no more
  than the clicks. For this `Counted` counts where each click is: on a wire, in the
  queue, with the dispatcher, on the CPU or among the dead.

### Ascent and maneuver

`FlightProofs`, for every vessel staged as the README asks, every mission, and
whatever drag and (but for the last theorem) fuel:

- `OnlyCircEverFlown` is inductive as it stands; with it the type invariant
  (`TypeCorrect`) knows that the burn finds a node to remove.
- `AlwaysQuietRelease` by `ThrottleInv`: once armed, the throttle is the script's
  until `maneuver.ks` releases it, and by then the hand-back has closed the pilot's.
- `ApoapsisAlwaysHeld` adds `OutOfDrag`: from the touch-up on the vessel is above
  the atmosphere, where nothing lowers the apoapsis.
- `AlwaysLiftoff` by `CountInv`: in the countdown the stage is a function of the
  second, and after it the vessel is below every stage with a clamp, since
  `stagingEvents` was computed to reach the lowest one.
- `UnspentAlwaysKept` by `BurnOrder`: of two attached engines that burn together the
  one shed first has not more fuel left. The trigger stages on a flameout, so what
  it sheds has burned out too; the countdown sheds none, as the clamps go before
  the engines.
- `PayloadAlwaysKept` assumes `FuelEnough`: the engines of the payload stage are lit
  with it, are not solid, and carry fuel for the climb, the drag, the burn and 14
  ticks more. The trigger is never removed, so without enough it stages the payload
  away in the burn. `FuelInv` is a budget (`Needed`) for each place of the mainline:
  a tick in the ascent is paid for by the apoapsis it adds, which the script waits
  for; one in the burn by the speed it takes off; the throttle is locked at zero in
  between (`Locked`); and a tick at a wait that is over already, or while the trigger
  waits for `stage:ready`, has been set aside (`Lost`). The 14 ticks are a generous
  count of these, not the least that would do. TLC checked `FuelInv` before it was
  proved; `MCFlight` checks `FuelEnough` of its vessels.

### Recursion

A recursive function of TLA+ is a CHOOSE, and the provers know nothing of it until
something of that shape is shown to exist. `Recursion` does so once
(`RecursionExists`): a function from its first value and its step, by a least number
up to which no values could be found. `PauseIs` and `PowerOf2Is` are its uses;
`LeastMember` also finds the lowest stage with a clamp.

### Only model-checked

- Liveness under fairness (`LinkConverges`, `DeadSessionSettles`,
  `PendingResolves`, `ViewConverges`, `Reconnects`, `HolderAppears`,
  `SoleHolderServes`, `AscentEnds`) is out of the prover's reach.
- `RunningIsTrue` after a cut session is not claimed (see above).

## What is not modelled

- Guidance: pitch, heading, the throttle controller, time warp, the AG1 trigger and
  the formulas of `planning.rs`, `launch_planning.rs`, `orbit.ks` and
  `maneuver_helpers.ks`. They compute with real numbers; only whether a result is a
  number is modelled, and whether thrust is there to divide by.
- Formatting, the forms of the dashboard, HTTP and static files.
- The browser's reconnect back-off: its retries are untimed.
- `send_message` returning false (`control.rs:118`): what it means is up to kOS.
- kOS compares strings without regard to case, the server with it: every name here
  is written in one way.
- Configuration, deployment, the tools and the examples: one process that reads or
  writes a file, or sends one request.

## Plan

1. Done: every component above, the abstract `RunTracking` and its refinement; every
   safety property of a passing run proved.
2. Which vessel a plan was made for, and which one it is sent to (`krpc.rs:243`).
