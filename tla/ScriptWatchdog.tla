--------------------------- MODULE ScriptWatchdog ---------------------------
(***************************************************************************)
(* The liveness tracker of src/src/script_watchdog.rs: the scripts sent to *)
(* kOS that have not finished, and whether the active vessel's dispatcher  *)
(* answers.  Four inputs drive it: a dispatch, a `script_done`, a          *)
(* heartbeat and a UT sample; ping_due asks it whether to ping.            *)
(*                                                                         *)
(* Time is discrete.  `sinceSample` stands for now - prev_at, the wall     *)
(* time since the last UT sample.  The Vec of entries is a set of records  *)
(* whose `id`, the rank of the dispatch, gives the order of the Vec.       *)
(***************************************************************************)
EXTENDS Integers

CONSTANTS
  Paths,        \* script names
  Boots,        \* CPU session identifiers
  UT,           \* game times a sample may carry
  None,         \* Rust's None
  Deadline,     \* HEARTBEAT_DEADLINE
  MaxGap,       \* MAX_UT_SAMPLE_GAP
  MaxDispatch   \* bound: scripts ever dispatched

ASSUME ConstAssumption ==
  /\ None \notin Paths \cup Boots \cup UT
  /\ UT \subseteq Int
  /\ Deadline \in Nat
  /\ MaxGap \in Nat \ {0}
  /\ MaxDispatch \in Nat

VARIABLES
  entries,       \* runs watched: [id, path, boot, silence]
  link,          \* KosLink: [up, running]
  linkBoot,      \* session that answers for the active vessel
  linkSilence,   \* time counted since it answered
  lastUt,        \* game time of the last sample
  sinceSample,   \* wall time since that sample
  utAtLastPing,  \* game time of the last ping
  dispatched,    \* number of dispatches so far
  reported       \* Failures returned so far: [id, path, reason]

watching == <<entries, dispatched, reported>>
linking  == <<link, linkBoot, linkSilence>>
vars == <<watching, linking, lastUt, sinceSample, utAtLastPing>>

Reasons == {"silent", "rewind"}   \* REASON_SILENT, REASON_UT_REWIND

Entry  == [id : 1..MaxDispatch, path : Paths,
           boot : Boots \cup {None}, silence : 0..Deadline]
KosLink == [up : BOOLEAN, running : Paths \cup {None}]
Failure == [id : 1..MaxDispatch, path : Paths, reason : Reasons]

AtMost(n, cap) == IF n > cap THEN cap ELSE n

NoLink == [up |-> FALSE, running |-> None]

TypeOK ==
  /\ entries \subseteq Entry
  /\ link \in KosLink
  /\ linkBoot \in Boots \cup {None}
  /\ linkSilence \in 0..Deadline
  /\ lastUt \in UT \cup {None}
  /\ sinceSample \in 0..MaxGap + 1
  /\ utAtLastPing \in UT \cup {None}
  /\ dispatched \in 0..MaxDispatch
  /\ reported \subseteq Failure

Init ==
  /\ entries = {}
  /\ link = NoLink
  /\ linkBoot = None
  /\ linkSilence = 0
  /\ lastUt = None
  /\ sinceSample = 0
  /\ utAtLastPing = None
  /\ dispatched = 0
  /\ reported = {}

-----------------------------------------------------------------------------
(* Wall time passes.  Only min(elapsed, MaxGap) is ever read.              *)
WallPasses ==
  /\ sinceSample' = AtMost(sinceSample + 1, MaxGap + 1)
  /\ UNCHANGED <<watching, linking, lastUt, utAtLastPing>>

(* The session a run dispatched now belongs to.                            *)
Stamp == IF link.up THEN linkBoot ELSE None

OnDispatch(path) ==
  /\ dispatched < MaxDispatch
  /\ dispatched' = dispatched + 1
  /\ entries' = entries \cup
       {[id |-> dispatched + 1, path |-> path, boot |-> Stamp, silence |-> 0]}
  /\ UNCHANGED <<linking, lastUt, sinceSample, utAtLastPing, reported>>

RunsOf(path, boot) == {e \in entries : e.path = path /\ e.boot = boot}
Oldest(S) == {e \in S : \A f \in S : e.id <= f.id}

(* Any run of the script, whatever session it belongs to.                  *)
MatchingByScript(path, boot) == {e \in entries : e.path = path}

(* What a script_done can stand for: a run of its own session, else one no *)
(* session has claimed; without a session, any run of the script.          *)
Matching(path, boot) ==
  IF boot = None THEN {e \in entries : e.path = path}
  ELSE IF RunsOf(path, boot) # {} THEN RunsOf(path, boot)
  ELSE RunsOf(path, None)

(* The link goes on naming the script that ended.                          *)
OnDoneKeepsLink(path, boot) ==
  /\ entries' = entries \ Oldest(Matching(path, boot))
  /\ UNCHANGED <<linking, lastUt, sinceSample, utAtLastPing, dispatched, reported>>

(* Every run that matches is taken for the one that ended.                 *)
OnDoneOfAll(path, boot) ==
  /\ entries' = entries \ Matching(path, boot)
  /\ link' = IF boot \in {None, linkBoot} /\ link.running = path
             THEN [link EXCEPT !.running = None] ELSE link
  /\ UNCHANGED <<linkBoot, linkSilence, lastUt, sinceSample, utAtLastPing,
                 dispatched, reported>>

OnDone(path, boot) ==
  /\ entries' = entries \ Oldest(Matching(path, boot))
  /\ link' = IF boot \in {None, linkBoot} /\ link.running = path
             THEN [link EXCEPT !.running = None] ELSE link
  /\ UNCHANGED <<linkBoot, linkSilence, lastUt, sinceSample, utAtLastPing,
                 dispatched, reported>>

(* Only the active vessel's beats are listened to.                         *)
HeardIfActive(e, boot, active) == active /\ e.boot \in {boot, None}

(* A beat refreshes its session's runs; one from the active vessel also    *)
(* claims the unclaimed ones.                                              *)
Heard(e, boot, active) == e.boot = boot \/ (e.boot = None /\ active)

(* Any beat speaks for the link.                                           *)
OnHeartbeatOfAny(boot, path, active) ==
  /\ entries' = {IF Heard(e, boot, active)
                 THEN [e EXCEPT !.boot = boot, !.silence = 0] ELSE e : e \in entries}
  /\ link' = [up |-> TRUE, running |-> path]
  /\ linkBoot' = boot
  /\ linkSilence' = 0
  /\ UNCHANGED <<lastUt, sinceSample, utAtLastPing, dispatched, reported>>

OnHeartbeat(boot, path, active) ==
  /\ entries' = {IF Heard(e, boot, active)
                 THEN [e EXCEPT !.boot = boot, !.silence = 0] ELSE e : e \in entries}
  /\ IF active
     THEN /\ link' = [up |-> TRUE, running |-> path]
          /\ linkBoot' = boot
          /\ linkSilence' = 0
     ELSE UNCHANGED linking
  /\ UNCHANGED <<lastUt, sinceSample, utAtLastPing, dispatched, reported>>

-----------------------------------------------------------------------------
(* A field of the three is forgotten.                                      *)
LinkDownKeepsRunning ==
  /\ link' = [link EXCEPT !.up = FALSE]
  /\ linkBoot' = None
  /\ linkSilence' = 0
LinkDownKeepsBoot == link' = NoLink /\ linkSilence' = 0 /\ UNCHANGED linkBoot

LinkDown ==
  /\ link' = NoLink
  /\ linkBoot' = None
  /\ linkSilence' = 0

Failed(e, reason) == [id |-> e.id, path |-> e.path, reason |-> reason]

(* The runs are reported but stay watched.                                 *)
RewindKeepsRuns ==
  /\ LinkDown
  /\ reported' = reported \cup {Failed(e, "rewind") : e \in entries}
  /\ UNCHANGED <<entries, dispatched>>

(* A save was loaded: every running script died with it.                   *)
Rewind ==
  /\ LinkDown
  /\ entries' = {}
  /\ reported' = reported \cup {Failed(e, "rewind") : e \in entries}
  /\ UNCHANGED dispatched

(* The first sample, or one of a paused game, only moves prev_at.          *)
Unmoved == UNCHANGED <<watching, linking>>

CountedUncapped == sinceSample
Counted == AtMost(sinceSample, MaxGap)

SilentAtDeadline(e) == e.silence + Counted >= Deadline
Silent(e) == e.silence + Counted > Deadline

(* Only the link is timed, not the runs.                                   *)
AdvanceLinkOnly ==
  /\ \/ ~link.up /\ UNCHANGED linking
     \/ link.up /\ linkSilence + Counted > Deadline /\ LinkDown
     \/ /\ link.up /\ linkSilence + Counted <= Deadline
        /\ linkSilence' = linkSilence + Counted
        /\ UNCHANGED <<link, linkBoot>>
  /\ UNCHANGED watching

(* The code adds to link_silence while the link is down too, but only a    *)
(* heartbeat, which resets it, makes it read again; here it stays still.   *)
Advance ==
  /\ \/ ~link.up /\ UNCHANGED linking
     \/ link.up /\ linkSilence + Counted > Deadline /\ LinkDown
     \/ /\ link.up /\ linkSilence + Counted <= Deadline
        /\ linkSilence' = linkSilence + Counted
        /\ UNCHANGED <<link, linkBoot>>
  /\ entries' = {[e EXCEPT !.silence = @ + Counted] : e \in {f \in entries : ~Silent(f)}}
  /\ reported' = reported \cup {Failed(e, "silent") : e \in {f \in entries : Silent(f)}}
  /\ UNCHANGED dispatched

TakeSample(ut) ==
  /\ lastUt' = ut
  /\ sinceSample' = 0
  /\ UNCHANGED utAtLastPing

OnUt(ut) ==
  /\ TakeSample(ut)
  /\ \/ (lastUt = None \/ ut = lastUt) /\ Unmoved
     \/ lastUt # None /\ ut < lastUt /\ Rewind
     \/ lastUt # None /\ ut > lastUt /\ Advance

(* ping_due returned true.                                                 *)
PingDue ==
  /\ link.running = None
  /\ lastUt # None
  /\ utAtLastPing # lastUt
  /\ utAtLastPing' = lastUt
  /\ UNCHANGED <<watching, linking, lastUt, sinceSample>>

-----------------------------------------------------------------------------
Next ==
  \/ WallPasses
  \/ PingDue
  \/ \E path \in Paths : OnDispatch(path)
  \/ \E path \in Paths, boot \in Boots \cup {None} : OnDone(path, boot)
  \/ \E boot \in Boots, path \in Paths \cup {None}, active \in BOOLEAN :
       OnHeartbeat(boot, path, active)
  \/ \E ut \in UT : OnUt(ut)

Spec == Init /\ [][Next]_vars

-----------------------------------------------------------------------------
Ids == {e.id : e \in entries}

(* Every dispatched run has one place: watched once, or reported once, or  *)
(* neither because its script_done came.  on_ut drains what it reports,    *)
(* so the dashboard never hears twice of one death.                        *)
AccountedOnce ==
  /\ \A e, f \in entries : e.id = f.id => e = f
  /\ \A r, s \in reported : r.id = s.id => r = s
  /\ Ids \cap {r.id : r \in reported} = {}
  /\ Ids \cup {r.id : r \in reported} \subseteq 1..dispatched

(* The three fields link_down resets together never disagree: a link that  *)
(* is up has the session a dispatch will be stamped with, and a link that  *)
(* is down neither names a session nor claims that a script runs, which    *)
(* would hold every ping back.                                             *)
LinkCoherent ==
  /\ link.up <=> linkBoot # None
  /\ link.running # None => link.up
  /\ link.up => linkSilence <= Deadline

(* What has become of a run so far.                                        *)
FateOf(id) ==
  IF id \in Ids THEN "watched"
  ELSE IF \E r \in reported : r.id = id
  THEN (CHOOSE r \in reported : r.id = id).reason
  ELSE IF id <= dispatched THEN "done" ELSE "unsent"

Tracking == INSTANCE RunTracking WITH
  Runs <- 1..MaxDispatch, fate <- [id \in 1..MaxDispatch |-> FateOf(id)], up <- link.up

(* Whatever calls come in whatever order, the watchdog does what           *)
(* RunTracking says: a run has one fate and keeps it, a script_done        *)
(* settles one run and no more, and runs that a load killed are all        *)
(* reported in one go, with the link taken down.                           *)
ImplementsTracking == Tracking!Spec
=============================================================================
