-------------------------- MODULE WatchdogHistory ---------------------------
(***************************************************************************)
(* What the counters of ScriptWatchdog mean.  Three histories remember     *)
(* what really happened: how long each session has been quiet, how long    *)
(* ago each run was sent, and how long ago the active vessel last spoke.   *)
(* They age by the time a UT sample counts, and nothing in the watchdog    *)
(* reads them.                                                             *)
(***************************************************************************)
EXTENDS ScriptWatchdog

VARIABLES
  quiet,     \* per session, time counted since its last heartbeat
  waited,    \* per run, time counted since its dispatch
  answered   \* time counted since the active vessel's last heartbeat

history == <<quiet, waited, answered>>
hvars == <<vars, history>>

(* The age of what never happened; ages stop there.                        *)
Never == Deadline + MaxGap

HistoryOK ==
  /\ quiet \in [Boots -> 0..Never]
  /\ waited \in [1..MaxDispatch -> 0..Never]
  /\ answered \in 0..Never

HInit ==
  /\ Init
  /\ quiet = [b \in Boots |-> Never]
  /\ waited = [i \in 1..MaxDispatch |-> Never]
  /\ answered = Never

(* What on_ut should count of the time since the last sample: all of it,   *)
(* up to the cap that keeps a pause from counting as flight.               *)
Played == IF sinceSample <= MaxGap THEN sinceSample ELSE MaxGap
Older(age) == AtMost(age + Played, Never)

HWallPasses == WallPasses /\ UNCHANGED history
HPingDue == PingDue /\ UNCHANGED history
HOnDone(path, boot) == OnDone(path, boot) /\ UNCHANGED history

HOnDispatch(path) ==
  /\ OnDispatch(path)
  /\ waited' = [waited EXCEPT ![dispatched + 1] = 0]
  /\ UNCHANGED <<quiet, answered>>

HOnHeartbeat(boot, path, active) ==
  /\ OnHeartbeat(boot, path, active)
  /\ quiet' = [quiet EXCEPT ![boot] = 0]
  /\ answered' = IF active THEN 0 ELSE answered
  /\ UNCHANGED waited

(* Time counts only when the game advanced; a load forgets the old answer. *)
HOnUt(ut) ==
  /\ OnUt(ut)
  /\ IF lastUt # None /\ ut > lastUt
     THEN /\ quiet' = [b \in Boots |-> Older(quiet[b])]
          /\ waited' = [i \in 1..MaxDispatch |-> Older(waited[i])]
          /\ answered' = Older(answered)
     ELSE /\ answered' = IF lastUt # None /\ ut < lastUt THEN Never ELSE answered
          /\ UNCHANGED <<quiet, waited>>

HNext ==
  \/ HWallPasses
  \/ HPingDue
  \/ \E path \in Paths : HOnDispatch(path)
  \/ \E path \in Paths, boot \in Boots \cup {None} : HOnDone(path, boot)
  \/ \E boot \in Boots, path \in Paths \cup {None}, active \in BOOLEAN :
       HOnHeartbeat(boot, path, active)
  \/ \E ut \in UT : HOnUt(ut)

HSpec == HInit /\ [][HNext]_hvars

-----------------------------------------------------------------------------
Youngest(m, n) == IF m < n THEN m ELSE n

(* How long nothing has vouched for a run: since it was sent, or since the *)
(* session it belongs to was last heard, whichever is later.               *)
Unvouched(e) ==
  IF e.boot = None THEN waited[e.id] ELSE Youngest(waited[e.id], quiet[e.boot])

(* The per-entry counters, reset by beats of one session, by a claim and   *)
(* by nothing else, measure exactly the silence of the session the run     *)
(* belongs to, across claims, vessel switches, pauses and loads.           *)
SilenceExact == \A e \in entries : e.silence = Unvouched(e)

(* The link counter measures exactly how long the active vessel has not    *)
(* answered, so the link is up precisely while an answer is recent and no  *)
(* save was loaded since.                                                  *)
LinkExact ==
  /\ link.up <=> answered <= Deadline
  /\ link.up => linkSilence = answered

(* on_ut declares silent exactly the runs whose own session was quiet past *)
(* the deadline: another CPU's beats neither save nor kill a run, and a    *)
(* sample that is late, repeated or follows a pause kills nobody early.    *)
Overdue(e) == Older(Unvouched(e)) > Deadline
OnlyQuietDie ==
  [][\A e \in entries :
       Failed(e, "silent") \in reported' <=>
         /\ lastUt # None /\ lastUt' # None /\ lastUt' > lastUt
         /\ Overdue(e)]_hvars
=============================================================================
