------------------------------- MODULE McClaim -------------------------------
(***************************************************************************)
(* Which CPU of a vessel answers to "mc": the end of the boot script       *)
(* src/kos/scripts/boot/dispatch_listener.ks, run by every CPU of every    *)
(* vessel, and send_command of src/src/control.rs, which looks for the     *)
(* tag.  Reading the tags of a vessel takes kOS more than one tick, so     *)
(* CPUs that look at the same time interleave part by part.  The tag       *)
(* belongs to the part: it outlives power and reboots, and vessels dock    *)
(* and undock with it.                                                     *)
(***************************************************************************)
EXTENDS Naturals, FiniteSets

CONSTANTS
  Cpus,    \* parts with a kOS processor
  Vessels,
  MaxDie, MaxDock, MaxUndock, MaxSend  \* bounds: how often each thing happens

VARIABLES
  vessel,   \* per CPU, the vessel it is on
  tagged,   \* the CPUs whose part carries the tag
  mode,     \* per CPU: off, looking for a holder, passive or active
  unread,   \* per CPU, the parts otherMcHolderExists has not come to
  mail,     \* the CPUs with a command to pop
  excused,  \* history: pairs that looked at the same time, or met by docking
  spent     \* how often each bounded thing happened

vars == <<vessel, tagged, mode, unread, mail, excused, spent>>

Budget == [die |-> MaxDie, dock |-> MaxDock, undock |-> MaxUndock, send |-> MaxSend]
Spend(kind) == spent[kind] < Budget[kind] /\ spent' = [spent EXCEPT ![kind] = @ + 1]

Aboard(v) == {c \in Cpus : vessel[c] = v}
Others(c) == Aboard(vessel[c]) \ {c}
Pairs(c, S) == {{c, d} : d \in S}

(* A scene has been loaded: no CPU has booted, and of the CPUs of a vessel *)
(* at most one has the tag from an earlier flight.                         *)
Init ==
  /\ vessel \in [Cpus -> Vessels]
  /\ tagged \in SUBSET Cpus
  /\ \A c, d \in tagged : vessel[c] = vessel[d] => c = d
  /\ mode = [c \in Cpus |-> "off"]
  /\ unread = [c \in Cpus |-> {}]
  /\ mail = {} /\ excused = {}
  /\ spent = [kind \in DOMAIN Budget |-> 0]

-----------------------------------------------------------------------------
Looking == {c \in Cpus : mode[c] = "look"}

(* A CPU that looks takes itself for another one.                          *)
LookAtSelf(c) ==
  /\ mode' = [mode EXCEPT ![c] = "look"]
  /\ unread' = [unread EXCEPT ![c] = Aboard(vessel[c])]
  /\ excused' = excused \cup Pairs(c, Looking \ {c})
  /\ UNCHANGED <<vessel, tagged>>

(* otherMcHolderExists, which leaves the CPU itself out of its walk.       *)
Look(c) ==
  /\ mode' = [mode EXCEPT ![c] = "look"]
  /\ unread' = [unread EXCEPT ![c] = Others(c)]
  /\ excused' = excused \cup Pairs(c, Looking \ {c})
  /\ UNCHANGED <<vessel, tagged>>

(* Power comes, or the scene is loaded.  Whether the queue outlives a      *)
(* reboot is kOS's affair.                                                 *)
Boot(c) ==
  /\ mode[c] = "off"
  /\ Look(c)
  /\ mail' \in {mail, mail \ {c}}
  /\ UNCHANGED spent

(* The loop returns at the first part it reads.                            *)
ReadFirst(c, d) ==
  /\ mode[c] = "look" /\ d \in unread[c]
  /\ unread' = [unread EXCEPT ![c] = {}]
  /\ mode' = [mode EXCEPT ![c] = IF d \in tagged THEN "passive" ELSE "look"]
  /\ UNCHANGED <<vessel, tagged, mail, excused, spent>>

Read(c, d) ==
  /\ mode[c] = "look" /\ d \in unread[c]
  /\ IF d \in tagged
     THEN /\ mode' = [mode EXCEPT ![c] = "passive"]
          /\ unread' = [unread EXCEPT ![c] = {}]
     ELSE /\ unread' = [unread EXCEPT ![c] = @ \ {d}]
          /\ UNCHANGED mode
  /\ UNCHANGED <<vessel, tagged, mail, excused, spent>>

(* No holder was found: claimMc and runActive.                             *)
Claim(c) ==
  /\ mode[c] = "look" /\ unread[c] = {}
  /\ tagged' = tagged \cup {c}
  /\ mode' = [mode EXCEPT ![c] = "active"]
  /\ UNCHANGED <<vessel, unread, mail, excused, spent>>

(* A passive CPU looks again when a message arrives.                       *)
PollOnMail(c) == mode[c] = "passive" /\ c \in mail /\ Look(c) /\ UNCHANGED <<mail, spent>>

(* runPassive.                                                             *)
Poll(c) == mode[c] = "passive" /\ Look(c) /\ UNCHANGED <<mail, spent>>

(* runActive pops a message; a script it runs is left out.                 *)
Serve(c) ==
  /\ mode[c] = "active" /\ c \in mail
  /\ mail' = mail \ {c}
  /\ UNCHANGED <<vessel, tagged, mode, unread, excused, spent>>

(* Power is lost, or a script aborts and the boot script with it.          *)
Die(c) ==
  /\ mode[c] # "off" /\ Spend("die")
  /\ mode' = [mode EXCEPT ![c] = "off"]
  /\ unread' = [unread EXCEPT ![c] = {}]
  /\ UNCHANGED <<vessel, tagged, mail, excused>>

(* send_command: the first part with the tag, in no order of its own.      *)
Holders(v) == Aboard(v) \cap tagged
Send(v) ==
  /\ Spend("send")
  /\ \E c \in Holders(v) : mail' = mail \cup {c}
  /\ UNCHANGED <<vessel, tagged, mode, unread, excused>>

-----------------------------------------------------------------------------
Dock(v, w) ==
  /\ v # w /\ Aboard(v) # {} /\ Aboard(w) # {} /\ Spend("dock")
  /\ vessel' = [c \in Cpus |-> IF vessel[c] = v THEN w ELSE vessel[c]]
  /\ excused' = excused \cup {{c, d} : c \in Aboard(v), d \in Aboard(w)}
  /\ UNCHANGED <<tagged, mode, unread, mail>>

(* Undocking, or staging: the parts in S leave.                            *)
Undock(v, w, S) ==
  /\ Aboard(w) = {} /\ S # {} /\ S \subseteq Aboard(v) /\ S # Aboard(v) /\ Spend("undock")
  /\ vessel' = [c \in Cpus |-> IF c \in S THEN w ELSE vessel[c]]
  /\ UNCHANGED <<tagged, mode, unread, mail, excused>>

Next ==
  \/ \E c \in Cpus : Boot(c) \/ Claim(c) \/ Poll(c) \/ Serve(c) \/ Die(c)
  \/ \E c, d \in Cpus : Read(c, d)
  \/ \E v \in Vessels : Send(v)
  \/ \E v, w \in Vessels : Dock(v, w) \/ \E S \in SUBSET Cpus : Undock(v, w, S)

Spec == Init /\ [][Next]_vars

(* A CPU with power runs its script; nobody must power one.                *)
FairSpec ==
  /\ Spec
  /\ \A c \in Cpus :
       /\ WF_vars(Poll(c)) /\ WF_vars(Claim(c)) /\ WF_vars(Serve(c))
       /\ WF_vars(\E d \in Cpus : Read(c, d))

-----------------------------------------------------------------------------
Modes == {"off", "look", "passive", "active"}

TypeOK ==
  /\ vessel \in [Cpus -> Vessels]
  /\ tagged \subseteq Cpus /\ mail \subseteq Cpus
  /\ mode \in [Cpus -> Modes]
  /\ unread \in [Cpus -> SUBSET Cpus]
  /\ excused \subseteq SUBSET Cpus
  /\ \A c \in Cpus : c \notin unread[c] /\ (unread[c] # {} => mode[c] = "look")
  /\ \A c \in Cpus : mode[c] = "active" => c \in tagged

(* control.rs:101-106 expects one tagged part on a vessel.  Two are there  *)
(* only when they met by docking, or looked for a holder at the same time. *)
SharedOnlyByRace ==
  \A c, d \in tagged : c # d /\ vessel[c] = vessel[d] => {c, d} \in excused

On(c) == mode[c] # "off"
Sole(c) == Holders(vessel[c]) = {c}

(* A vessel with a running CPU comes to have a holder, which send_command  *)
(* needs: a CPU that yielded to a holder takes over when that one is gone. *)
HolderAppears ==
  \A c \in Cpus : On(c) ~> (Holders(vessel[c]) # {} \/ ~On(c))

(* A command sent to the only holder of a vessel is executed, also when it *)
(* rebooted, or yielded to another holder that has undocked since.         *)
SoleHolderServes ==
  \A c \in Cpus : (c \in mail /\ On(c) /\ Sole(c)) ~> (c \notin mail \/ ~On(c) \/ ~Sole(c))
===============================================================================
