---------------------------- MODULE McClaimProofs ----------------------------
(***************************************************************************)
(* Theorems about McClaim, for any number of CPUs and vessels, and however *)
(* often they dock, undock, lose power and are sent commands.              *)
(***************************************************************************)
EXTENDS McClaim, TLAPS

LEMMA InitTypeOK == Init => TypeOK
  BY DEF Init, TypeOK, Modes

LEMMA LookTypeOK == ASSUME TypeOK, NEW c \in Cpus, Look(c), mail' \subseteq Cpus PROVE TypeOK'
<1>1. Others(c) \subseteq Cpus /\ c \notin Others(c)
  BY DEF Others, Aboard
<1>2. Pairs(c, Looking \ {c}) \subseteq SUBSET Cpus
  BY DEF Pairs, Looking
<1>. QED
  BY <1>1, <1>2 DEF Look, TypeOK, Modes

LEMMA NextTypeOK == TypeOK /\ [Next]_vars => TypeOK'
<1>. SUFFICES ASSUME TypeOK, [Next]_vars PROVE TypeOK'
  OBVIOUS
<1>1. ASSUME NEW c \in Cpus, Boot(c) \/ Poll(c) PROVE TypeOK'
  <2>1. Look(c) /\ mail' \subseteq Cpus
    BY <1>1 DEF Boot, Poll, TypeOK
  <2>. QED
    BY <2>1, LookTypeOK
<1>2. ASSUME NEW c \in Cpus, NEW d \in Cpus, Read(c, d) PROVE TypeOK'
  BY <1>2 DEF Read, TypeOK, Modes
<1>3. ASSUME NEW c \in Cpus, Claim(c) \/ Serve(c) \/ Die(c) PROVE TypeOK'
  BY <1>3 DEF Claim, Serve, Die, TypeOK, Modes
<1>4. ASSUME NEW v \in Vessels, Send(v) PROVE TypeOK'
  BY <1>4 DEF Send, Holders, Aboard, TypeOK
<1>5. ASSUME NEW v \in Vessels, NEW w \in Vessels, Dock(v, w) PROVE TypeOK'
  <2>1. {{c, d} : c \in Aboard(v), d \in Aboard(w)} \subseteq SUBSET Cpus
    BY DEF Aboard
  <2>. QED
    BY <1>5, <2>1 DEF Dock, TypeOK
<1>6. ASSUME NEW v \in Vessels, NEW w \in Vessels, NEW S, Undock(v, w, S) PROVE TypeOK'
  BY <1>6 DEF Undock, TypeOK
<1>7. CASE UNCHANGED vars
  BY <1>7 DEF vars, TypeOK
<1>. QED
  BY <1>1, <1>2, <1>3, <1>4, <1>5, <1>6, <1>7 DEF Next

(* No CPU reads its own tag, and an active one has it.                     *)
THEOREM TypeCorrect == Spec => []TypeOK
  BY InitTypeOK, NextTypeOK, PTL DEF Spec

-----------------------------------------------------------------------------
(* Why two holders of a vessel are excused: a holder that a looking CPU    *)
(* has passed by took the tag since, so it looked at the same time.        *)
LookedTogether ==
  \A c, d \in Cpus : c # d /\ mode[c] = "look" /\ mode[d] = "look" => {c, d} \in excused
PassedBy ==
  \A c, d \in Cpus :
    c # d /\ mode[c] = "look" /\ d \in tagged /\ vessel[c] = vessel[d] /\ d \notin unread[c]
      => {c, d} \in excused
Inv == TypeOK /\ LookedTogether /\ PassedBy /\ SharedOnlyByRace

LEMMA InitInv == Init => Inv
<1>. SUFFICES ASSUME Init PROVE Inv
  OBVIOUS
<1>1. TypeOK
  BY InitTypeOK
<1>. QED
  BY <1>1 DEF Init, Inv, LookedTogether, PassedBy, SharedOnlyByRace

LEMMA LookInv == ASSUME Inv, NEW c \in Cpus, Look(c), TypeOK' PROVE Inv'
<1>1. /\ vessel' = vessel /\ tagged' = tagged /\ excused \subseteq excused'
      /\ \A d \in Cpus : d # c => mode'[d] = mode[d] /\ unread'[d] = unread[d]
      /\ unread'[c] = Others(c) /\ mode'[c] = "look"
  BY DEF Look, Inv, TypeOK
<1>2. ASSUME NEW d \in Cpus, d # c, mode[d] = "look" PROVE {c, d} \in excused'
  BY <1>2 DEF Look, Pairs, Looking
<1>3. LookedTogether'
  <2>. SUFFICES ASSUME NEW a \in Cpus, NEW b \in Cpus, a # b,
                       mode'[a] = "look", mode'[b] = "look"
                PROVE  {a, b} \in excused'
    BY DEF LookedTogether
  <2>1. CASE a = c
    BY <1>1, <1>2, <2>1
  <2>2. CASE b = c
    <3>1. {b, a} \in excused' /\ {b, a} = {a, b}
      BY <1>1, <1>2, <2>2
    <3>. QED
      BY <3>1
  <2>3. CASE a # c /\ b # c
    BY <1>1, <2>3 DEF Inv, LookedTogether
  <2>. QED
    BY <2>1, <2>2, <2>3
<1>4. PassedBy'
  <2>. SUFFICES ASSUME NEW a \in Cpus, NEW b \in Cpus, a # b, mode'[a] = "look",
                       b \in tagged', vessel'[a] = vessel'[b], b \notin unread'[a]
                PROVE  {a, b} \in excused'
    BY DEF PassedBy
  <2>1. a # c
    BY <1>1 DEF Others, Aboard
  <2>. QED
    BY <1>1, <2>1 DEF Inv, PassedBy
<1>5. SharedOnlyByRace'
  BY <1>1 DEF Inv, SharedOnlyByRace
<1>. QED
  BY <1>3, <1>4, <1>5 DEF Inv

LEMMA NextInv == Inv /\ [Next]_vars => Inv'
<1>. SUFFICES ASSUME Inv, [Next]_vars PROVE Inv'
  OBVIOUS
<1>0. TypeOK /\ TypeOK'
  BY NextTypeOK DEF Inv
<1>1. ASSUME NEW c \in Cpus, Boot(c) \/ Poll(c) PROVE Inv'
  BY <1>0, <1>1, LookInv DEF Boot, Poll
<1>2. ASSUME NEW c \in Cpus, NEW d \in Cpus, Read(c, d) PROVE Inv'
  <2>1. /\ vessel' = vessel /\ tagged' = tagged /\ excused' = excused
        /\ \A a \in Cpus : mode'[a] = "look" => mode[a] = "look"
        /\ \A a, b \in Cpus : mode'[a] = "look" /\ b \in tagged /\ b \notin unread'[a]
                              => b \notin unread[a]
    BY <1>0, <1>2 DEF Read, TypeOK
  <2>. QED
    BY <1>0, <2>1 DEF Inv, LookedTogether, PassedBy, SharedOnlyByRace
<1>3. ASSUME NEW c \in Cpus, Claim(c) PROVE Inv'
  <2>1. /\ vessel' = vessel /\ excused' = excused /\ unread' = unread
        /\ tagged' = tagged \cup {c} /\ mode[c] = "look" /\ unread[c] = {}
        /\ mode'[c] = "active" /\ \A a \in Cpus : a # c => mode'[a] = mode[a]
    BY <1>0, <1>3 DEF Claim, TypeOK
  <2>2. LookedTogether'
    BY <2>1 DEF Inv, LookedTogether
  <2>3. PassedBy'
    BY <2>1 DEF Inv, LookedTogether, PassedBy
  <2>4. SharedOnlyByRace'
    <3>1. ASSUME NEW d \in tagged, c # d, vessel[c] = vessel[d] PROVE {c, d} \in excused
      BY <1>0, <2>1, <3>1 DEF Inv, PassedBy, TypeOK
    <3>2. ASSUME NEW d \in tagged, c # d, vessel[c] = vessel[d] PROVE {d, c} \in excused
      <4>1. {d, c} = {c, d}
        OBVIOUS
      <4>. QED
        BY <3>1, <3>2, <4>1
    <3>. QED
      BY <2>1, <3>1, <3>2 DEF Inv, SharedOnlyByRace
  <2>. QED
    BY <1>0, <2>2, <2>3, <2>4 DEF Inv
<1>4. ASSUME NEW c \in Cpus, Serve(c) \/ Die(c) PROVE Inv'
  <2>1. /\ vessel' = vessel /\ tagged' = tagged /\ excused' = excused
        /\ \A a \in Cpus : mode'[a] = "look" => mode[a] = "look" /\ unread'[a] = unread[a]
    BY <1>0, <1>4 DEF Serve, Die, TypeOK
  <2>. QED
    BY <1>0, <2>1 DEF Inv, LookedTogether, PassedBy, SharedOnlyByRace
<1>5. ASSUME NEW v \in Vessels, Send(v) PROVE Inv'
  BY <1>0, <1>5 DEF Send, Inv, LookedTogether, PassedBy, SharedOnlyByRace
<1>6. ASSUME NEW v \in Vessels, NEW w \in Vessels, Dock(v, w) PROVE Inv'
  <2>1. /\ tagged' = tagged /\ mode' = mode /\ unread' = unread /\ excused \subseteq excused'
    BY <1>6 DEF Dock
  <2>2. ASSUME NEW a \in Cpus, NEW b \in Cpus, vessel'[a] = vessel'[b]
        PROVE  vessel[a] = vessel[b] \/ {a, b} \in excused'
    <3>1. CASE vessel[a] = v /\ vessel[b] = w
      BY <1>6, <3>1 DEF Dock, Aboard
    <3>2. CASE vessel[a] = w /\ vessel[b] = v
      <4>1. {b, a} \in excused' /\ {b, a} = {a, b}
        BY <1>6, <3>2 DEF Dock, Aboard
      <4>. QED
        BY <4>1
    <3>3. vessel[a] = vessel[b] \/ (vessel[a] = v /\ vessel[b] = w)
                                \/ (vessel[a] = w /\ vessel[b] = v)
      BY <1>6, <2>2 DEF Dock
    <3>. QED
      BY <3>1, <3>2, <3>3
  <2>3. tagged \subseteq Cpus
    BY <1>0 DEF TypeOK
  <2>. QED
    BY <1>0, <2>1, <2>2, <2>3 DEF Inv, LookedTogether, PassedBy, SharedOnlyByRace
<1>7. ASSUME NEW v \in Vessels, NEW w \in Vessels, NEW S, Undock(v, w, S) PROVE Inv'
  <2>1. /\ tagged' = tagged /\ mode' = mode /\ unread' = unread /\ excused' = excused
    BY <1>7 DEF Undock
  <2>2. ASSUME NEW a \in Cpus, NEW b \in Cpus, vessel'[a] = vessel'[b]
        PROVE  vessel[a] = vessel[b]
    BY <1>7, <2>2 DEF Undock, Aboard
  <2>3. tagged \subseteq Cpus
    BY <1>0 DEF TypeOK
  <2>. QED
    BY <1>0, <2>1, <2>2, <2>3 DEF Inv, LookedTogether, PassedBy, SharedOnlyByRace
<1>8. CASE UNCHANGED vars
  BY <1>0, <1>8 DEF vars, Inv, LookedTogether, PassedBy, SharedOnlyByRace
<1>. QED
  BY <1>1, <1>2, <1>3, <1>4, <1>5, <1>6, <1>7, <1>8 DEF Next

(* Two parts of a vessel have the tag only when they docked, or when both  *)
(* looked for a holder at the same time.                                   *)
THEOREM AlwaysSharedByRace == Spec => []SharedOnlyByRace
<1>1. Inv => SharedOnlyByRace
  BY DEF Inv
<1>. QED
  BY <1>1, InitInv, NextInv, PTL DEF Spec
=============================================================================
