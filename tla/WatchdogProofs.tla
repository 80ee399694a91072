--------------------------- MODULE WatchdogProofs ---------------------------
(***************************************************************************)
(* Theorems about ScriptWatchdog, for every set of scripts, sessions and   *)
(* UT values, every deadline and every bound on dispatches; and about what *)
(* its counters mean in WatchdogHistory: the silence of a run is the       *)
(* silence of the session it belongs to, and nothing else makes on_ut      *)
(* declare a run dead.                                                     *)
(***************************************************************************)
EXTENDS WatchdogHistory, TLAPS

USE ConstAssumption

(* AtMost caps a natural number.                                           *)
LEMMA AtMostBound ==
  ASSUME NEW n \in Nat, NEW cap \in Nat
  PROVE  /\ AtMost(n, cap) \in 0..cap
         /\ AtMost(n, cap) <= n
         /\ n <= cap => AtMost(n, cap) = n
         /\ n > cap => AtMost(n, cap) = cap
  BY DEF AtMost

(* What one sample adds is a natural number.                               *)
LEMMA CountedBound == TypeOK => Counted \in 0..MaxGap
<1>. SUFFICES ASSUME TypeOK PROVE Counted \in 0..MaxGap
  OBVIOUS
<1>. sinceSample \in Nat
  BY DEF TypeOK
<1>. QED
  BY DEF Counted, AtMost

-----------------------------------------------------------------------------
LEMMA InitTypeOK == Init => TypeOK
  BY DEF Init, TypeOK, NoLink, KosLink

(* The runs that survive a sample are still within the deadline.           *)
LEMMA AdvanceTypeOK ==
  ASSUME TypeOK, Advance
  PROVE  /\ entries' \subseteq Entry
         /\ reported' \subseteq Failure
         /\ link' \in KosLink
         /\ linkBoot' \in Boots \cup {None}
         /\ linkSilence' \in 0..Deadline
<1>1. Counted \in 0..MaxGap
  BY CountedBound
<1>2. entries' \subseteq Entry
  <2>1. SUFFICES ASSUME NEW f \in entries, ~Silent(f)
                 PROVE  [f EXCEPT !.silence = @ + Counted] \in Entry
    BY DEF Advance
  <2>2. f \in Entry
    BY DEF TypeOK
  <2>3. f.silence + Counted \in 0..Deadline
    BY <1>1, <2>1, <2>2 DEF Entry, Silent
  <2>. QED
    BY <2>2, <2>3 DEF Entry
<1>3. reported' \subseteq Failure
  BY DEF Advance, TypeOK, Failed, Failure, Entry, Reasons
<1>4. link' \in KosLink /\ linkBoot' \in Boots \cup {None}
  <2>1. CASE LinkDown
    BY <2>1 DEF LinkDown, NoLink, KosLink
  <2>2. CASE UNCHANGED <<link, linkBoot>>
    BY <2>2 DEF TypeOK
  <2>3. Advance => LinkDown \/ UNCHANGED <<link, linkBoot>>
    BY DEF Advance, linking
  <2>. QED
    BY <2>1, <2>2, <2>3
<1>5. linkSilence' \in 0..Deadline
  BY <1>1 DEF Advance, TypeOK, LinkDown, linking
<1>. QED
  BY <1>2, <1>3, <1>4, <1>5

LEMMA NextTypeOK == TypeOK /\ [Next]_vars => TypeOK'
<1>. SUFFICES ASSUME TypeOK, [Next]_vars PROVE TypeOK'
  OBVIOUS
<1>1. CASE WallPasses
  BY <1>1 DEF WallPasses, TypeOK, watching, linking, AtMost
<1>2. CASE PingDue
  BY <1>2 DEF PingDue, TypeOK, watching, linking
<1>3. ASSUME NEW path \in Paths, OnDispatch(path) PROVE TypeOK'
  <2>1. dispatched + 1 \in 1..MaxDispatch
    BY <1>3 DEF OnDispatch, TypeOK
  <2>2. Stamp \in Boots \cup {None}
    BY DEF Stamp, TypeOK
  <2>3. entries' \subseteq Entry
    BY <1>3, <2>1, <2>2 DEF OnDispatch, TypeOK, Entry
  <2>. QED
    BY <1>3, <2>1, <2>3 DEF OnDispatch, TypeOK, linking
<1>4. ASSUME NEW path \in Paths, NEW boot \in Boots \cup {None}, OnDone(path, boot)
      PROVE  TypeOK'
  <2>1. link' \in KosLink
    BY <1>4 DEF OnDone, TypeOK, KosLink
  <2>2. entries' \subseteq Entry
    BY <1>4 DEF OnDone, TypeOK
  <2>. QED
    BY <1>4, <2>1, <2>2 DEF OnDone, TypeOK
<1>5. ASSUME NEW boot \in Boots, NEW path \in Paths \cup {None},
             NEW active \in BOOLEAN, OnHeartbeat(boot, path, active)
      PROVE  TypeOK'
  <2>1. entries' \subseteq Entry
    <3>1. ASSUME NEW e \in Entry
          PROVE  [e EXCEPT !.boot = boot, !.silence = 0] \in Entry
      <4>1. [e EXCEPT !.boot = boot] \in Entry
        BY DEF Entry
      <4>2. ASSUME NEW f \in Entry PROVE [f EXCEPT !.silence = 0] \in Entry
        BY DEF Entry
      <4>. QED
        BY <4>1, <4>2
    <3>2. SUFFICES ASSUME NEW e \in entries
                   PROVE  (IF Heard(e, boot, active)
                           THEN [e EXCEPT !.boot = boot, !.silence = 0] ELSE e) \in Entry
      BY <1>5 DEF OnHeartbeat
    <3>. QED
      BY <3>1 DEF TypeOK
  <2>2. link' \in KosLink /\ linkBoot' \in Boots \cup {None} /\ linkSilence' \in 0..Deadline
    <3>1. CASE active
      <4>1. link' = [up |-> TRUE, running |-> path] /\ linkBoot' = boot /\ linkSilence' = 0
        BY <1>5, <3>1 DEF OnHeartbeat
      <4>. QED
        BY <4>1 DEF KosLink
    <3>2. CASE ~active
      BY <1>5, <3>2 DEF OnHeartbeat, TypeOK, linking
    <3>. QED
      BY <3>1, <3>2
  <2>. QED
    BY <1>5, <2>1, <2>2 DEF OnHeartbeat, TypeOK
<1>6. ASSUME NEW ut \in UT, OnUt(ut) PROVE TypeOK'
  <2>1. lastUt' \in UT \cup {None} /\ sinceSample' \in 0..MaxGap + 1
        /\ utAtLastPing' \in UT \cup {None}
    BY <1>6 DEF OnUt, TakeSample, TypeOK
  <2>2. CASE Unmoved
    BY <2>1, <2>2 DEF Unmoved, TypeOK, watching, linking
  <2>3. CASE Rewind
    BY <2>1, <2>3 DEF Rewind, LinkDown, NoLink, TypeOK, KosLink, Failed,
                      Failure, Entry, Reasons
  <2>4. CASE Advance
    <3>1. dispatched' \in 0..MaxDispatch
      BY <2>4 DEF Advance, TypeOK
    <3>. QED
      BY <2>1, <2>4, <3>1, AdvanceTypeOK DEF TypeOK
  <2>. QED
    BY <1>6, <2>2, <2>3, <2>4 DEF OnUt
<1>7. CASE UNCHANGED vars
  BY <1>7 DEF TypeOK, vars, watching, linking
<1>. QED
  BY <1>1, <1>2, <1>3, <1>4, <1>5, <1>6, <1>7 DEF Next

(* Every reachable state is well typed; in particular no watched run has   *)
(* been silent past the deadline once on_ut has returned.                  *)
THEOREM TypeCorrect == Spec => []TypeOK
  BY InitTypeOK, NextTypeOK, PTL DEF Spec

-----------------------------------------------------------------------------
LEMMA InitLinkCoherent == Init => LinkCoherent
  BY DEF Init, LinkCoherent, NoLink

LEMMA LinkDownCoherent == LinkDown => LinkCoherent'
  BY DEF LinkDown, LinkCoherent, NoLink

LEMMA NextLinkCoherent == TypeOK /\ LinkCoherent /\ [Next]_vars => LinkCoherent'
<1>. SUFFICES ASSUME TypeOK, LinkCoherent, [Next]_vars PROVE LinkCoherent'
  OBVIOUS
<1>1. CASE UNCHANGED linking
  BY <1>1 DEF linking, LinkCoherent
<1>2. ASSUME NEW path \in Paths, NEW boot \in Boots \cup {None}, OnDone(path, boot)
      PROVE  LinkCoherent'
  <2>1. link'.up = link.up /\ link'.running \in {link.running, None}
    BY <1>2 DEF OnDone, TypeOK, KosLink
  <2>. QED
    BY <1>2, <2>1 DEF OnDone, LinkCoherent
<1>3. ASSUME NEW boot \in Boots, NEW path \in Paths \cup {None},
             NEW active \in BOOLEAN, OnHeartbeat(boot, path, active)
      PROVE  LinkCoherent'
  <2>1. CASE active
    <3>1. link' = [up |-> TRUE, running |-> path] /\ linkBoot' = boot /\ linkSilence' = 0
      BY <1>3, <2>1 DEF OnHeartbeat
    <3>. QED
      BY <3>1 DEF LinkCoherent
  <2>2. CASE ~active
    BY <1>1, <1>3, <2>2 DEF OnHeartbeat
  <2>. QED
    BY <2>1, <2>2
<1>4. ASSUME NEW ut \in UT, OnUt(ut) PROVE LinkCoherent'
  <2>1. CASE Unmoved
    BY <1>1, <2>1 DEF Unmoved
  <2>2. CASE Rewind
    BY <2>2, LinkDownCoherent DEF Rewind
  <2>3. CASE Advance
    <3>1. CASE LinkDown
      BY <3>1, LinkDownCoherent
    <3>2. CASE ~link.up /\ UNCHANGED linking
      BY <1>1, <3>2
    <3>3. CASE /\ linkSilence + Counted <= Deadline
               /\ linkSilence' = linkSilence + Counted
               /\ UNCHANGED <<link, linkBoot>>
      BY <3>3 DEF LinkCoherent
    <3>. QED
      BY <2>3, <3>1, <3>2, <3>3 DEF Advance
  <2>. QED
    BY <1>4, <2>1, <2>2, <2>3 DEF OnUt
<1>5. CASE WallPasses \/ PingDue \/ \E path \in Paths : OnDispatch(path)
  BY <1>1, <1>5 DEF WallPasses, PingDue, OnDispatch
<1>6. CASE UNCHANGED vars
  BY <1>1, <1>6 DEF vars
<1>. QED
  BY <1>2, <1>3, <1>4, <1>5, <1>6 DEF Next

(* The link is up exactly when a session is known to answer, and a link    *)
(* that is down holds back no ping.                                        *)
THEOREM LinkAlwaysCoherent == Spec => []LinkCoherent
<1>1. Init => TypeOK /\ LinkCoherent
  BY InitTypeOK, InitLinkCoherent
<1>2. TypeOK /\ LinkCoherent /\ [Next]_vars => TypeOK' /\ LinkCoherent'
  BY NextTypeOK, NextLinkCoherent
<1>. QED
  BY <1>1, <1>2, PTL DEF Spec

-----------------------------------------------------------------------------
LEMMA InitAccountedOnce == Init => AccountedOnce
  BY DEF Init, AccountedOnce, Ids

(* A step that reports some runs and keeps others under their ids keeps    *)
(* the books.                                                              *)
LEMMA AccountedKept ==
  ASSUME AccountedOnce,
         UNCHANGED dispatched,
         NEW reason,
         NEW K \in SUBSET entries, NEW D \in SUBSET entries, K \cap D = {},
         Ids' \subseteq {e.id : e \in K},
         \A x, y \in entries' : x.id = y.id => x = y,
         reported' = reported \cup {Failed(e, reason) : e \in D}
  PROVE  AccountedOnce'
<1>1. \A e \in D : Failed(e, reason).id = e.id
  BY DEF Failed
<1>2. \A x, y \in reported' : x.id = y.id => x = y
  <2>1. \A x \in reported, e \in D : x.id # e.id
    BY DEF AccountedOnce, Ids
  <2>. QED
    BY <1>1, <2>1 DEF AccountedOnce
<1>3. \A x \in reported' : x.id \notin Ids' /\ x.id \in 1..dispatched
  <2>1. ASSUME NEW x \in reported PROVE x.id \notin Ids' /\ x.id \in 1..dispatched
    BY DEF AccountedOnce, Ids
  <2>2. ASSUME NEW e \in D PROVE e.id \notin Ids' /\ e.id \in 1..dispatched
    <3>1. e \in entries /\ \A k \in K : k.id # e.id
      BY DEF AccountedOnce
    <3>2. e.id \notin Ids'
      BY <3>1
    <3>3. e.id \in Ids
      BY <3>1 DEF Ids
    <3>. QED
      BY <3>2, <3>3 DEF AccountedOnce
  <2>. QED
    BY <1>1, <2>1, <2>2
<1>4. Ids' \subseteq 1..dispatched
  BY DEF AccountedOnce, Ids
<1>5. Ids' \cap {r.id : r \in reported'} = {}
  BY <1>3
<1>6. Ids' \cup {r.id : r \in reported'} \subseteq 1..dispatched'
  BY <1>3, <1>4
<1>. QED
  BY <1>2, <1>5, <1>6, Zenon DEF AccountedOnce

LEMMA NextAccountedOnce == TypeOK /\ AccountedOnce /\ [Next]_vars => AccountedOnce'
<1>. SUFFICES ASSUME TypeOK, AccountedOnce, [Next]_vars PROVE AccountedOnce'
  OBVIOUS
<1>1. CASE UNCHANGED watching
  BY <1>1 DEF watching, AccountedOnce, Ids
<1>2. ASSUME NEW path \in Paths, OnDispatch(path) PROVE AccountedOnce'
  <2>. DEFINE new == [id |-> dispatched + 1, path |-> path, boot |-> Stamp, silence |-> 0]
  <2>1. /\ entries' = entries \cup {new}
        /\ new.id = dispatched + 1
        /\ dispatched' = dispatched + 1
        /\ reported' = reported
    BY <1>2 DEF OnDispatch
  <2>. HIDE DEF new
  <2>2. dispatched \in Nat /\ \A e \in entries : e.id \in 1..dispatched
    BY DEF TypeOK, AccountedOnce, Ids
  <2>3. \A e \in entries : e.id # new.id
    BY <2>1, <2>2
  <2>4. \A r \in reported : r.id \in 1..dispatched
    BY DEF AccountedOnce
  <2>5. \A r \in reported : r.id # new.id
    BY <2>1, <2>2, <2>4
  <2>6. Ids' = Ids \cup {new.id}
    BY <2>1 DEF Ids
  <2>7. Ids' \cup {r.id : r \in reported'} \subseteq 1..dispatched'
    <3>1. 1..dispatched' = 1..dispatched \cup {new.id}
      BY <2>1, <2>2
    <3>2. Ids \cup {r.id : r \in reported} \subseteq 1..dispatched
      BY DEF AccountedOnce
    <3>. QED
      BY <2>1, <2>6, <3>1, <3>2
  <2>8. \A x, y \in entries' : x.id = y.id => x = y
    BY <2>1, <2>3 DEF AccountedOnce
  <2>9. Ids' \cap {r.id : r \in reported'} = {}
    BY <2>1, <2>5, <2>6 DEF AccountedOnce
  <2>. QED
    BY <2>1, <2>7, <2>8, <2>9 DEF AccountedOnce
<1>3. ASSUME NEW path \in Paths, NEW boot \in Boots \cup {None}, OnDone(path, boot)
      PROVE  AccountedOnce'
  BY <1>3 DEF OnDone, AccountedOnce, Ids
<1>4. ASSUME NEW boot \in Boots, NEW path \in Paths \cup {None},
             NEW active \in BOOLEAN, OnHeartbeat(boot, path, active)
      PROVE  AccountedOnce'
  <2>. DEFINE beaten(e) == IF Heard(e, boot, active)
                           THEN [e EXCEPT !.boot = boot, !.silence = 0] ELSE e
  <2>1. entries' = {beaten(e) : e \in entries}
    BY <1>4 DEF OnHeartbeat
  <2>2. \A e \in entries : beaten(e).id = e.id
    BY DEF TypeOK, Entry
  <2>. HIDE DEF beaten
  <2>3. Ids' = Ids
    BY <2>1, <2>2 DEF Ids
  <2>4. \A x, y \in entries' : x.id = y.id => x = y
    BY <2>1, <2>2 DEF AccountedOnce
  <2>. QED
    BY <1>4, <2>3, <2>4 DEF OnHeartbeat, AccountedOnce
<1>5. ASSUME NEW ut \in UT, OnUt(ut) PROVE AccountedOnce'
  <2>1. CASE Unmoved
    BY <1>1, <2>1 DEF Unmoved
  <2>2. CASE Rewind
    <3>1. entries' = {} /\ dispatched' = dispatched
          /\ reported' = reported \cup {Failed(e, "rewind") : e \in entries}
      BY <2>2 DEF Rewind
    <3>2. Ids' \subseteq {e.id : e \in {}}
      BY <3>1 DEF Ids
    <3>. QED
      BY <3>1, <3>2, AccountedKept
  <2>3. CASE Advance
    <3>. DEFINE K == {f \in entries : ~Silent(f)}
                D == {f \in entries : Silent(f)}
                aged(e) == [e EXCEPT !.silence = @ + Counted]
    <3>1. /\ entries' = {aged(e) : e \in K}
          /\ dispatched' = dispatched
          /\ reported' = reported \cup {Failed(e, "silent") : e \in D}
      BY <2>3 DEF Advance
    <3>2. \A e \in entries : aged(e).id = e.id
      BY DEF TypeOK, Entry
    <3>3. K \in SUBSET entries /\ D \in SUBSET entries /\ K \cap D = {}
      OBVIOUS
    <3>. HIDE DEF K, D, aged
    <3>4. Ids' \subseteq {e.id : e \in K}
      BY <3>1, <3>2, <3>3 DEF Ids
    <3>5. \A x, y \in entries' : x.id = y.id => x = y
      BY <3>1, <3>2, <3>3 DEF AccountedOnce
    <3>. QED
      BY <3>1, <3>3, <3>4, <3>5, AccountedKept
  <2>. QED
    BY <1>5, <2>1, <2>2, <2>3 DEF OnUt
<1>6. CASE WallPasses \/ PingDue
  BY <1>1, <1>6 DEF WallPasses, PingDue
<1>7. CASE UNCHANGED vars
  BY <1>1, <1>7 DEF vars
<1>. QED
  BY <1>2, <1>3, <1>4, <1>5, <1>6, <1>7 DEF Next

(* A run is watched under one entry, reported at most once, and never      *)
(* watched after it was reported.                                          *)
THEOREM RunsAccountedOnce == Spec => []AccountedOnce
<1>1. Init => TypeOK /\ AccountedOnce
  BY InitTypeOK, InitAccountedOnce
<1>2. TypeOK /\ AccountedOnce /\ [Next]_vars => TypeOK' /\ AccountedOnce'
  BY NextTypeOK, NextAccountedOnce
<1>. QED
  BY <1>1, <1>2, PTL DEF Spec

-----------------------------------------------------------------------------
(* The fate of a run, read off the books.                                  *)
FateFacts ==
  \A id \in 1..MaxDispatch :
    /\ id \in Ids => FateOf(id) = "watched"
    /\ \A r \in reported : r.id = id => FateOf(id) = r.reason
    /\ id > dispatched => FateOf(id) = "unsent"
    /\ FateOf(id) = "watched" => id \in Ids

LEMMA FateIsOnRecord == TypeOK /\ AccountedOnce => FateFacts
<1>. SUFFICES ASSUME TypeOK, AccountedOnce, NEW id \in 1..MaxDispatch
              PROVE  /\ id \in Ids => FateOf(id) = "watched"
                     /\ \A r \in reported : r.id = id => FateOf(id) = r.reason
                     /\ id > dispatched => FateOf(id) = "unsent"
                     /\ FateOf(id) = "watched" => id \in Ids
  BY Zenon DEF FateFacts
<1>1. id \in Ids => FateOf(id) = "watched"
  BY DEF FateOf
<1>2. ASSUME NEW r \in reported, r.id = id PROVE FateOf(id) = r.reason
  <2>1. id \notin Ids
    BY <1>2 DEF AccountedOnce
  <2>2. \A s \in reported : s.id = id => s = r
    BY <1>2 DEF AccountedOnce
  <2>3. (CHOOSE s \in reported : s.id = id) = r
    BY <1>2, <2>2
  <2>. QED
    BY <1>2, <2>1, <2>3 DEF FateOf
<1>3. ASSUME id > dispatched PROVE FateOf(id) = "unsent"
  <2>1. dispatched \in Nat
    BY DEF TypeOK
  <2>2. id \notin Ids /\ \A r \in reported : r.id # id
    BY <1>3, <2>1 DEF AccountedOnce
  <2>. QED
    BY <1>3, <2>1, <2>2 DEF FateOf
<1>4. ASSUME FateOf(id) = "watched" PROVE id \in Ids
  <2>1. \A r \in reported : r.reason # "watched"
    BY DEF TypeOK, Failure, Reasons
  <2>2. ASSUME id \notin Ids PROVE FALSE
    <3>1. CASE \E r \in reported : r.id = id
      BY <1>2, <1>4, <2>1, <3>1
    <3>2. CASE ~ \E r \in reported : r.id = id
      BY <1>4, <2>2, <3>2 DEF FateOf
    <3>. QED
      BY <3>1, <3>2
  <2>. QED
    BY <2>2
<1>. QED
  BY <1>1, <1>2, <1>3, <1>4

(* The runs of S come to one end and the others keep theirs.               *)
LEMMA BecomesOf ==
  ASSUME NEW S, NEW end,
         \A id \in 1..MaxDispatch :
           FateOf(id)' = IF id \in S THEN end ELSE FateOf(id)
  PROVE  Tracking!Becomes(S, end)
  BY DEF Tracking!Becomes

LEMMA InitTracking == Init => Tracking!Init
  BY DEF Init, Tracking!Init, FateOf, Ids, NoLink

(* Every step is one of RunTracking or leaves fates and link alone.        *)
LEMMA NextTracking ==
  ASSUME TypeOK, AccountedOnce, FateFacts, FateFacts', [Next]_vars
  PROVE  [Tracking!Next]_(Tracking!vars)
<1>. DEFINE Runs == 1..MaxDispatch
<1>0. /\ \A id \in Runs : FateOf(id) = "watched" <=> id \in Ids
      /\ Tracking!Watched = {id \in Runs : id \in Ids}
      /\ Ids \subseteq Runs
  BY DEF FateFacts, Tracking!Watched, Ids, TypeOK, Entry
<1>1. ASSUME UNCHANGED watching, UNCHANGED link.up PROVE UNCHANGED Tracking!vars
  BY <1>1 DEF watching, Tracking!vars, FateOf, Ids
<1>2. ASSUME NEW path \in Paths, OnDispatch(path) PROVE Tracking!Send
  <2>. DEFINE new == [id |-> dispatched + 1, path |-> path, boot |-> Stamp, silence |-> 0]
              n == dispatched + 1
  <2>1. /\ entries' = entries \cup {new} /\ dispatched' = n /\ reported' = reported
        /\ link' = link /\ n \in Runs /\ new.id = n /\ dispatched \in Nat
    BY <1>2 DEF OnDispatch, linking, TypeOK
  <2>. HIDE DEF new
  <2>2. Ids' = Ids \cup {n}
    BY <2>1 DEF Ids
  <2>3. FateOf(n) = "unsent"
    BY <2>1 DEF FateFacts
  <2>4. ASSUME NEW id \in Runs PROVE FateOf(id)' = IF id \in {n} THEN "watched" ELSE FateOf(id)
    <3>1. CASE id = n
      BY <2>2, <3>1 DEF FateFacts
    <3>2. CASE id # n
      BY <2>1, <2>2, <3>2 DEF FateOf
    <3>. QED
      BY <3>1, <3>2
  <2>5. Tracking!Becomes({n}, "watched")
    BY <2>4, BecomesOf
  <2>. QED
    BY <2>1, <2>3, <2>5 DEF Tracking!Send
<1>3. ASSUME NEW path \in Paths, NEW boot \in Boots \cup {None}, OnDone(path, boot)
      PROVE  Tracking!Settle \/ UNCHANGED Tracking!vars
  <2>. DEFINE O == Oldest(Matching(path, boot))
  <2>1. /\ entries' = entries \ O /\ dispatched' = dispatched /\ reported' = reported
        /\ link'.up = link.up
    BY <1>3 DEF OnDone, TypeOK, KosLink
  <2>2. O \subseteq entries /\ \A e, f \in O : e.id = f.id
    <3>1. Matching(path, boot) \subseteq entries
      BY DEF Matching, RunsOf
    <3>2. \A e, f \in O : e.id \in Int /\ f.id \in Int /\ e.id <= f.id /\ f.id <= e.id
      BY <3>1 DEF Oldest, TypeOK, Entry
    <3>. QED
      BY <3>1, <3>2 DEF Oldest
  <2>. HIDE DEF O
  <2>3. CASE O = {}
    BY <1>1, <2>1, <2>3 DEF watching
  <2>4. ASSUME NEW e \in O PROVE Tracking!Settle
    <3>1. e.id \in Tracking!Watched
      BY <1>0, <2>2 DEF Ids
    <3>2. O = {e}
      BY <2>2 DEF AccountedOnce
    <3>3. Ids' = Ids \ {e.id}
      BY <2>1, <2>2, <3>2 DEF Ids, AccountedOnce
    <3>4. FateOf(e.id)' = "done"
      <4>1. e.id \in Ids
        BY <2>2 DEF Ids
      <4>2. e.id <= dispatched /\ \A r \in reported : r.id # e.id
        BY <4>1 DEF AccountedOnce, TypeOK
      <4>. QED
        BY <2>1, <3>3, <4>2 DEF FateOf
    <3>5. \A id \in Runs : FateOf(id)' = IF id \in {e.id} THEN "done" ELSE FateOf(id)
      BY <2>1, <3>3, <3>4 DEF FateOf
    <3>6. Tracking!Becomes({e.id}, "done")
      BY <3>5, BecomesOf
    <3>. QED
      BY <2>1, <3>1, <3>6 DEF Tracking!Settle
  <2>. QED
    BY <2>3, <2>4
<1>4. ASSUME NEW boot \in Boots, NEW path \in Paths \cup {None},
             NEW active \in BOOLEAN, OnHeartbeat(boot, path, active)
      PROVE  Tracking!Answer \/ UNCHANGED Tracking!vars
  <2>. DEFINE beaten(e) == IF Heard(e, boot, active)
                           THEN [e EXCEPT !.boot = boot, !.silence = 0] ELSE e
  <2>1. /\ entries' = {beaten(e) : e \in entries}
        /\ dispatched' = dispatched /\ reported' = reported
    BY <1>4 DEF OnHeartbeat
  <2>2. \A e \in entries : beaten(e).id = e.id
    BY DEF TypeOK, Entry
  <2>. HIDE DEF beaten
  <2>3. Ids' = Ids
    BY <2>1, <2>2 DEF Ids
  <2>4. \A id \in Runs : FateOf(id)' = FateOf(id)
    BY <2>1, <2>3 DEF FateOf
  <2>5. [id \in Runs |-> FateOf(id)]' = [id \in Runs |-> FateOf(id)]
    BY <2>4
  <2>6. link' = [up |-> TRUE, running |-> path] \/ link' = link
    BY <1>4, Zenon DEF OnHeartbeat, linking
  <2>. QED
    BY <2>5, <2>6 DEF Tracking!Answer, Tracking!vars
<1>5. ASSUME Rewind PROVE Tracking!Load
  <2>1. /\ entries' = {} /\ dispatched' = dispatched /\ link'.up = FALSE
        /\ reported' = reported \cup {Failed(e, "rewind") : e \in entries}
    BY <1>5 DEF Rewind, LinkDown, NoLink
  <2>2. Ids' = {}
    BY <2>1 DEF Ids
  <2>3. ASSUME NEW id \in Runs
        PROVE  FateOf(id)' = IF id \in Tracking!Watched THEN "rewind" ELSE FateOf(id)
    <3>1. CASE id \in Ids
      <4>1. PICK e \in entries : e.id = id
        BY <3>1 DEF Ids
      <4>2. Failed(e, "rewind") \in reported' /\ Failed(e, "rewind").id = id
            /\ Failed(e, "rewind").reason = "rewind"
        BY <2>1, <4>1 DEF Failed
      <4>3. FateOf(id)' = "rewind"
        BY <4>2 DEF FateFacts
      <4>. QED
        BY <1>0, <3>1, <4>3
    <3>2. CASE id \notin Ids
      <4>1. \A e \in entries : Failed(e, "rewind").id # id
        BY <3>2 DEF Ids, Failed
      <4>2. CASE \E r \in reported : r.id = id
        <5>1. PICK r \in reported : r.id = id
          BY <4>2
        <5>. QED
          BY <1>0, <2>1, <3>2, <5>1 DEF FateFacts
      <4>3. CASE ~ \E r \in reported : r.id = id
        BY <1>0, <2>1, <2>2, <3>2, <4>1, <4>3 DEF FateOf
      <4>. QED
        BY <4>2, <4>3
    <3>. QED
      BY <3>1, <3>2
  <2>4. Tracking!Becomes(Tracking!Watched, "rewind")
    BY <2>3, BecomesOf
  <2>. QED
    BY <2>1, <2>4 DEF Tracking!Load
<1>6. ASSUME Advance PROVE Tracking!FallSilent
  <2>. DEFINE K == {f \in entries : ~Silent(f)}
              D == {f \in entries : Silent(f)}
              aged(e) == [e EXCEPT !.silence = @ + Counted]
              S == {e.id : e \in D}
  <2>1. /\ entries' = {aged(e) : e \in K} /\ dispatched' = dispatched
        /\ reported' = reported \cup {Failed(e, "silent") : e \in D}
        /\ link'.up => link.up
    BY <1>6 DEF Advance, LinkDown, NoLink, linking
  <2>2. \A e \in entries : aged(e).id = e.id
    BY DEF TypeOK, Entry
  <2>3. K \subseteq entries /\ D \subseteq entries /\ K \cap D = {} /\ entries = K \cup D
    OBVIOUS
  <2>. HIDE DEF K, D, aged
  <2>4. Ids' = {e.id : e \in K}
    BY <2>1, <2>2, <2>3 DEF Ids
  <2>5. S \subseteq Tracking!Watched
    BY <1>0, <2>3 DEF Ids
  <2>6. ASSUME NEW id \in Runs
        PROVE  FateOf(id)' = IF id \in S THEN "silent" ELSE FateOf(id)
    <3>1. CASE id \in S
      <4>1. PICK e \in D : e.id = id
        BY <3>1
      <4>2. Failed(e, "silent") \in reported' /\ Failed(e, "silent").id = id
            /\ Failed(e, "silent").reason = "silent"
        BY <2>1, <4>1 DEF Failed
      <4>. QED
        BY <3>1, <4>2 DEF FateFacts
    <3>2. CASE id \notin S /\ id \in Ids
      <4>1. id \in Ids'
        BY <2>3, <2>4, <3>2 DEF Ids
      <4>. QED
        BY <3>2, <4>1 DEF FateFacts
    <3>3. CASE id \notin Ids
      <4>1. id \notin Ids' /\ id \notin S
        BY <2>3, <2>4, <3>3 DEF Ids
      <4>2. \A e \in D : Failed(e, "silent").id # id
        BY <4>1 DEF Failed
      <4>3. CASE \E r \in reported : r.id = id
        <5>1. PICK r \in reported : r.id = id
          BY <4>3
        <5>. QED
          BY <2>1, <4>1, <5>1 DEF FateFacts
      <4>4. CASE ~ \E r \in reported : r.id = id
        BY <2>1, <3>3, <4>1, <4>2, <4>4 DEF FateOf
      <4>. QED
        BY <4>3, <4>4
    <3>. QED
      BY <3>1, <3>2, <3>3
  <2>7. Tracking!Becomes(S, "silent")
    BY <2>6, BecomesOf
  <2>. HIDE DEF S
  <2>. QED
    BY <2>1, <2>5, <2>7 DEF Tracking!FallSilent
<1>7. ASSUME NEW ut \in UT, OnUt(ut) PROVE [Tracking!Next]_(Tracking!vars)
  <2>1. CASE Unmoved
    BY <1>1, <2>1 DEF Unmoved, linking
  <2>. QED
    BY <1>5, <1>6, <1>7, <2>1 DEF OnUt, Tracking!Next
<1>8. CASE WallPasses \/ PingDue \/ UNCHANGED vars
  BY <1>1, <1>8 DEF WallPasses, PingDue, vars, linking
<1>. QED
  BY <1>2, <1>3, <1>4, <1>7, <1>8 DEF Next, Tracking!Next

(* The watchdog implements RunTracking.                                    *)
THEOREM RunsTracked == Spec => ImplementsTracking
<1>1. Init => Tracking!Init
  BY InitTracking
<1>2. TypeOK /\ AccountedOnce => FateFacts
  BY FateIsOnRecord
<1>3. TypeOK /\ AccountedOnce /\ FateFacts /\ FateFacts' /\ [Next]_vars
        => [Tracking!Next]_(Tracking!vars)
  BY NextTracking
<1>. QED
  BY <1>1, <1>2, <1>3, TypeCorrect, RunsAccountedOnce, PTL DEF Spec, ImplementsTracking, Tracking!Spec

-----------------------------------------------------------------------------

(* The invariant is inductive together with what it leans on.              *)
Books == TypeOK /\ AccountedOnce /\ LinkCoherent
HInv == Books /\ HistoryOK /\ SilenceExact /\ LinkExact

LEMMA HNextNext == [HNext]_hvars => [Next]_vars
  BY DEF HNext, Next, hvars, HWallPasses, HPingDue, HOnDone, HOnDispatch, HOnHeartbeat, HOnUt

LEMMA BooksKept == Books /\ [HNext]_hvars => Books'
  BY HNextNext, NextTypeOK, NextAccountedOnce, NextLinkCoherent DEF Books

LEMMA NeverNat == Never \in Nat /\ Never > Deadline
  BY DEF Never

(* on_ut counts what it should.                                            *)
LEMMA PlayedCounted == TypeOK => Played = Counted
  BY DEF TypeOK, Played, Counted, AtMost

(* Ageing stays within 0..Never, keeps what is below it exact, keeps the   *)
(* order of two ages and never brings an age back within the deadline.     *)
LEMMA OlderFacts ==
  ASSUME TypeOK, NEW m \in 0..Never
  PROVE  /\ Older(m) \in 0..Never
         /\ m + Counted <= Deadline => Older(m) = m + Counted
         /\ m + Counted > Deadline => Older(m) > Deadline
         /\ m > Deadline => Older(m) > Deadline
<1>1. Counted \in Nat /\ Played = Counted
  BY CountedBound, PlayedCounted
<1>. QED
  BY <1>1, NeverNat DEF Older, AtMost

LEMMA OlderYoungest ==
  ASSUME TypeOK, NEW m \in 0..Never, NEW n \in 0..Never
  PROVE  Older(Youngest(m, n)) = Youngest(Older(m), Older(n))
<1>1. Counted \in Nat /\ Played = Counted
  BY CountedBound, PlayedCounted
<1>. QED
  BY <1>1, NeverNat DEF Older, AtMost, Youngest

(* How long a run has gone unvouched for is an age.                        *)
LEMMA UnvouchedAge ==
  ASSUME TypeOK, HistoryOK, NEW e \in entries
  PROVE  /\ e \in Entry
         /\ waited[e.id] \in 0..Never
         /\ e.boot # None => e.boot \in Boots /\ quiet[e.boot] \in 0..Never
         /\ Unvouched(e) \in 0..Never
<1>1. e \in Entry
  BY DEF TypeOK
<1>2. waited[e.id] \in 0..Never
  BY <1>1 DEF Entry, HistoryOK
<1>3. e.boot # None => e.boot \in Boots /\ quiet[e.boot] \in 0..Never
  BY <1>1 DEF Entry, HistoryOK
<1>. QED
  BY <1>1, <1>2, <1>3, NeverNat DEF Unvouched, Youngest

LEMMA InitHInv == HInit => HInv
<1>. SUFFICES ASSUME HInit PROVE HInv
  OBVIOUS
<1>1. Books
  BY InitTypeOK, InitAccountedOnce, InitLinkCoherent DEF HInit, Books
<1>2. HistoryOK
  BY NeverNat DEF HInit, HistoryOK
<1>3. SilenceExact
  BY DEF HInit, Init, SilenceExact
<1>4. LinkExact
  BY NeverNat DEF HInit, Init, NoLink, LinkExact
<1>. QED
  BY <1>1, <1>2, <1>3, <1>4 DEF HInv

LEMMA NextHistoryOK == TypeOK /\ HistoryOK /\ [HNext]_hvars => HistoryOK'
<1>. SUFFICES ASSUME TypeOK, HistoryOK, [HNext]_hvars PROVE HistoryOK'
  OBVIOUS
<1>1. CASE UNCHANGED history
  BY <1>1 DEF history, HistoryOK
<1>2. ASSUME NEW path \in Paths, HOnDispatch(path) PROVE HistoryOK'
  <2>1. 0 \in 0..Never
    BY NeverNat
  <2>2. waited' \in [1..MaxDispatch -> 0..Never]
    BY <1>2, <2>1 DEF HOnDispatch, HistoryOK
  <2>. QED
    BY <1>2, <2>2 DEF HOnDispatch, HistoryOK
<1>3. ASSUME NEW boot \in Boots, NEW path \in Paths \cup {None},
             NEW active \in BOOLEAN, HOnHeartbeat(boot, path, active)
      PROVE  HistoryOK'
  <2>1. answered' \in 0..Never
    <3>1. CASE active
      BY <1>3, <3>1, NeverNat DEF HOnHeartbeat
    <3>2. CASE ~active
      BY <1>3, <3>2 DEF HOnHeartbeat, HistoryOK
    <3>. QED
      BY <3>1, <3>2
  <2>. QED
    BY <1>3, <2>1, NeverNat DEF HOnHeartbeat, HistoryOK
<1>4. ASSUME NEW ut \in UT, HOnUt(ut) PROVE HistoryOK'
  <2>1. CASE lastUt # None /\ ut > lastUt
    BY <1>4, <2>1, OlderFacts DEF HOnUt, HistoryOK
  <2>2. CASE ~(lastUt # None /\ ut > lastUt)
    BY <1>4, <2>2, NeverNat DEF HOnUt, HistoryOK
  <2>. QED
    BY <2>1, <2>2
<1>. QED
  BY <1>1, <1>2, <1>3, <1>4 DEF HNext, HWallPasses, HPingDue, HOnDone, hvars

(* A sample that advances the game ages every surviving run and the        *)
(* session it belongs to by the same amount.                               *)
LEMMA AdvanceExact ==
  ASSUME Books, HistoryOK, SilenceExact, NEW ut \in UT, HOnUt(ut),
         lastUt # None, ut > lastUt
  PROVE  SilenceExact'
<1>1. /\ entries' = {[e EXCEPT !.silence = @ + Counted] : e \in {f \in entries : ~Silent(f)}}
      /\ quiet' = [b \in Boots |-> Older(quiet[b])]
      /\ waited' = [i \in 1..MaxDispatch |-> Older(waited[i])]
  <2>1. Advance
    <3>1. lastUt \in Int /\ ut \in Int
      BY DEF Books, TypeOK
    <3>. QED
      BY <3>1 DEF HOnUt, OnUt
  <2>. QED
    BY <2>1 DEF Advance, HOnUt
<1>2. SUFFICES ASSUME NEW f \in entries, ~Silent(f),
                      NEW g, g = [f EXCEPT !.silence = @ + Counted]
               PROVE  g.silence = Unvouched(g)'
  BY <1>1 DEF SilenceExact
<1>3. TypeOK
  BY DEF Books
<1>4. /\ f \in Entry
      /\ waited[f.id] \in 0..Never
      /\ f.boot # None => f.boot \in Boots /\ quiet[f.boot] \in 0..Never
      /\ Unvouched(f) \in 0..Never
  BY <1>3, UnvouchedAge
<1>5. /\ g.id = f.id /\ g.boot = f.boot /\ g.silence = f.silence + Counted
      /\ f.id \in 1..MaxDispatch /\ f.silence \in Nat
  BY <1>2, <1>4 DEF Entry
<1>6. g.silence = Older(Unvouched(f))
  <2>1. f.silence = Unvouched(f)
    BY DEF SilenceExact
  <2>2. f.silence + Counted <= Deadline
    BY <1>2, <1>3, <1>5, CountedBound DEF Silent
  <2>. QED
    BY <1>3, <1>4, <1>5, <2>1, <2>2, OlderFacts
<1>7. CASE f.boot = None
  <2>1. Unvouched(g)' = Older(waited[f.id]) /\ Unvouched(f) = waited[f.id]
    BY <1>1, <1>5, <1>7 DEF Unvouched
  <2>. QED
    BY <1>6, <2>1
<1>8. CASE f.boot # None
  <2>1. Unvouched(g)' = Youngest(Older(waited[f.id]), Older(quiet[f.boot]))
    BY <1>1, <1>4, <1>5, <1>8 DEF Unvouched
  <2>2. Unvouched(f) = Youngest(waited[f.id], quiet[f.boot])
    BY <1>8 DEF Unvouched
  <2>. QED
    BY <1>3, <1>4, <1>6, <1>8, <2>1, <2>2, OlderYoungest
<1>. QED
  BY <1>7, <1>8

LEMMA NextSilenceExact ==
  Books /\ HistoryOK /\ SilenceExact /\ [HNext]_hvars => SilenceExact'
<1>. SUFFICES ASSUME Books, HistoryOK, SilenceExact, [HNext]_hvars PROVE SilenceExact'
  OBVIOUS
<1>. TypeOK
  BY DEF Books
<1>1. CASE UNCHANGED history /\ entries' \subseteq entries
  <2>1. \A e \in entries : Unvouched(e)' = Unvouched(e)
    BY <1>1 DEF history, Unvouched
  <2>. QED
    BY <1>1, <2>1 DEF SilenceExact
<1>2. ASSUME NEW path \in Paths, HOnDispatch(path) PROVE SilenceExact'
  <2>. PICK new :
         new = [id |-> dispatched + 1, path |-> path, boot |-> Stamp, silence |-> 0]
    OBVIOUS
  <2>1. /\ entries' = entries \cup {new}
        /\ new.id = dispatched + 1 /\ new.boot = Stamp /\ new.silence = 0
        /\ dispatched + 1 \in 1..MaxDispatch
        /\ waited' = [waited EXCEPT ![dispatched + 1] = 0] /\ quiet' = quiet
    BY <1>2 DEF HOnDispatch, OnDispatch, TypeOK
  <2>2. Unvouched(new)' = 0
    <3>1. waited'[new.id] = 0
      <4>1. new.id \in DOMAIN waited
        BY <2>1 DEF HistoryOK
      <4>. QED
        BY <2>1, <4>1
    <3>2. new.boot # None => new.boot \in Boots /\ quiet'[new.boot] \in Nat
      BY <2>1, NeverNat DEF Stamp, TypeOK, HistoryOK
    <3>. QED
      BY <3>1, <3>2 DEF Unvouched, Youngest
  <2>3. ASSUME NEW e \in entries PROVE Unvouched(e)' = Unvouched(e)
    <3>1. e.id # dispatched + 1 /\ e.id \in 1..MaxDispatch
      BY DEF Books, AccountedOnce, Ids, TypeOK, Entry
    <3>2. waited'[e.id] = waited[e.id]
      BY <2>1, <3>1 DEF HistoryOK
    <3>. QED
      BY <2>1, <3>2 DEF Unvouched
  <2>. QED
    BY <2>1, <2>2, <2>3 DEF SilenceExact
<1>3. ASSUME NEW boot \in Boots, NEW path \in Paths \cup {None},
             NEW active \in BOOLEAN, HOnHeartbeat(boot, path, active)
      PROVE  SilenceExact'
  <2>1. /\ entries' = {IF Heard(e, boot, active)
                       THEN [e EXCEPT !.boot = boot, !.silence = 0] ELSE e : e \in entries}
        /\ quiet' = [quiet EXCEPT ![boot] = 0] /\ waited' = waited
    BY <1>3 DEF HOnHeartbeat, OnHeartbeat
  <2>2. ASSUME NEW f \in entries, Heard(f, boot, active),
               NEW g, g = [f EXCEPT !.boot = boot, !.silence = 0]
        PROVE  g.silence = Unvouched(g)'
    <3>1. g.id = f.id /\ g.boot = boot /\ g.silence = 0
      BY <2>2 DEF TypeOK, Entry
    <3>2. waited'[g.id] \in Nat /\ quiet'[boot] = 0
      <4>1. waited[f.id] \in 0..Never /\ boot \in DOMAIN quiet
        BY UnvouchedAge DEF HistoryOK
      <4>2. waited'[g.id] \in Nat
        <5>1. waited'[g.id] = waited[f.id] /\ g.id = f.id
          BY <2>1, <3>1
        <5>. QED
          BY <4>1, <5>1, NeverNat
      <4>3. quiet'[boot] = 0
        BY <2>1, <4>1
      <4>. QED
        BY <4>2, <4>3
    <3>. QED
      BY <3>1, <3>2 DEF Unvouched, Youngest
  <2>3. ASSUME NEW f \in entries, ~Heard(f, boot, active)
        PROVE  f.silence = Unvouched(f)'
    <3>1. f.boot # None => quiet'[f.boot] = quiet[f.boot]
      BY <2>1, <2>3, UnvouchedAge DEF Heard, HistoryOK
    <3>. QED
      BY <2>1, <3>1 DEF Unvouched, SilenceExact
  <2>. QED
    BY <2>1, <2>2, <2>3 DEF SilenceExact
<1>4. ASSUME NEW ut \in UT, HOnUt(ut) PROVE SilenceExact'
  <2>1. CASE lastUt # None /\ ut > lastUt
    BY <1>4, <2>1, AdvanceExact
  <2>2. CASE ~(lastUt # None /\ ut > lastUt)
    <3>1. quiet' = quiet /\ waited' = waited
      BY <1>4, <2>2 DEF HOnUt
    <3>2. entries' \subseteq entries
      BY <1>4, <2>2 DEF HOnUt, OnUt, Unmoved, Rewind, watching
    <3>3. \A e \in entries : Unvouched(e)' = Unvouched(e)
      BY <3>1 DEF Unvouched
    <3>. QED
      BY <3>2, <3>3 DEF SilenceExact
  <2>. QED
    BY <2>1, <2>2
<1>5. CASE HWallPasses \/ HPingDue \/ UNCHANGED hvars
  BY <1>1, <1>5 DEF HWallPasses, HPingDue, WallPasses, PingDue, watching, hvars, vars
<1>6. ASSUME NEW path \in Paths, NEW boot \in Boots \cup {None}, HOnDone(path, boot)
      PROVE  SilenceExact'
  BY <1>1, <1>6 DEF HOnDone, OnDone
<1>. QED
  BY <1>2, <1>3, <1>4, <1>5, <1>6 DEF HNext

-----------------------------------------------------------------------------
LEMMA NextLinkExact ==
  Books /\ HistoryOK /\ LinkExact /\ [HNext]_hvars => LinkExact'
<1>. SUFFICES ASSUME Books, HistoryOK, LinkExact, [HNext]_hvars PROVE LinkExact'
  OBVIOUS
<1>. TypeOK
  BY DEF Books
<1>1. CASE UNCHANGED <<linking, answered>>
  BY <1>1 DEF linking, LinkExact
<1>2. ASSUME NEW path \in Paths, NEW boot \in Boots \cup {None}, HOnDone(path, boot)
      PROVE  LinkExact'
  <2>1. link'.up = link.up /\ linkSilence' = linkSilence /\ answered' = answered
    BY <1>2 DEF HOnDone, OnDone, TypeOK, KosLink, history
  <2>. QED
    BY <2>1 DEF LinkExact
<1>3. ASSUME NEW boot \in Boots, NEW path \in Paths \cup {None},
             NEW active \in BOOLEAN, HOnHeartbeat(boot, path, active)
      PROVE  LinkExact'
  <2>1. CASE active
    <3>1. link' = [up |-> TRUE, running |-> path] /\ linkSilence' = 0
      BY <1>3, <2>1 DEF HOnHeartbeat, OnHeartbeat
    <3>2. answered' = 0
      BY <1>3, <2>1 DEF HOnHeartbeat
    <3>. QED
      BY <3>1, <3>2 DEF LinkExact
  <2>2. CASE ~active
    BY <1>1, <1>3, <2>2 DEF HOnHeartbeat, OnHeartbeat
  <2>. QED
    BY <2>1, <2>2
<1>4. ASSUME NEW ut \in UT, HOnUt(ut) PROVE LinkExact'
  <2>. lastUt # None => lastUt \in Int /\ ut \in Int
    BY DEF TypeOK
  <2>1. CASE ut < lastUt /\ lastUt # None /\ Rewind
    <3>1. link'.up = FALSE
      BY <2>1 DEF Rewind, LinkDown, NoLink
    <3>2. answered' = Never
      BY <1>4, <2>1 DEF HOnUt
    <3>. QED
      BY <3>1, <3>2, NeverNat DEF LinkExact
  <2>2. CASE (lastUt = None \/ ut = lastUt) /\ Unmoved
    <3>1. ~(lastUt # None /\ ut > lastUt) /\ ~(lastUt # None /\ ut < lastUt)
      BY <2>2
    <3>. QED
      BY <1>1, <1>4, <2>2, <3>1 DEF HOnUt, Unmoved
  <2>3. CASE ut > lastUt /\ lastUt # None /\ Advance
    <3>1. answered' = Older(answered) /\ answered \in 0..Never
      BY <1>4, <2>3 DEF Advance, HOnUt, HistoryOK
    <3>2. Counted \in Nat /\ linkSilence \in Nat
      BY CountedBound DEF TypeOK
    <3>3. CASE link.up /\ linkSilence + Counted > Deadline
      <4>1. link'.up = FALSE
        BY <2>3, <3>2, <3>3 DEF Advance, LinkDown, NoLink
      <4>2. answered' > Deadline
        BY <3>1, <3>3, OlderFacts DEF LinkExact
      <4>3. ~(answered' <= Deadline)
        BY <3>1, <4>2, OlderFacts, NeverNat
      <4>. QED
        BY <4>1, <4>3 DEF LinkExact
    <3>4. CASE link.up /\ linkSilence + Counted <= Deadline
      <4>1. linkSilence' = linkSilence + Counted /\ link' = link
        BY <2>3, <3>2, <3>4 DEF Advance
      <4>2. linkSilence = answered
        BY <3>4 DEF LinkExact
      <4>3. answered' = answered + Counted
        BY <3>1, <3>4, <4>2, OlderFacts
      <4>. QED
        BY <3>4, <4>1, <4>2, <4>3 DEF LinkExact
    <3>5. CASE ~link.up
      <4>1. link' = link
        BY <2>3, <3>5 DEF Advance, linking
      <4>2. answered > Deadline
        BY <3>1, <3>5, NeverNat DEF LinkExact
      <4>3. answered' > Deadline
        BY <3>1, <4>2, OlderFacts
      <4>4. ~(answered' <= Deadline)
        BY <3>1, <4>3, OlderFacts, NeverNat
      <4>. QED
        BY <3>5, <4>1, <4>4 DEF LinkExact
    <3>. QED
      BY <3>2, <3>3, <3>4, <3>5
  <2>. QED
    BY <1>4, <2>1, <2>2, <2>3 DEF HOnUt, OnUt
<1>5. CASE HWallPasses \/ HPingDue \/ \E path \in Paths : HOnDispatch(path)
  BY <1>1, <1>5 DEF HWallPasses, HPingDue, HOnDispatch, WallPasses, PingDue, OnDispatch, history
<1>6. CASE UNCHANGED hvars
  BY <1>1, <1>6 DEF hvars, vars, history
<1>. QED
  BY <1>2, <1>3, <1>4, <1>5, <1>6 DEF HNext

LEMMA NextHInv == HInv /\ [HNext]_hvars => HInv'
  BY BooksKept, NextHistoryOK, NextSilenceExact, NextLinkExact DEF HInv, Books

LEMMA HInvAlways == HSpec => []HInv
  BY InitHInv, NextHInv, PTL DEF HSpec

(* The silence counter of a run is, at every moment, the silence of the    *)
(* session it belongs to since the later of its dispatch and its last beat.*)
THEOREM SilenceAlwaysExact == HSpec => []SilenceExact
<1>1. HInv => SilenceExact
  BY DEF HInv
<1>. QED
  BY <1>1, HInvAlways, PTL

(* The link is up exactly while the active vessel's last answer is within  *)
(* the deadline and no save was loaded since.                              *)
THEOREM LinkAlwaysExact == HSpec => []LinkExact
<1>1. HInv => LinkExact
  BY DEF HInv
<1>. QED
  BY <1>1, HInvAlways, PTL

-----------------------------------------------------------------------------
(* Inside the invariant, a step reports exactly the overdue runs.          *)
OnlyQuietDieStep ==
  \A e \in entries :
    Failed(e, "silent") \in reported' <=>
      /\ lastUt # None /\ lastUt' # None /\ lastUt' > lastUt
      /\ Overdue(e)

LEMMA SilentOverdue ==
  ASSUME HInv, NEW e \in entries
  PROVE  Silent(e) <=> Overdue(e)
<1>1. e.silence = Unvouched(e) /\ e.silence \in 0..Never
  BY UnvouchedAge DEF HInv, Books, SilenceExact
<1>2. CASE Unvouched(e) + Counted <= Deadline
  <2>1. Older(Unvouched(e)) = Unvouched(e) + Counted /\ Counted \in Nat
    BY <1>1, <1>2, OlderFacts, CountedBound DEF HInv, Books
  <2>. QED
    BY <1>1, <1>2, <2>1, NeverNat DEF Silent, Overdue
<1>3. CASE Unvouched(e) + Counted > Deadline
  BY <1>1, <1>3, OlderFacts DEF HInv, Books, Silent, Overdue
<1>. QED
  BY <1>1, <1>2, <1>3, CountedBound, NeverNat DEF HInv, Books

LEMMA StepOnlyQuietDie == HInv /\ [HNext]_hvars => [OnlyQuietDieStep]_hvars
<1>. SUFFICES ASSUME HInv, HNext, NEW e \in entries
              PROVE  Failed(e, "silent") \in reported' <=>
                       /\ lastUt # None /\ lastUt' # None /\ lastUt' > lastUt
                       /\ Overdue(e)
  BY DEF OnlyQuietDieStep
<1>1. Failed(e, "silent") \notin reported
  BY DEF HInv, Books, AccountedOnce, Ids, Failed
<1>2. CASE lastUt' = lastUt /\ reported' = reported
  <2>1. ~(lastUt # None /\ lastUt' # None /\ lastUt' > lastUt)
    <3>1. lastUt # None => lastUt \in Int
      BY DEF HInv, Books, TypeOK
    <3>. QED
      BY <1>2, <3>1
  <2>. QED
    BY <1>1, <1>2, <2>1
<1>3. ASSUME NEW ut \in UT, HOnUt(ut)
      PROVE  Failed(e, "silent") \in reported' <=>
               /\ lastUt # None /\ lastUt' # None /\ lastUt' > lastUt
               /\ Overdue(e)
  <2>. /\ lastUt' = ut /\ ut \in Int /\ ut # None
       /\ lastUt # None => lastUt \in Int
    BY <1>3 DEF HOnUt, OnUt, TakeSample, HInv, Books, TypeOK
  <2>1. CASE ut < lastUt /\ lastUt # None /\ Rewind
    <3>1. Failed(e, "silent") \notin {Failed(f, "rewind") : f \in entries}
      BY DEF Failed
    <3>2. reported' = reported \cup {Failed(f, "rewind") : f \in entries}
      BY <2>1 DEF Rewind
    <3>. QED
      BY <1>1, <2>1, <3>1, <3>2 DEF Rewind
  <2>2. CASE (lastUt = None \/ ut = lastUt) /\ Unmoved
    BY <1>1, <2>2 DEF Unmoved, watching
  <2>3. CASE ut > lastUt /\ lastUt # None /\ Advance
    <3>1. reported' = reported \cup {Failed(f, "silent") : f \in {g \in entries : Silent(g)}}
      BY <2>3 DEF Advance
    <3>2. ASSUME NEW f \in entries, Failed(f, "silent") = Failed(e, "silent") PROVE f = e
      BY <3>2 DEF Failed, HInv, Books, AccountedOnce
    <3>3. Failed(e, "silent") \in reported' <=> Silent(e)
      BY <1>1, <3>1, <3>2
    <3>. QED
      BY <2>3, <3>3, SilentOverdue DEF Advance
  <2>. QED
    BY <1>3, <2>1, <2>2, <2>3 DEF HOnUt, OnUt
<1>4. CASE HWallPasses \/ HPingDue \/ \E path \in Paths : HOnDispatch(path)
  BY <1>2, <1>4 DEF HWallPasses, HPingDue, HOnDispatch, WallPasses, PingDue, OnDispatch, watching
<1>5. ASSUME NEW path \in Paths, NEW boot \in Boots \cup {None}, HOnDone(path, boot)
      PROVE  lastUt' = lastUt /\ reported' = reported
  BY <1>5 DEF HOnDone, OnDone
<1>6. ASSUME NEW boot \in Boots, NEW path \in Paths \cup {None},
             NEW active \in BOOLEAN, HOnHeartbeat(boot, path, active)
      PROVE  lastUt' = lastUt /\ reported' = reported
  BY <1>6 DEF HOnHeartbeat, OnHeartbeat
<1>. QED
  BY <1>2, <1>3, <1>4, <1>5, <1>6 DEF HNext

(* on_ut declares a run silent when, and only when, the game advanced and  *)
(* the run's own session went past the deadline without a beat.            *)
THEOREM OnlyTheQuietDie == HSpec => OnlyQuietDie
<1>1. HSpec => [][OnlyQuietDieStep]_hvars
  BY HInvAlways, StepOnlyQuietDie, PTL DEF HSpec
<1>. QED
  BY <1>1 DEF OnlyQuietDie, OnlyQuietDieStep
=============================================================================
