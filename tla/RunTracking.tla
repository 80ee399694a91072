----------------------------- MODULE RunTracking -----------------------------
(***************************************************************************)
(* What the script watchdog promises (src/src/script_watchdog.rs:1-16):    *)
(* every run sent to kOS is watched until exactly one thing becomes of it, *)
(* for good.  A script_done settles one run.  Silence fails some of those  *)
(* watched, a loaded save all of them together and the link with them.     *)
(***************************************************************************)
CONSTANT Runs

VARIABLES
  fate,  \* per run: unsent, watched, done, or the reason of its failure
  up     \* the dispatcher of the active vessel answers

vars == <<fate, up>>

Watched == {r \in Runs : fate[r] = "watched"}
Becomes(S, end) == fate' = [r \in Runs |-> IF r \in S THEN end ELSE fate[r]]

Init == fate = [r \in Runs |-> "unsent"] /\ up = FALSE

Send == \E r \in Runs : fate[r] = "unsent" /\ Becomes({r}, "watched") /\ UNCHANGED up
Settle == \E r \in Watched : Becomes({r}, "done") /\ UNCHANGED up
Answer == up' = TRUE /\ UNCHANGED fate
FallSilent == (up' => up) /\ \E S \in SUBSET Watched : Becomes(S, "silent")
Load == up' = FALSE /\ Becomes(Watched, "rewind")

Next == FallSilent \/ Answer \/ Load \/ Settle \/ Send

Spec == Init /\ [][Next]_vars
===============================================================================
