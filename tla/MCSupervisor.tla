---------------------------- MODULE MCSupervisor -----------------------------
(* The durations of krpc.rs, in seconds.                                   *)
EXTENDS Supervisor
=============================================================================
