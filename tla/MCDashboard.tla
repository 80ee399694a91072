---------------------------- MODULE MCDashboard -----------------------------
(* One or two browsers; the cfg files choose the depths and the faults.    *)
EXTENDS Dashboard

CONSTANTS b1, b2, launch, maneuver

OneClient == {b1}
TwoClients == {b1, b2}
OneScript == {launch}
TwoScripts == {launch, maneuver}
=============================================================================
