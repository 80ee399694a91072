------------------------------ MODULE MCMcClaim ------------------------------
(* Three CPUs on two vessels, which may meet and part.                                      *)
EXTENDS McClaim

CONSTANTS c1, c2, c3, v1, v2

MCCpus == {c1, c2, c3}
MCVessels == {v1, v2}
===============================================================================
