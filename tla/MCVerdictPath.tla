---------------------------- MODULE MCVerdictPath ----------------------------
(* Three events and one death of the daemon.  No definition of VerdictPath   *)
(* tells events apart and no liveness is checked, so TLC may permute them.   *)
EXTENDS VerdictPath, TLC

CONSTANTS e1, e2, e3

Symmetry == Permutations({e1, e2, e3})
=============================================================================
