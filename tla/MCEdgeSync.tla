------------------------------ MODULE MCEdgeSync ------------------------------
(* Instances of EdgeSync for the runs.                                     *)
EXTENDS EdgeSync
=============================================================================
