----------------------------- MODULE MCHmeSession -----------------------------
(* Instances of HmeSession for the runs.                                   *)
EXTENDS HmeSession

CONSTANTS console, maintenance, worker, a1
=============================================================================
