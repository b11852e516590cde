------------------------------ MODULE MCBulkJobs ------------------------------
(* Bulk jobs on a small instance. *)
EXTENDS BulkJobs
=============================================================================
