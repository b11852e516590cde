----------------------------- MODULE MCBatchJobs -----------------------------
(* Model values and symmetry for the runs of BatchJobs.                    *)
EXTENDS BatchJobs, TLC

\* Addresses are interchangeable: nothing compares them but for equality.
AddrSymmetry == Permutations(Addr)
=============================================================================
