------------------------------ MODULE BulkPromise ------------------------------
(***************************************************************************)
(* What a bulk deactivation or deletion promises the operator, whatever    *)
(* happens to the process and to the connection: each row of a job is      *)
(* carried out at most once, one row at a time, and what is told of it is  *)
(* true.  "unknown" is always a true answer, and the last one of its job.  *)
(* README.md:278-279 states it; BulkJobs implements it.                    *)
(*                                                                         *)
(* An exception nobody foresaw (a locked database) voids a part of the     *)
(* promise: a row that was carried out may then be told to have failed,    *)
(* and a row may be left under way.                                        *)
(***************************************************************************)
CONSTANTS
    Job,    \* bulk jobs
    Index   \* rows of a job

Slot == Job \X Index

VARIABLES
    told,   \* what the operator sees of each row
    done,   \* the rows Apple carried out
    broken  \* an unforeseen exception was raised

promise == <<told, done, broken>>

Status == {"queued", "running", "success", "failed", "unknown"}

PromiseInit ==
    /\ told = [s \in Slot |-> "queued"]
    /\ done = {}
    /\ broken = FALSE

Told(s, status) == told' = [told EXCEPT ![s] = status]

\* A row is begun when no other is under way, and none of its job is unknown.
Take(s) ==
    /\ told[s] = "queued" /\ \A i \in Index : told[<<s[1], i>>] # "unknown"
    /\ broken \/ \A t \in Slot : told[t] # "running"
    /\ Told(s, "running") /\ UNCHANGED <<done, broken>>

\* Apple carries it out; without an answer the row is given up at once.
CarryOut(s) ==
    /\ told[s] = "running" /\ s \notin done
    /\ done' = done \cup {s} /\ UNCHANGED broken
    /\ UNCHANGED told \/ Told(s, "unknown")

\* A row is put back only if nothing was done.
PutBack(s) ==
    /\ told[s] = "running" /\ s \notin done
    /\ Told(s, "queued") /\ UNCHANGED <<done, broken>>

Succeed(s) ==
    /\ told[s] = "running" /\ s \in done
    /\ Told(s, "success") /\ UNCHANGED <<done, broken>>

Fail(s) ==
    /\ told[s] \in {"queued", "running"} /\ s \notin done
    /\ Told(s, "failed") /\ UNCHANGED <<done, broken>>

\* Rows under way are given up: an answer is missing, or the process died.
GiveUp ==
    /\ \E S \in SUBSET {s \in Slot : told[s] = "running"} :
           told' = [s \in Slot |-> IF s \in S THEN "unknown" ELSE told[s]]
    /\ UNCHANGED <<done, broken>>

Break ==
    /\ broken' = TRUE /\ UNCHANGED done
    /\ UNCHANGED told \/ \E s \in Slot : told[s] \in {"queued", "running"} /\ Told(s, "failed")

PromiseNext ==
    \/ \E s \in Slot : Take(s) \/ CarryOut(s) \/ PutBack(s) \/ Succeed(s) \/ Fail(s)
    \/ GiveUp \/ Break

PromiseSpec == PromiseInit /\ [][PromiseNext]_promise
=============================================================================
