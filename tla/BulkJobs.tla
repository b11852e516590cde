------------------------------- MODULE BulkJobs -------------------------------
(***************************************************************************)
(* Bulk deactivation and deletion: create_bulk_job, _bulk_alias and the    *)
(* worker loop of jobs.py, deactivate_alias and delete_alias of service.py *)
(* and the recovery of database.py, beside an operator who changes the     *)
(* same aliases from the console.                                          *)
(*                                                                         *)
(* Simplifications: the HME session, its refreshes and the fence of their  *)
(* lists are HmeSession's; here a refresh is one step (Sync) and a client  *)
(* error is a free choice.  The other bulk actions (issue, reveal) write   *)
(* nothing at Apple and are left out.  A repeated request with the same    *)
(* idempotency key finds its job and changes nothing.  Apple's list shows  *)
(* what Apple has.                                                         *)
(***************************************************************************)
EXTENDS Integers, FiniteSets

CONSTANTS
    NumJobs,      \* bound: bulk jobs, in the order they are submitted
    NumItems,     \* aliases of each job
    Alias,        \* the aliases
    MaxFaults,    \* bound: calls to Apple that go wrong
    MaxErrors,    \* bound: exceptions no handler names (a locked database)
    MaxOps,       \* bound: changes by the operator
    MaxRestarts   \* bound: crashes and stop requests

ASSUME BulkBoundsAssumption ==
    /\ NumJobs \in Nat \ {0} /\ NumItems \in Nat \ {0}
    /\ MaxFaults \in Nat /\ MaxErrors \in Nat /\ MaxOps \in Nat /\ MaxRestarts \in Nat

Job == 1 .. NumJobs
Index == 1 .. NumItems
Slot == Job \X Index
NoSlot == <<0, 0>>

VARIABLES
    job,       \* batch_jobs: status, action and the aliases of each
    item,      \* batch_job_items.status
    local,     \* the aliases table: the state of each, "gone" without a row
    remote,    \* Apple: the state of each alias
    pc,        \* where the worker stands, "down" without a process
    cur,       \* the row it is at
    stopping,  \* request_stop has been called
    console,   \* the operator's change under way, with the write lock: <<>>, or
               \* the alias and the action
    done,      \* history: the rows Apple has carried out
    faults, errors, ops, restarts

durable == <<job, item, local, remote, done>>
volatile == <<pc, cur, stopping, console>>
bounds == <<faults, errors, ops, restarts>>
vars == <<durable, volatile, bounds>>

State == {"active", "inactive", "gone"}
Action == {"deactivate", "delete"}
ConsoleAction == Action \cup {"reactivate"}
NoChange == <<>>
JobStatus == {"none", "queued", "running", "completed", "partial", "failed", "needs_reconcile"}
ItemStatus == {"queued", "running", "success", "failed", "unknown"}
Place == {"down", "idle", "scan", "check", "enter", "write", "confirm", "apply", "drop",
          "push", "record", "halt", "next"}

Required == [deactivate |-> "active", delete |-> "inactive"]
Target == [deactivate |-> "inactive", delete |-> "gone"]

Init ==
    /\ job = [j \in Job |-> [status |-> "none", action |-> "delete", ids |-> <<>>]]
    /\ item = [s \in Slot |-> "queued"]
    /\ local \in [Alias -> {"active", "inactive"}] /\ remote = local
    /\ pc = "down" /\ cur = NoSlot /\ stopping = FALSE /\ console = NoChange
    /\ done = {}
    /\ faults = 0 /\ errors = 0 /\ ops = 0 /\ restarts = 0

-----------------------------------------------------------------------------
Fault == faults < MaxFaults /\ faults' = faults + 1
Goto(l) == pc' = l
SetJob(status) == job' = [job EXCEPT ![cur[1]].status = status]

\* The alias of the row, what is to be done, and its states before and after.
This == job[cur[1]].ids[cur[2]]
Before == Required[job[cur[1]].action]
After == Target[job[cur[1]].action]

\* The row is told, and the loop goes on; or the job halts after "unknown".
Tell(status) ==
    /\ item' = [item EXCEPT ![cur] = status]
    /\ pc' = IF status = "unknown" THEN "halt" ELSE "next"

\* The local rows after a list of Apple's: a row that is not listed is inactive.
Listed == [a \in Alias |-> IF local[a] = "gone" THEN "gone"
                           ELSE IF remote[a] = "gone" THEN "inactive" ELSE remote[a]]

-----------------------------------------------------------------------------
(* The process, and the loop of the worker over the rows of a job.         *)

\* create_bulk_job: every alias is in the required state at that time.
Submit ==
    /\ pc # "down"
    /\ \E j \in Job, action \in Action, ids \in [Index -> Alias] :
           /\ job[j].status = "none" /\ \A k \in Job : k < j => job[k].status # "none"
           /\ \A i, k \in Index : ids[i] = ids[k] => i = k
           /\ \A i \in Index : local[ids[i]] = Required[action]
           /\ job' = [job EXCEPT ![j] = [status |-> "queued", action |-> action, ids |-> ids]]
    /\ UNCHANGED <<item, local, remote, done, volatile, bounds>>

\* A mutant of Recovered: a row under way is begun again.
RecoveredAgain(s) == IF item[s] = "running" THEN "queued" ELSE item[s]

\* The rows that were under way may have been carried out.
Recovered(s) == IF item[s] = "running" THEN "unknown" ELSE item[s]

\* A mutant of Resumed: a job is not queued again.
ResumedNever(j) ==
    IF \E i \in Index : item[<<j, i>>] = "running" THEN "needs_reconcile" ELSE job[j].status

\* A job that was running goes on, if none of its rows is in doubt.
Resumed(j) ==
    IF \E i \in Index : item[<<j, i>>] = "running" THEN "needs_reconcile"
    ELSE IF job[j].status = "running" /\ \A i \in Index : item[<<j, i>>] # "unknown"
    THEN "queued" ELSE job[j].status

\* recover_interrupted_batch_jobs, and the worker thread starts.
Start ==
    /\ pc = "down" /\ Goto("idle")
    /\ item' = [s \in Slot |-> Recovered(s)]
    /\ job' = [j \in Job |-> [job[j] EXCEPT !.status = Resumed(j)]]
    /\ UNCHANGED <<local, remote, done, cur, stopping, console, bounds>>

\* next_batch_job: the oldest one that is queued.
Claim ==
    /\ pc = "idle" /\ ~stopping
    /\ \E j \in Job :
           /\ job[j].status = "queued" /\ \A k \in Job : k < j => job[k].status # "queued"
           /\ job' = [job EXCEPT ![j].status = "running"] /\ cur' = <<j, 1>>
    /\ Goto("scan")
    /\ UNCHANGED <<item, local, remote, done, stopping, console, bounds>>

\* The top of the loop: a stop requeues the job, a row that is not queued is
\* passed over.
Scan ==
    /\ pc = "scan" /\ cur[2] \in Index
    /\ \/ stopping /\ SetJob("queued") /\ Goto("idle") /\ UNCHANGED cur
       \/ ~stopping /\ item[cur] # "queued" /\ cur' = <<cur[1], cur[2] + 1>> /\ UNCHANGED <<job, pc>>
       \/ ~stopping /\ item[cur] = "queued" /\ Goto("check") /\ UNCHANGED <<job, cur>>
    /\ UNCHANGED <<item, local, remote, done, stopping, console, bounds>>

\* After the last row.
Complete ==
    /\ pc = "scan" /\ cur[2] \notin Index /\ Goto("idle")
    /\ LET succeeded == {i \in Index : item[<<cur[1], i>>] = "success"}
       IN SetJob(IF succeeded = Index THEN "completed"
                 ELSE IF succeeded # {} THEN "partial" ELSE "failed")
    /\ UNCHANGED <<item, local, remote, done, cur, stopping, console, bounds>>

\* A row was told: "unknown" ends the job, a stop requeues it.
Halt ==
    /\ pc = "halt" /\ SetJob("needs_reconcile") /\ Goto("idle")
    /\ UNCHANGED <<item, local, remote, done, cur, stopping, console, bounds>>

\* A mutant of Following: the row after the next one.
FollowingButOne == <<cur[1], cur[2] + 2>>
Following == <<cur[1], cur[2] + 1>>

Proceed ==
    /\ pc = "next"
    /\ \/ stopping /\ SetJob("queued") /\ Goto("idle") /\ UNCHANGED cur
       \/ ~stopping /\ cur' = Following /\ Goto("scan") /\ UNCHANGED job
    /\ UNCHANGED <<item, local, remote, done, stopping, console, bounds>>

-----------------------------------------------------------------------------
(* One row: _bulk_alias, and the lifecycle call of the service.            *)

Check ==
    /\ pc = "check"
    /\ \/ stopping /\ Tell("queued")
       \/ ~stopping /\ local[This] # Before /\ Tell("failed")
       \/ ~stopping /\ local[This] = Before
          /\ item' = [item EXCEPT ![cur] = "running"] /\ Goto("enter")
    /\ UNCHANGED <<job, local, remote, done, cur, stopping, console, bounds>>

\* A mutant of Open: the state that was checked before is trusted.
OpenUnchecked == ~stopping /\ console = NoChange

\* _begin_remote_write and _remote_alias: the write lock, and the state again.
Open == ~stopping /\ console = NoChange /\ local[This] = Before

\* A session that cannot be refreshed is a GatewayError or an HmeError: unknown.
\* So is another lifecycle call under way, GatewayBusyError.  A row that is gone
\* (NotFoundError) or in another state (ConflictError) fails.
Enter ==
    /\ pc = "enter"
    /\ \/ stopping /\ Tell("queued") /\ UNCHANGED faults
       \/ ~stopping /\ Fault /\ Tell("unknown")
       \/ ~stopping /\ console # NoChange /\ Tell("unknown") /\ UNCHANGED faults
       \/ ~stopping /\ console = NoChange /\ local[This] # Before
          /\ Tell("failed") /\ UNCHANGED faults
       \/ Open /\ Goto("write") /\ UNCHANGED <<item, faults>>
    /\ UNCHANGED <<job, local, remote, done, cur, stopping, console, errors, ops, restarts>>

\* An alias that is so already stays so, and the row is done.
CarriedOut ==
    /\ remote[This] \in {Before, After}
    /\ remote' = [remote EXCEPT ![This] = After] /\ done' = done \cup {cur}

\* Apple carries it out and answers; or refuses it; or the session is rejected
\* before (GatewayRetryableError); or the answer does not come, or is wrong.
Write ==
    /\ pc = "write"
    /\ \/ CarriedOut /\ Goto("confirm") /\ UNCHANGED <<item, faults>>
       \/ CarriedOut /\ Fault /\ Tell("unknown")
       \/ /\ UNCHANGED <<remote, done>>
          /\ \/ remote[This] # Before /\ Tell("unknown") /\ UNCHANGED faults
             \/ Fault /\ Tell("failed")
             \/ Fault /\ Tell("unknown")
             \/ remote[This] # After /\ Fault /\ Goto("confirm") /\ UNCHANGED item
    /\ UNCHANGED <<job, local, cur, stopping, console, errors, ops, restarts>>

\* The fresh list shows the alias as it should be.
Confirmed == remote[This] = After

\* _confirmed_remote_aliases.
Confirm ==
    /\ pc = "confirm"
    /\ \/ Confirmed /\ Goto("apply") /\ UNCHANGED <<item, faults>>
       \/ ~Confirmed /\ Tell("unknown") /\ UNCHANGED faults
       \/ Fault /\ Tell("unknown")
    /\ UNCHANGED <<job, local, remote, done, cur, stopping, console, errors, ops, restarts>>

\* The list is stored; ...
Apply ==
    /\ pc = "apply" /\ local' = Listed
    /\ Goto(IF After = "gone" THEN "drop" ELSE "push")
    /\ UNCHANGED <<job, item, remote, done, cur, stopping, console, bounds>>

\* ... a deleted alias loses its row; ...
Drop ==
    /\ pc = "drop" /\ local' = [local EXCEPT ![This] = "gone"] /\ Goto("push")
    /\ UNCHANGED <<job, item, remote, done, cur, stopping, console, bounds>>

\* ... the edge is told, GatewayEdgeSyncError if that fails; the lock is released.
Push ==
    /\ pc = "push"
    /\ \/ Goto("record") /\ UNCHANGED <<item, faults>>
       \/ Fault /\ Tell("unknown")
    /\ UNCHANGED <<job, local, remote, done, cur, stopping, console, errors, ops, restarts>>

Record ==
    /\ pc = "record" /\ Tell("success")
    /\ UNCHANGED <<job, local, remote, done, cur, stopping, console, bounds>>

\* An exception no handler names: the row is failed, or that cannot be written
\* either and the worker gives up the job; so it does between two rows.
Unexpected ==
    /\ errors < MaxErrors /\ errors' = errors + 1
    /\ \/ /\ pc \in {"check", "enter", "confirm", "apply", "drop", "push", "record"}
          /\ Tell("failed") /\ UNCHANGED job
       \/ /\ pc \notin {"down", "idle"} /\ SetJob("failed") /\ Goto("idle") /\ UNCHANGED item
    /\ UNCHANGED <<local, remote, done, cur, stopping, console, faults, ops, restarts>>

-----------------------------------------------------------------------------
(* Around the worker.                                                      *)

\* The gateway's write lock is the worker's between begin and finish.
WorkerWrites == pc \in {"write", "confirm", "apply", "drop", "push"}

\* The operator deactivates, reactivates or deletes an alias, with the lock.
ConsoleWrite ==
    /\ pc # "down" /\ ~stopping /\ console = NoChange /\ ~WorkerWrites
    /\ ops < MaxOps /\ ops' = ops + 1
    /\ \E a \in Alias, action \in ConsoleAction :
           /\ local[a] = (IF action = "deactivate" THEN "active" ELSE "inactive")
           /\ remote[a] = local[a]
           /\ remote' = [remote EXCEPT ![a] = CASE action = "deactivate" -> "inactive"
                                                [] action = "delete" -> "gone"
                                                [] OTHER -> "active"]
           /\ console' = <<a, action>>
    /\ UNCHANGED <<job, item, local, done, pc, cur, stopping, faults, errors, restarts>>

\* It cannot be confirmed; or its list is stored; or the row is deleted after that.
ConsoleEnds ==
    /\ console # NoChange /\ console' = NoChange
    /\ \/ UNCHANGED local
       \/ local' = Listed
       \/ console[2] = "delete" /\ local' = [Listed EXCEPT ![console[1]] = "gone"]
    /\ UNCHANGED <<job, item, remote, done, pc, cur, stopping, bounds>>

\* A refresh stores Apple's list; one that meets a write is refused (HmeSession).
Sync ==
    /\ pc # "down" /\ console = NoChange /\ ~WorkerWrites /\ local' = Listed
    /\ UNCHANGED <<job, item, remote, done, volatile, bounds>>

RequestStop ==
    /\ pc # "down" /\ ~stopping /\ stopping' = TRUE
    /\ restarts < MaxRestarts /\ restarts' = restarts + 1
    /\ UNCHANGED <<durable, pc, cur, console, faults, errors, ops>>

\* The worker ends after a stop, or the process dies anywhere.
Down == pc' = "down" /\ cur' = NoSlot /\ stopping' = FALSE /\ console' = NoChange

Exit == pc = "idle" /\ stopping /\ Down /\ UNCHANGED <<durable, bounds>>

Crash ==
    /\ pc # "down" /\ restarts < MaxRestarts /\ restarts' = restarts + 1 /\ Down
    /\ UNCHANGED <<durable, faults, errors, ops>>

-----------------------------------------------------------------------------
Worker ==
    \/ Claim \/ Scan \/ Complete \/ Halt \/ Proceed
    \/ Check \/ Enter \/ Write \/ Confirm \/ Apply \/ Drop \/ Push \/ Record

Next ==
    \/ Start \/ Exit \/ Worker
    \/ Submit \/ Unexpected
    \/ ConsoleWrite \/ ConsoleEnds \/ Sync
    \/ RequestStop \/ Crash

Spec == Init /\ [][Next]_vars

\* The worker is a thread that runs, and the process is started again.
FairSpec == Spec /\ WF_vars(Worker) /\ WF_vars(Start \/ Exit)
-----------------------------------------------------------------------------
(* Properties.                                                             *)

JobRow == [status : JobStatus, action : Action, ids : [Index -> Alias] \cup {<<>>}]

TypeOK ==
    /\ job \in [Job -> JobRow] /\ item \in [Slot -> ItemStatus]
    /\ \A j \in Job : job[j].status # "none" => job[j].ids \in [Index -> Alias]
    /\ local \in [Alias -> State] /\ remote \in [Alias -> State]
    /\ pc \in Place /\ cur \in (Job \X (1 .. NumItems + 1)) \cup {NoSlot}
    /\ stopping \in BOOLEAN /\ console \in (Alias \X ConsoleAction) \cup {NoChange}
    /\ done \subseteq Slot
    /\ faults \in Nat /\ errors \in Nat /\ ops \in Nat /\ restarts \in Nat

\* What an operator is promised, BulkPromise, is what the worker does: each row
\* is carried out at most once, one at a time, told truly, and nothing of a job
\* follows an unknown row, through stops, crashes, lost answers and the changes
\* made from the console.
Promise ==
    INSTANCE BulkPromise WITH told <- item, broken <- errors > 0

Promised == Promise!PromiseSpec

\* A lifecycle write is begun with the alias in the required state, also when
\* the operator changed it after the job was submitted and after it was checked.
WritesRequiredState == pc = "write" => local[This] = Before /\ console = NoChange

\* What the worker relies on: where it stands, ...
Busy == pc \in {"enter", "write", "confirm", "apply", "drop", "push", "record"}
AtRow == Busy \/ pc \in {"check", "halt", "next"}

Placed ==
    /\ pc \notin {"down", "idle"} =>
           cur \in Job \X (1 .. NumItems + 1) /\ job[cur[1]].status = "running"
    /\ AtRow => cur \in Slot
    /\ Busy => item[cur] = "running"
    /\ pc = "check" => item[cur] = "queued"

\* ... that no row but its own is under way, until an exception breaks that, ...
OneUnderWay ==
    errors = 0 => \A s \in Slot : item[s] = "running" => pc = "down" \/ (Busy /\ s = cur)

\* ... what Apple has carried out, ...
DoneKnown ==
    /\ \A s \in Slot : item[s] = "queued" => s \notin done
    /\ pc \in {"enter", "write"} => cur \notin done
    /\ pc \in {"apply", "drop", "push", "record"} => cur \in done
    /\ pc = "confirm" /\ remote[This] = After => cur \in done

\* ... and that a job that is queued, or goes on, has no row in doubt.
GoesOn(j) == job[j].status = "queued" \/ (cur[1] = j /\ pc \notin {"down", "idle", "halt"})

DoubtStops ==
    \A j \in Job, i \in Index :
        /\ GoesOn(j) => item[<<j, i>>] # "unknown"
        /\ job[j].status = "none" => item[<<j, i>>] = "queued"

\* The inductive invariant, from which the promise follows step by step.
IInv == TypeOK /\ Placed /\ OneUnderWay /\ DoneKnown /\ DoubtStops /\ WritesRequiredState

\* Every job that is submitted ends or waits for the operator; one that a crash
\* left running with an unknown row keeps its status (database.py:1205).
BulkEnds ==
    \A j \in Job : job[j].status = "queued" ~>
        \/ job[j].status \in {"completed", "partial", "failed", "needs_reconcile"}
        \/ job[j].status = "running" /\ \E i \in Index : item[<<j, i>>] = "unknown"
=============================================================================
