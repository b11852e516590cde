------------------------------ MODULE BatchJobs ------------------------------
(***************************************************************************)
(* The persistent create_aliases job: the worker thread of                 *)
(* icloud_gateway/jobs.py (BatchJobManager) and the batch tables of        *)
(* icloud_gateway/database.py, against the external Apple HME service.     *)
(*                                                                         *)
(* Every database transaction and every call to Apple is one step, so a    *)
(* crash, a stop request or a lost answer can fall between any two.  What  *)
(* a crash erases (pc, cur, cand, attempted, explicit, stopping) is kept   *)
(* apart from what it leaves (job, item, local, keyed, and Apple's remote).*)
(*                                                                         *)
(* Simplifications: labels, notes, audit rows and error texts carry no     *)
(* control and are left out; a wait that elapses is a free choice, because *)
(* nothing compares clocks; the two stop flags of jobs.py:158-159 are one; *)
(* the counters of a job are derived from its items, as                    *)
(* _refresh_batch_job_counts recomputes them in every writing transaction; *)
(* aliases are not deleted here: that is the bulk jobs' component.         *)
(***************************************************************************)
EXTENDS Naturals, FiniteSets

CONSTANTS
    NumJobs,            \* jobs, numbered in the order they are submitted
    NumItems,           \* aliases requested by each job
    Addr,               \* addresses Apple's generate call can suggest
    NoAddr,             \* no candidate saved, or no address
    MaxFaults,          \* bound: adverse answers of Apple in one behaviour
    MaxRestarts,        \* bound: crashes and stop requests in one behaviour
    UnexpectedErrors,   \* exceptions no handler names (a locked database, a
                        \* malformed 200 answer) may be raised
    ListMayTruncate     \* Apple's list may omit aliases without an error

ASSUME BoundsAssumption ==
    /\ NumJobs \in Nat \ {0}
    /\ NumItems \in Nat \ {0}
    /\ MaxFaults \in Nat
    /\ MaxRestarts \in Nat
ASSUME AddrAssumption == NoAddr \notin Addr
ASSUME SwitchAssumption ==
    /\ UnexpectedErrors \in BOOLEAN
    /\ ListMayTruncate \in BOOLEAN

Job == 1 .. NumJobs
Index == 1 .. NumItems
Slot == Job \X Index        \* a row of batch_job_items: (job_id, item_index)
NoSlot == <<0, 0>>

VARIABLES
    job,        \* batch_jobs.status of each job, "none" before it is submitted
    item,       \* the rows of batch_job_items
    remote,     \* Apple: the slot whose reserve created an address, or NoSlot
    local,      \* addresses with a row in the aliases table
    keyed,      \* local addresses for which an access key was issued
    pc,         \* where the worker thread stands, "down" when there is none
    cur,        \* the slot the worker is at: its job and its loop index
    cand,       \* the local variable `candidate` of _create_alias
    attempted,  \* its local variable `remote_write_attempted`
    explicit,   \* the failed reserve was an explicit rejection by Apple
    stopping,   \* request_stop has been called on this process
    faults,     \* adverse answers so far
    restarts,   \* crashes and stop requests so far
    slipped,    \* history: jobs a failed pause left queued under their worker
    forgotten   \* history: aliases Apple created whose row lost its candidate

durable == <<job, item, remote, local, keyed>>
volatile == <<pc, cur, cand, attempted, explicit, stopping>>
history == <<slipped, forgotten>>
vars == <<durable, volatile, faults, restarts, history>>

JobStatus == {"none", "queued", "running", "completed", "partial", "failed",
              "needs_reconcile"}
ItemStatus == {"queued", "running", "success", "failed", "unknown"}
Stage == {"queued", "generating", "generated", "reconciling", "reserving",
          "waiting_reconcile", "waiting_retry", "waiting_quota",
          "waiting_capacity", "completed", "failed", "unknown"}
Wait == {"none", "transient_error", "rate_limited", "capacity_reached"}
ItemRow == [status : ItemStatus, stage : Stage, cand : Addr \cup {NoAddr},
            flag : BOOLEAN, wait : Wait, alias : Addr \cup {NoAddr}]
PcState == {"down", "idle", "scan", "waiting", "expired", "prelude", "loaded",
            "generate", "snapshot", "fence", "reserve", "resnap", "upsert",
            "issue", "record", "audit", "fault", "pauseJob", "pauseAudit",
            "pauseFull", "parkJob", "parked", "halt", "next"}

-----------------------------------------------------------------------------
(* What is written into an item row.  flag is reconcile_before_reserve.    *)

NewItem == [status |-> "queued", stage |-> "queued", cand |-> NoAddr,
            flag |-> FALSE, wait |-> "none", alias |-> NoAddr]

StageOf(c, f) == IF f THEN "reconciling"
                 ELSE IF c # NoAddr THEN "generated" ELSE "queued"

\* _candidate_item: requeue the row with candidate c, dropping the wait.
CandidateItem(r, c, f) ==
    [r EXCEPT !.status = "queued", !.stage = StageOf(c, f), !.cand = c,
              !.flag = f, !.wait = "none"]

\* _pause_for_transient_retry on the row _candidate_item prepared.
RetryItem(r, c, f) ==
    [CandidateItem(r, c, f) EXCEPT
        !.stage = IF f THEN "waiting_reconcile" ELSE "waiting_retry",
        !.wait = "transient_error"]

\* _pause_for_rate_limit: a refused generate or reserve leaves no candidate.
LimitedItem(r) ==
    [CandidateItem(r, NoAddr, FALSE) EXCEPT !.stage = "waiting_quota",
                                            !.wait = "rate_limited"]

\* _pause_for_capacity.
CapacityItem(r) ==
    [CandidateItem(r, NoAddr, FALSE) EXCEPT !.stage = "waiting_capacity",
                                            !.wait = "capacity_reached"]

\* Mutant of ClearedItem: either wait drops the candidate.
ClearedItemDropped(r) == CandidateItem(r, NoAddr, FALSE)

\* _clear_rate_limit_wait and _clear_transient_wait.
ClearedItem(r) ==
    IF r.wait = "rate_limited" THEN CandidateItem(r, NoAddr, FALSE)
    ELSE CandidateItem(r, r.cand, r.flag)

\* The row while its generate or reserve call is in flight.
InFlight(r, stage) == [r EXCEPT !.status = "running", !.stage = stage]

\* The row of a candidate that must be looked up before anything else.
Reconciling(r) ==
    [r EXCEPT !.status = "queued", !.stage = "reconciling", !.flag = TRUE]

Succeeded(a) == [status |-> "success", stage |-> "completed", cand |-> NoAddr,
                 flag |-> FALSE, wait |-> "none", alias |-> a]

Settled(r, s) == [r EXCEPT !.status = s, !.stage = s]

Write(r) == item' = [item EXCEPT ![cur] = r]
SetJob(s) == job' = [job EXCEPT ![cur[1]] = s]
Goto(l) == pc' = l

-----------------------------------------------------------------------------
(* Submission, claiming and the loop over the items of a job.              *)

Init ==
    /\ job = [j \in Job |-> "none"]
    /\ item = [s \in Slot |-> NewItem]
    /\ remote = [a \in Addr |-> NoSlot]
    /\ local = {} /\ keyed = {}
    /\ pc = "down" /\ cur = NoSlot /\ cand = NoAddr
    /\ attempted = FALSE /\ explicit = FALSE /\ stopping = FALSE
    /\ faults = 0 /\ restarts = 0 /\ slipped = {} /\ forgotten = {}

\* create_alias_job.  A repeated idempotency key returns the existing job and
\* changes nothing: it is a stuttering step.
Submit(j) ==
    /\ job[j] = "none"
    /\ \A k \in Job : k < j => job[k] # "none"
    /\ job' = [job EXCEPT ![j] = "queued"]
    /\ UNCHANGED <<item, remote, local, keyed, volatile, faults, restarts, history>>

\* Mutant of RecoveredItem: every row that is not queued is taken for an
\* interrupted one.
RecoveredItemAny(r) ==
    IF r.status = "queued" THEN r
    ELSE IF r.cand # NoAddr THEN Reconciling(r)
    ELSE Settled(r, "unknown")

\* An interrupted row of the recovery transaction.
RecoveredItem(r) ==
    IF r.status # "running" THEN r
    ELSE IF r.stage = "generating"
         THEN [r EXCEPT !.status = "queued", !.stage = "queued"]
    ELSE IF r.cand # NoAddr
         THEN Reconciling(r)
    ELSE Settled(r, "unknown")

\* Mutants of RecoveredJob: a running job is left to a worker that is gone; a
\* running job is queued again whatever its rows say.
RecoveredJobKept(j) == job[j]
RecoveredJobAlways(j) == IF job[j] = "running" THEN "queued" ELSE job[j]

RecoveredJob(j) ==
    LET lost(i) == item[<<j, i>>].status = "running"
                       /\ RecoveredItem(item[<<j, i>>]).status = "unknown"
        unknown(i) == RecoveredItem(item[<<j, i>>]).status = "unknown"
    IN  IF \E i \in Index : lost(i) THEN "needs_reconcile"
        ELSE IF job[j] = "running" /\ ~\E i \in Index : unknown(i) THEN "queued"
        ELSE job[j]

\* start: take the owner lock, then recover_interrupted_batch_jobs.
Start ==
    /\ pc = "down"
    /\ job' = [j \in Job |-> RecoveredJob(j)]
    /\ item' = [s \in Slot |-> RecoveredItem(item[s])]
    /\ Goto("idle")
    /\ UNCHANGED <<remote, local, keyed, cur, cand, attempted, explicit,
                   stopping, faults, restarts, history>>

\* next_batch_job: the oldest queued job, claimed in one transaction.
Claim(j) ==
    /\ pc = "idle" /\ ~stopping
    /\ job[j] = "queued"
    /\ \A k \in Job : k < j => job[k] # "queued"
    /\ job' = [job EXCEPT ![j] = "running"]
    /\ cur' = <<j, 1>>
    /\ Goto("scan")
    /\ UNCHANGED <<item, remote, local, keyed, cand, attempted, explicit,
                   stopping, faults, restarts, history>>

\* The worker loop ends and the owner lock is released.
Exit ==
    /\ pc = "idle" /\ stopping
    /\ Goto("down")
    /\ cur' = NoSlot /\ cand' = NoAddr
    /\ attempted' = FALSE /\ explicit' = FALSE /\ stopping' = FALSE
    /\ UNCHANGED <<durable, faults, restarts, history>>

InRange == cur[2] <= NumItems
Row == item[cur]
Waiting(r) == r.wait \in {"rate_limited", "transient_error"}
kept == <<cand, attempted, explicit, stopping, faults, restarts, history>>
apple == <<remote, local, keyed>>

\* _run_job hands the job back and returns.
Requeue ==
    /\ SetJob("queued") /\ Goto("idle")
    /\ UNCHANGED <<item, apple, cur, kept>>

StopAtScan == pc = "scan" /\ InRange /\ stopping /\ Requeue

Advance ==
    /\ cur' = <<cur[1], cur[2] + 1>>
    /\ Goto("scan")
    /\ UNCHANGED <<durable, kept>>

SkipSettled ==
    /\ pc = "scan" /\ InRange /\ ~stopping
    /\ Row.status # "queued"
    /\ Advance

\* The row still waits: the job is shown as queued while the worker sleeps.
WaitForResume ==
    /\ pc = "scan" /\ InRange /\ ~stopping
    /\ Row.status = "queued" /\ Waiting(Row)
    /\ SetJob("queued") /\ Goto("waiting")
    /\ UNCHANGED <<item, apple, cur, kept>>

\* The wait of the row is already over.
WaitExpired ==
    /\ pc = "scan" /\ InRange /\ ~stopping
    /\ Row.status = "queued" /\ Waiting(Row)
    /\ SetJob("running") /\ Goto("expired")
    /\ UNCHANGED <<item, apple, cur, kept>>

\* _wait_for_resume interrupted by a stop.
WaitStopped == pc \in {"waiting", "parked"} /\ stopping /\ Requeue

\* Mutant of WaitOver: the loop goes on with the next row after a fresh wait.
WaitOverNext ==
    /\ pc \in {"waiting", "parked"} /\ ~stopping
    /\ SetJob("running")
    /\ Goto(IF pc = "waiting" THEN "expired" ELSE "next")
    /\ UNCHANGED <<item, apple, cur, kept>>

\* After a sleep at the top of the loop the wait is cleared at once; after one
\* taken by a fresh outcome the job is read again and the loop restarts.
WaitOver ==
    /\ pc \in {"waiting", "parked"} /\ ~stopping
    /\ SetJob("running")
    /\ Goto(IF pc = "waiting" THEN "expired" ELSE "scan")
    /\ UNCHANGED <<item, apple, cur, kept>>

ClearWait ==
    /\ pc = "expired"
    /\ Write(ClearedItem(Row))
    /\ Goto("scan")
    /\ UNCHANGED <<job, apple, cur, kept>>

RunItem ==
    /\ pc = "scan" /\ InRange /\ ~stopping
    /\ Row.status = "queued" /\ ~Waiting(Row)
    /\ cand' = NoAddr /\ attempted' = FALSE /\ explicit' = FALSE
    /\ Goto("prelude")
    /\ UNCHANGED <<durable, cur, stopping, faults, restarts, history>>

Successes(j) == {i \in Index : item[<<j, i>>].status = "success"}

Finish ==
    /\ pc = "scan" /\ ~InRange
    /\ SetJob(IF Successes(cur[1]) = Index THEN "completed"
              ELSE IF Successes(cur[1]) # {} THEN "partial" ELSE "failed")
    /\ Goto("idle")
    /\ UNCHANGED <<item, apple, cur, kept>>

-----------------------------------------------------------------------------
(* _create_alias: the prelude, before the saved candidate is loaded.       *)

Adverse == faults < MaxFaults /\ faults' = faults + 1
locals == <<cur, attempted, explicit, stopping, restarts>>
rest == <<locals, history>>

\* _pause_for_transient_retry parks the row first; l is where its second
\* transaction is taken, inside the try of _create_alias or in a handler.
Retry(c, f, l) ==
    /\ Write(RetryItem(Row, c, f))
    /\ Goto(l)
    /\ UNCHANGED <<job, apple, cand, locals, slipped>>

Pause(c, f) == Retry(c, f, "pauseJob") /\ UNCHANGED forgotten

\* Fresh session, remote write fence and client obtained; candidate loaded.
PreludeDone ==
    /\ pc = "prelude" /\ ~stopping
    /\ cand' = Row.cand
    /\ Goto(IF Row.cand = NoAddr THEN "loaded"
            ELSE IF Row.flag THEN "snapshot" ELSE "fence")
    /\ UNCHANGED <<durable, rest, faults>>

\* Mutant of StopItem: a reserve that may have been sent is not remembered.
StopItemUnflagged ==
    /\ stopping
    /\ Write(CandidateItem(Row, cand, FALSE))
    /\ Goto("next")
    /\ UNCHANGED <<job, apple, cand, locals, slipped, faults>>

\* The handler of GatewayStoppingError: the row is requeued with the local
\* candidate, to be reconciled if a reserve may have been sent for it.
StopItem ==
    /\ stopping
    /\ Write(CandidateItem(Row, cand, cand # NoAddr /\ (attempted \/ Row.flag)))
    /\ Goto("next")
    /\ UNCHANGED <<job, apple, cand, locals, slipped, faults>>

StopKept == StopItem /\ UNCHANGED forgotten

\* The handlers build the row from the local candidate, which the prelude has not
\* loaded: what the row holds is dropped, an alias Apple created for it included.
PreludeDrops ==
    /\ pc = "prelude"
    /\ forgotten' = forgotten \cup {a \in Addr : a = Row.cand /\ remote[a] = cur}

PreludeStopped == PreludeDrops /\ StopItem

PreludeUnreachable ==
    PreludeDrops /\ Adverse /\ Retry(cand, cand # NoAddr /\ Row.flag, "parkJob")

\* An exception that is neither a stop nor a network or session error, raised
\* before the reserve: the row fails, unless the process is stopping.
FailItem ==
    /\ IF stopping THEN UNCHANGED item ELSE Write(Settled(Row, "failed"))
    /\ Goto("next")
    /\ UNCHANGED <<job, apple, cand, rest>>

\* Another lifecycle operation holds the remote write fence.
PreludeBusy == pc = "prelude" /\ Adverse /\ FailItem

BeginGenerate ==
    /\ pc = "loaded"
    /\ Write(InFlight(Row, "generating"))
    /\ Goto("generate")
    /\ UNCHANGED <<job, apple, cand, rest, faults>>

-----------------------------------------------------------------------------
(* generate: Apple suggests an address that does not exist yet.            *)

Fresh(a) == remote[a] = NoSlot /\ \A s \in Slot : item[s].cand # a

GenerateOk(a) ==
    /\ pc = "generate" /\ Fresh(a)
    /\ cand' = a
    /\ Write(CandidateItem(Row, a, FALSE))
    /\ Goto("fence")
    /\ UNCHANGED <<job, apple, rest, faults>>

PauseForCapacity ==
    /\ Write(CapacityItem(Row)) /\ Goto("pauseFull")
    /\ UNCHANGED <<job, apple, cand, rest>>

PauseForRateLimit ==
    /\ Write(LimitedItem(Row)) /\ Goto("pauseJob")
    /\ UNCHANGED <<job, apple, cand, rest>>

GenerateFull == pc = "generate" /\ Adverse /\ PauseForCapacity
GenerateLimited == pc = "generate" /\ Adverse /\ PauseForRateLimit
GenerateUnreachable ==
    /\ pc = "generate" /\ Adverse
    /\ Retry(NoAddr, FALSE, "parkJob") /\ UNCHANGED forgotten
GenerateFails == pc = "generate" /\ Adverse /\ FailItem

-----------------------------------------------------------------------------
(* The read-only snapshot that resolves a candidate.                       *)

AppleLists == LET existing == {a \in Addr : remote[a] # NoSlot}
              IN  IF ListMayTruncate THEN SUBSET existing ELSE {existing}

\* Mutant of Absent: a list that omits known aliases is trusted.
AbsentTrusting(listed) == cand \notin listed

Found(listed) == cand \in listed
Absent(listed) == cand \notin listed /\ local \subseteq listed

Complete == Goto("upsert") /\ UNCHANGED <<durable, cand, rest, faults>>

SnapshotFound(listed) ==
    /\ pc = "snapshot" /\ ~stopping /\ Found(listed) /\ Complete

SnapshotAbsent(listed) ==
    /\ pc = "snapshot" /\ ~stopping /\ Absent(listed)
    /\ Write(CandidateItem(Row, cand, FALSE))
    /\ Goto("fence")
    /\ UNCHANGED <<job, apple, cand, rest, faults>>

\* The list fails, or omits an alias the database knows.
SnapshotUnavailable ==
    /\ pc = "snapshot" /\ ~stopping /\ Adverse /\ Pause(cand, TRUE)

SnapshotStopped == pc = "snapshot" /\ StopKept

-----------------------------------------------------------------------------
(* reserve: the only call that creates an alias at Apple.                  *)

FenceStopped == pc = "fence" /\ StopKept

BeginReserve ==
    /\ pc = "fence" /\ ~stopping
    /\ Write(InFlight(Row, "reserving"))
    /\ attempted' = TRUE
    /\ Goto("reserve")
    /\ UNCHANGED <<job, apple, cand, cur, explicit, stopping, restarts, faults,
                   history>>

\* Apple creates an address at most once; a repeated reserve changes nothing.
AppleCreates == remote' = [remote EXCEPT
                    ![cand] = IF remote[cand] = NoSlot THEN cur ELSE remote[cand]]
AppleMayCreate == AppleCreates \/ UNCHANGED remote

ReserveOk ==
    /\ pc = "reserve" /\ remote[cand] = NoSlot
    /\ AppleCreates
    /\ Goto("upsert")
    /\ UNCHANGED <<job, item, local, keyed, cand, rest, faults>>

ReserveFails(isExplicit) ==
    /\ pc = "reserve" /\ Adverse
    /\ AppleMayCreate
    /\ explicit' = isExplicit
    /\ Goto("resnap")
    /\ UNCHANGED <<job, item, local, keyed, cur, cand, attempted, stopping,
                   restarts, history>>

\* A network or session error: the answer is lost.
ReserveLost == ReserveFails(FALSE)
\* Any other HmeError: a rejection, or an answer that cannot be read.
ReserveRejected == ReserveFails(TRUE)
\* The capacity and quota answers mean that Apple did not create the alias.
ReserveFull == pc = "reserve" /\ Adverse /\ PauseForCapacity
ReserveLimited == pc = "reserve" /\ Adverse /\ PauseForRateLimit

ResnapFound(listed) ==
    /\ pc = "resnap" /\ ~stopping /\ Found(listed) /\ Complete

\* Apple rejected the reserve and the list confirms it: a new candidate is
\* generated next time.  After a lost answer the same candidate is kept.
ResnapAbsent(listed) ==
    /\ pc = "resnap" /\ ~stopping /\ Absent(listed)
    /\ IF explicit THEN Pause(NoAddr, FALSE) ELSE Pause(cand, TRUE)
    /\ UNCHANGED faults

\* Mutant of ResnapUnavailable: the candidate is given up.
ResnapUnavailableDropped ==
    /\ pc = "resnap" /\ ~stopping /\ Adverse /\ Pause(NoAddr, FALSE)

ResnapUnavailable ==
    /\ pc = "resnap" /\ ~stopping /\ Adverse /\ Pause(cand, TRUE)

ResnapStopped == pc = "resnap" /\ StopKept

-----------------------------------------------------------------------------
(* _complete_created_alias: three transactions and an audit row.           *)

\* Mutant of UpsertAlias: no access key is issued.
UpsertAliasOnly ==
    /\ pc = "upsert"
    /\ local' = local \cup {cand}
    /\ Goto("record")
    /\ UNCHANGED <<job, item, remote, keyed, cand, rest, faults>>

UpsertAlias ==
    /\ pc = "upsert"
    /\ local' = local \cup {cand}
    /\ Goto("issue")
    /\ UNCHANGED <<job, item, remote, keyed, cand, rest, faults>>

IssueKey ==
    /\ pc = "issue"
    /\ keyed' = keyed \cup {cand}
    /\ Goto("record")
    /\ UNCHANGED <<job, item, remote, local, cand, rest, faults>>

RecordSuccess ==
    /\ pc = "record"
    /\ Write(Succeeded(cand))
    /\ Goto("audit")
    /\ UNCHANGED <<job, apple, cand, rest, faults>>

Audit ==
    /\ pc = "audit"
    /\ Goto("next")
    /\ UNCHANGED <<durable, cand, rest, faults>>

-----------------------------------------------------------------------------
(* Exceptions no handler names.                                            *)

\* Raised by the reserve call or by any transaction of _create_alias, those of a
\* pause included: after its second one the job is queued and the worker goes on.
UnexpectedError ==
    /\ UnexpectedErrors /\ Adverse
    /\ pc \in {"loaded", "generate", "snapshot", "fence", "reserve", "resnap",
               "upsert", "issue", "record", "audit",
               "pauseJob", "pauseAudit", "pauseFull"}
    /\ IF pc = "reserve" THEN AppleMayCreate ELSE UNCHANGED remote
    /\ slipped' = slipped \cup {j \in Job : j = cur[1] /\ pc = "pauseAudit"}
    /\ Goto("fault")
    /\ UNCHANGED <<job, item, local, keyed, cand, locals, forgotten>>

\* Once the reserve was attempted its outcome is unknown.
MarkUnknown ==
    /\ pc = "fault" /\ attempted
    /\ Write(Settled(Row, "unknown"))
    /\ Goto("halt")
    /\ UNCHANGED <<job, apple, cand, rest, faults>>

MarkFailed == pc = "fault" /\ ~attempted /\ FailItem /\ UNCHANGED faults

\* A transaction of an exception handler or of _run_job fails in turn.
WorkerFailsSafely ==
    /\ UnexpectedErrors /\ Adverse
    /\ pc \in {"scan", "waiting", "expired", "fault", "parkJob", "parked", "halt",
               "next"}
    /\ SetJob("failed") /\ Goto("idle")
    /\ UNCHANGED <<item, apple, cand, rest>>

-----------------------------------------------------------------------------
(* What _run_job does with the outcome of an item.                         *)

\* A pause taken inside the try: the job, then the audit row.
PauseJob ==
    /\ pc = "pauseJob"
    /\ SetJob("queued") /\ Goto("pauseAudit")
    /\ UNCHANGED <<item, apple, cur, kept>>

PauseAudit ==
    /\ pc = "pauseAudit"
    /\ Goto("parked")
    /\ UNCHANGED <<durable, cur, kept>>

\* The audit row of a pause for capacity.
PauseFull ==
    /\ pc = "pauseFull"
    /\ Goto("halt")
    /\ UNCHANGED <<durable, cur, kept>>

\* A pause taken by an exception handler.
ParkJob ==
    /\ pc = "parkJob"
    /\ SetJob("queued") /\ Goto("parked")
    /\ UNCHANGED <<item, apple, cur, kept>>

\* capacity or unknown: automatic replay stops.
Halt ==
    /\ pc = "halt"
    /\ SetJob("needs_reconcile") /\ Goto("idle")
    /\ slipped' = slipped \ {cur[1]}
    /\ UNCHANGED <<item, apple, cur, cand, attempted, explicit, stopping, faults,
                   restarts, forgotten>>

NextItem ==
    /\ pc = "next"
    /\ IF stopping THEN Requeue ELSE Advance

-----------------------------------------------------------------------------
(* The environment: stop requests, crashes and the operator.               *)

\* A restart budget pays for a stop or a crash.
Interrupt == restarts < MaxRestarts /\ restarts' = restarts + 1

RequestStop ==
    /\ pc # "down" /\ ~stopping /\ Interrupt
    /\ stopping' = TRUE
    /\ UNCHANGED <<durable, pc, cur, cand, attempted, explicit, faults, history>>

\* A reserve request in flight may still be carried out.
Crash ==
    /\ pc # "down" /\ Interrupt
    /\ IF pc = "reserve" THEN AppleMayCreate ELSE UNCHANGED remote
    /\ Goto("down")
    /\ cur' = NoSlot /\ cand' = NoAddr
    /\ attempted' = FALSE /\ explicit' = FALSE /\ stopping' = FALSE
    /\ UNCHANGED <<job, item, local, keyed, faults, history>>

\* The remote write fence of GatewayService: held from PreludeDone until the
\* outcome of the item is returned.
Fenced == {"loaded", "generate", "snapshot", "fence", "reserve", "resnap",
           "upsert", "issue", "record", "audit", "fault", "pauseJob",
           "pauseAudit", "pauseFull", "parkJob"}

\* Maintenance, or an operator, reads Apple's list and commits it: the aliases
\* it names get a local row.  A snapshot never commits during a remote write.
SyncAliases(listed) ==
    /\ pc \notin Fenced
    /\ local' = local \cup listed
    /\ UNCHANGED <<job, item, remote, keyed, volatile, faults, restarts, history>>

UnknownItems(j) == {i \in Index : item[<<j, i>>].status = "unknown"}
Reconcilable(j) ==
    /\ UnknownItems(j) # {}
    /\ \A i \in UnknownItems(j) : item[<<j, i>>].cand # NoAddr

\* resume_reconcilable_create_job, called by an operator only.
Resume(j) ==
    /\ job[j] = "needs_reconcile" /\ Reconcilable(j)
    /\ job' = [job EXCEPT ![j] = "queued"]
    /\ item' = [s \in Slot |->
                  IF s[1] = j /\ item[s].status = "unknown"
                  THEN Reconciling(item[s])
                  ELSE item[s]]
    /\ UNCHANGED <<apple, volatile, faults, restarts, history>>

-----------------------------------------------------------------------------
Loop ==
    \/ \E j \in Job : Claim(j)
    \/ Exit \/ StopAtScan \/ SkipSettled \/ WaitForResume \/ WaitExpired
    \/ WaitStopped \/ WaitOver \/ ClearWait \/ RunItem \/ Finish
    \/ PauseJob \/ PauseAudit \/ PauseFull \/ ParkJob \/ Halt \/ NextItem

Prelude ==
    \/ PreludeDone \/ PreludeStopped \/ PreludeUnreachable \/ PreludeBusy
    \/ BeginGenerate

Generate ==
    \/ \E a \in Addr : GenerateOk(a)
    \/ GenerateFull \/ GenerateLimited \/ GenerateUnreachable \/ GenerateFails

Snapshot ==
    \/ \E listed \in AppleLists :
          \/ SnapshotFound(listed) \/ SnapshotAbsent(listed)
          \/ ResnapFound(listed) \/ ResnapAbsent(listed)
    \/ SnapshotUnavailable \/ SnapshotStopped
    \/ ResnapUnavailable \/ ResnapStopped

Reserve ==
    \/ FenceStopped \/ BeginReserve \/ ReserveOk \/ ReserveLost
    \/ ReserveRejected \/ ReserveFull \/ ReserveLimited

Completion ==
    \/ UpsertAlias \/ IssueKey \/ RecordSuccess \/ Audit
    \/ UnexpectedError \/ MarkUnknown \/ MarkFailed \/ WorkerFailsSafely

Worker == Loop \/ Prelude \/ Generate \/ Snapshot \/ Reserve \/ Completion

Environment ==
    \/ RequestStop \/ Crash
    \/ \E listed \in AppleLists : SyncAliases(listed)
    \/ \E j \in Job : Submit(j) \/ Resume(j)

Next == Start \/ Worker \/ Environment

Spec == Init /\ [][Next]_vars

\* The worker thread is scheduled, and docker restarts a process that ended
\* (docker-compose.yml: restart: unless-stopped).
Fairness == WF_vars(Worker) /\ WF_vars(Start)

FairSpec == Spec /\ Fairness
-----------------------------------------------------------------------------
(* Properties.                                                             *)

DurableTypeOK ==
    /\ job \in [Job -> JobStatus]
    /\ item \in [Slot -> ItemRow]
    /\ remote \in [Addr -> Slot \cup {NoSlot}]
    /\ local \in SUBSET Addr
    /\ keyed \in SUBSET Addr

VolatileTypeOK ==
    /\ pc \in PcState
    /\ cur \in (Job \X (1 .. NumItems + 1)) \cup {NoSlot}
    /\ cand \in Addr \cup {NoAddr}
    /\ faults \in Nat
    /\ restarts \in Nat

FlagTypeOK ==
    /\ attempted \in BOOLEAN
    /\ explicit \in BOOLEAN
    /\ stopping \in BOOLEAN

HistoryTypeOK ==
    /\ slipped \in SUBSET Job
    /\ forgotten \in SUBSET Addr

\* Every variable ranges over the values the code can give it.
TypeOK == DurableTypeOK /\ VolatileTypeOK /\ FlagTypeOK /\ HistoryTypeOK

\* A reserve request is never sent for a candidate Apple has already created,
\* whatever was lost, crashed, stopped or resumed before ("only when a trusted
\* snapshot misses the candidate is the same candidate retried", README.md:279).
NoRepeatedReserve == pc = "reserve" => remote[cand] = NoSlot

\* A row reported as a success names an alias that this row created at Apple,
\* that the database lists, and that has an access key.
SuccessBacked ==
    \A s \in Slot : item[s].status = "success" =>
        LET a == item[s].alias
        IN  a \in local /\ a \in keyed /\ remote[a] = s

\* An item that asks for one alias makes Apple create at most one, but for the
\* aliases whose candidate an interrupted prelude dropped.
OneAliasPerItem ==
    \A s \in Slot : \A a, b \in Addr \ forgotten :
        remote[a] = s /\ remote[b] = s => a = b

\* While a row is the only trace of an alias Apple created for it, only an
\* interrupted prelude at that row drops the candidate: any other retry,
\* recovery or resume leaves it in the row until it is the row's alias.
OnlyPreludeDrops ==
    [][\A s \in Slot :
          item[s].cand # NoAddr /\ remote[item[s].cand] = s =>
              \/ item'[s].cand = item[s].cand
              \/ item'[s].status = "success" /\ item'[s].alias = item[s].cand
              \/ pc = "prelude" /\ cur = s]_vars

\* While a row is the only trace of an alias Apple created for it, no step drops
\* the candidate (README.md:279): it stays in the row until it is the row's alias.
CreatedCandidateKept ==
    [][\A s \in Slot :
          item[s].cand # NoAddr /\ remote[item[s].cand] = s =>
              \/ item'[s].cand = item[s].cand
              \/ item'[s].status = "success" /\ item'[s].alias = item[s].cand]_vars

\* A job the worker would claim has no row whose outcome is unknown: an unknown
\* write stops the automatic replay until an operator resumes the job ("remote
\* write outcome is unknown; automatic replay stopped", jobs.py:752).  The
\* exception is a job that a failed pause left queued under the worker that
\* goes on with it, until that worker stops the job.
DoubtStopsReplay ==
    \A j \in Job : job[j] = "queued" /\ j \notin slipped => UnknownItems(j) = {}

\* A finished job has decided every row, and its verdict is theirs.
TerminalSettled ==
    \A j \in Job : job[j] \in {"completed", "partial", "failed"} =>
        /\ \A i \in Index : item[<<j, i>>].status \in {"success", "failed"}
        /\ job[j] = "completed" <=> Successes(j) = Index
        /\ job[j] = "failed" <=> Successes(j) = {}

\* While a worker lives, a job is shown as running only if that worker holds it
\* and a row is running only if it is the one the worker is at.
NoStrandedWork ==
    pc # "down" =>
        /\ \A j \in Job : job[j] = "running" => pc # "idle" /\ cur[1] = j
        /\ \A s \in Slot : item[s].status = "running" => cur = s

\* The mark that a candidate must be looked up before it is reserved is never
\* taken off a candidate the database lists as an alias, even when Apple's list
\* silently omits aliases: an incomplete list proves nothing.
KnownCandidateStaysMarked ==
    [][\A s \in Slot :
          item[s].flag /\ item[s].cand \in local
              /\ item'[s].cand = item[s].cand => item'[s].flag]_vars

\* While a worker lives, a job it does not hold whose unknown rows all have a
\* candidate is one the operator can resume ("Explicitly resume a stopped create
\* job when every unknown item has a candidate", database.py:1227).
StoppedJobResumable ==
    \A j \in Job :
        /\ pc # "down" /\ (pc = "idle" \/ cur[1] # j)
        /\ Reconcilable(j)
        => job[j] = "needs_reconcile"

\* Every queued job is eventually decided, or stopped for an operator, once
\* Apple answers and the process stays up.
JobsSettle ==
    \A j \in Job : job[j] = "queued" ~>
        job[j] \in {"completed", "partial", "failed", "needs_reconcile"}

-----------------------------------------------------------------------------
(* The strengthening that makes NoRepeatedReserve and SuccessBacked        *)
(* inductive (BatchJobsProofs).                                            *)

HoldsCandidate == {"snapshot", "fence", "reserve", "resnap", "upsert", "issue",
                   "record"}

\* Where the worker stands determines what its locals say of the row it is at.
WorkerPlace ==
    /\ pc \notin {"down", "idle"} => cur # NoSlot
    /\ pc \notin {"down", "idle", "scan"} => cur \in Slot

WorkerStatus ==
    /\ pc \in {"expired", "waiting", "prelude", "fence"} => Row.status = "queued"
    /\ pc = "reserve" => Row.status = "running" /\ Row.stage = "reserving"

WorkerCandidate ==
    /\ pc = "prelude" => cand = NoAddr
    /\ pc \in {"loaded", "generate"} => Row.cand = NoAddr
    /\ pc \in HoldsCandidate => cand # NoAddr /\ Row.cand = cand

WorkerFlag ==
    /\ pc = "snapshot" => Row.flag
    /\ pc = "fence" => ~Row.flag
    /\ pc \in {"reserve", "resnap"} => attempted

WorkerAlias ==
    /\ pc \in {"upsert", "issue", "record"} => remote[cand] = cur
    /\ pc \in {"issue", "record"} => cand \in local
    /\ pc = "record" => cand \in keyed

WorkerAt ==
    WorkerPlace /\ WorkerStatus /\ WorkerCandidate /\ WorkerFlag /\ WorkerAlias

\* No two rows hold the same candidate, and an address Apple created for a
\* candidate was created by the row that holds it.
CandidatesOwned ==
    /\ \A s, t \in Slot :
          item[s].cand # NoAddr /\ item[s].cand = item[t].cand => s = t
    /\ \A s \in Slot :
          item[s].cand # NoAddr => remote[item[s].cand] \in {s, NoSlot}

GeneratingHasNoCandidate ==
    \A s \in Slot : item[s].status = "running" /\ item[s].stage = "generating"
                        => item[s].cand = NoAddr

\* A queued candidate that would be reserved without reading Apple's list first
\* does not exist at Apple.
UnflaggedIsFree ==
    \A s \in Slot :
        item[s].status = "queued" /\ item[s].cand # NoAddr /\ ~item[s].flag
            => remote[item[s].cand] = NoSlot

RowsOK ==
    /\ CandidatesOwned
    /\ GeneratingHasNoCandidate
    /\ SuccessBacked
    /\ ~ListMayTruncate => UnflaggedIsFree

IInv ==
    /\ TypeOK
    /\ WorkerAt
    /\ RowsOK
    /\ ~ListMayTruncate => NoRepeatedReserve

-----------------------------------------------------------------------------
(* What DoubtStopsReplay, NoStrandedWork and TerminalSettled rest on.    *)

Held == pc \notin {"down", "idle"}

\* A worker shows the job it holds as running, or as queued while it waits; a
\* job that slipped may show either.
HeldJob ==
    Held => job[cur[1]] \in
                IF cur[1] \in slipped THEN {"queued", "running"}
                ELSE IF pc \in {"waiting", "parked", "pauseAudit"} THEN {"queued"}
                ELSE {"running"}

\* A job that may be claimed, or goes on, has no row in doubt.
NoDoubt ==
    \A j \in Job \ slipped :
        job[j] \in {"none", "queued"} \/ (Held /\ pc # "halt" /\ cur[1] = j)
            => UnknownItems(j) = {}

Unbegun ==
    \A j \in Job : job[j] = "none" => \A i \in Index : item[<<j, i>>].status = "queued"

\* A row is left running by a handler only when the process is stopping.
RunningPlace == {"generate", "reserve", "resnap", "upsert", "issue", "record"}

OneRunning ==
    pc # "down" => \A s \in Slot : item[s].status = "running" =>
        s = cur /\ (pc \in RunningPlace \/ (stopping /\ pc \in {"next", "idle"}))

OneHeld == pc # "down" => \A j \in Job : job[j] = "running" => Held /\ cur[1] = j

DoubtIsShown == \A j \in Job : UnknownItems(j) # {} => job[j] = "needs_reconcile"

\* The rows that the loop has passed are decided.
Decided(s) == item[s].status \in {"success", "failed"}

PassedDecided ==
    /\ Held => \A i \in Index : i < cur[2] => Decided(<<cur[1], i>>)
    /\ pc \in {"audit", "next"} => Decided(cur) \/ stopping

LoopInv ==
    /\ HeldJob /\ NoDoubt /\ Unbegun
    /\ ~UnexpectedErrors =>
           slipped = {} /\ pc # "fault" /\ OneRunning /\ OneHeld /\ DoubtIsShown /\ PassedDecided /\ TerminalSettled

-----------------------------------------------------------------------------
(* What OneAliasPerItem and OnlyPreludeDrops rest on.                      *)

\* A row has a candidate or an alias, not both; with an alias it is over.
CandidateOrAlias ==
    \A s \in Slot :
        /\ item[s].wait = "rate_limited" => item[s].cand = NoAddr
        /\ item[s].alias # NoAddr =>
               item[s].cand = NoAddr /\ item[s].status \notin {"queued", "running"}

AtWork == {"expired", "prelude", "loaded", "generate"} \cup HoldsCandidate

\* What Apple created for a row is its candidate or its alias, unless a prelude
\* dropped it.
CreatedIsNamed ==
    \A a \in Addr \ forgotten : remote[a] # NoSlot =>
        item[remote[a]].cand = a \/ item[remote[a]].alias = a

AliasInv ==
    /\ CandidateOrAlias
    /\ pc \in AtWork => Row.alias = NoAddr
    /\ ~ListMayTruncate => CreatedIsNamed

\* What is known of the worker, its tables and Apple at every step.
WorkerInv == IInv /\ LoopInv /\ AliasInv
=============================================================================
