---------------------------- MODULE BulkJobsProofs ----------------------------
(***************************************************************************)
(* Theorems about BulkJobs, for every number of jobs and rows, every set   *)
(* of aliases and every bound: IInv is an invariant, and every step of the *)
(* worker and of what is around it is a step of BulkPromise, or changes    *)
(* nothing that was promised.  One lemma for each action shows both.       *)
(***************************************************************************)
EXTENDS BulkJobs, TLAPS

\* A step that keeps the promise.
Kept == Promise!PromiseNext \/ UNCHANGED Promise!promise

-----------------------------------------------------------------------------
(* What the operators of BulkJobs return.                                  *)

\* Where the worker stands at a row, the row's job and alias are there.
LEMMA Here ==
    ASSUME TypeOK, Placed, AtRow
    PROVE  /\ cur \in Slot /\ cur[1] \in Job /\ cur[2] \in Index /\ cur = <<cur[1], cur[2]>>
           /\ cur # NoSlot
           /\ job[cur[1]] \in JobRow /\ job[cur[1]].status = "running"
           /\ This \in Alias /\ Before \in {"active", "inactive"} /\ After \in State
<1>1. cur \in Slot /\ cur[1] \in Job /\ cur[2] \in Index /\ cur = <<cur[1], cur[2]>>
    BY DEF Placed, Slot
<1>2. pc \notin {"down", "idle"}
    BY DEF AtRow, Busy
<1>3. job[cur[1]] \in JobRow /\ job[cur[1]].status = "running"
    BY <1>1, <1>2 DEF TypeOK, Placed
<1>4. job[cur[1]].ids \in [Index -> Alias]
    BY <1>1, <1>3 DEF TypeOK
<1>5. job[cur[1]].action \in {"deactivate", "delete"}
    BY <1>3 DEF JobRow, Action
<1>6. This \in Alias
    BY <1>1, <1>4 DEF This
<1>7. Before \in {"active", "inactive"}
    BY <1>5 DEF Before, Required
<1>8. After \in State
    BY <1>5 DEF After, Target, State
<1>9. cur # NoSlot
    BY <1>1, BulkBoundsAssumption DEF NoSlot, Job
<1> QED BY <1>1, <1>3, <1>6, <1>7, <1>8, <1>9

\* Tell changes the worker's row only, and halts after "unknown" only.
LEMMA TellFacts ==
    ASSUME TypeOK, cur \in Slot, NEW status \in ItemStatus, Tell(status)
    PROVE  /\ item' \in [Slot -> ItemStatus]
           /\ item'[cur] = status
           /\ \A s \in Slot \ {cur} : item'[s] = item[s]
           /\ pc' \in {"halt", "next"} /\ (pc' = "halt" <=> status = "unknown")
BY DEF TypeOK, Tell

\* A list of Apple's gives every row a state.
LEMMA ListedType ==
    ASSUME TypeOK
    PROVE  Listed \in [Alias -> State]
BY DEF TypeOK, Listed, State

-----------------------------------------------------------------------------
(* The steps that tell a row what became of it have this in common.        *)

LEMMA TellKeepsInvariant ==
    ASSUME IInv, Busy \/ pc = "check",
           NEW status \in ItemStatus \ {"running"}, Tell(status),
           UNCHANGED <<job, local, cur, stopping, console, ops, restarts>>,
           remote' \in [Alias -> State], faults' \in Nat, errors' \in Nat,
           errors' = 0 => errors = 0,
           done' \in {done, done \cup {cur}},
           status = "queued" => cur \notin done'
    PROVE  IInv'
<1> USE DEF IInv
<1>1. AtRow
    BY DEF AtRow
<1>2. /\ cur \in Slot /\ cur[1] \in Job /\ cur[2] \in Index
      /\ job[cur[1]].status = "running"
    BY <1>1, Here
<1>3. /\ item' \in [Slot -> ItemStatus] /\ item'[cur] = status
      /\ \A s \in Slot \ {cur} : item'[s] = item[s]
      /\ pc' \in {"halt", "next"} /\ (pc' = "halt" <=> status = "unknown")
    BY <1>2, TellFacts
<1>4. TypeOK'
    BY <1>2, <1>3 DEF TypeOK, Place
<1>5. Placed'
    BY <1>2, <1>3 DEF Placed, AtRow, Busy, Slot, Job, Index
<1>6. OneUnderWay'
    BY <1>3 DEF OneUnderWay, Busy
<1>7. DoneKnown'
    BY <1>2, <1>3 DEF DoneKnown
<1>8. DoubtStops'
    <2> SUFFICES ASSUME NEW j \in Job, NEW i \in Index
                 PROVE  /\ GoesOn(j)' => item'[<<j, i>>] # "unknown"
                        /\ job'[j].status = "none" => item'[<<j, i>>] = "queued"
        BY DEF DoubtStops
    <2>1. <<j, i>> \in Slot
        BY DEF Slot
    <2>2. CASE <<j, i>> = cur
        BY <1>2, <1>3, <2>2 DEF GoesOn
    <2>3. CASE <<j, i>> # cur
        <3>1. item'[<<j, i>>] = item[<<j, i>>]
            BY <1>3, <2>1, <2>3
        <3>2. GoesOn(j)' => GoesOn(j)
            BY <1>3 DEF GoesOn, Busy
        <3> QED BY <3>1, <3>2 DEF DoubtStops
    <2> QED BY <2>2, <2>3
<1>9. WritesRequiredState'
    BY <1>3 DEF WritesRequiredState
<1> QED BY <1>4, <1>5, <1>6, <1>7, <1>8, <1>9

\* The promise's view of a row that is told, without a change at Apple.
LEMMA TellKeepsPromise ==
    ASSUME IInv, Busy \/ pc = "check", NEW status \in ItemStatus, Tell(status),
           UNCHANGED <<done, errors>>,
           \/ status = item[cur]
           \/ status \in {"queued", "unknown"} /\ Busy /\ (status = "queued" => cur \notin done)
           \/ status = "failed" /\ cur \notin done
           \/ status = "success" /\ Busy /\ cur \in done
    PROVE  Kept
<1> USE DEF IInv
<1>1. AtRow
    BY DEF AtRow
<1>2. cur \in Slot /\ item \in [Slot -> ItemStatus]
    BY <1>1, Here DEF TypeOK
<1>3. item' = [item EXCEPT ![cur] = status]
    BY DEF Tell
<1>4. cur \in Promise!Slot /\ Slot = Promise!Slot
    BY <1>2 DEF Slot, Promise!Slot
<1>5. item[cur] \in {"queued", "running"} /\ (Busy => item[cur] = "running")
    BY DEF Placed
<1>6. UNCHANGED <<done, errors > 0>>
    OBVIOUS
<1>7. CASE status = item[cur]
    <2>1. item' = item
        BY <1>2, <1>3, <1>7
    <2> QED BY <2>1, <1>6 DEF Kept, Promise!promise
<1>8. CASE status = "queued" /\ Busy /\ cur \notin done
    <2>1. Promise!PutBack(cur)
        BY <1>2, <1>3, <1>5, <1>6, <1>8 DEF Promise!PutBack, Promise!Told
    <2> QED BY <1>4, <2>1 DEF Kept, Promise!PromiseNext
<1>9. CASE status = "unknown" /\ Busy
    <2>1. cur \in {s \in Promise!Slot : item[s] = "running"}
        BY <1>4, <1>5, <1>9
    <2>2. item' = [s \in Promise!Slot |-> IF s \in {cur} THEN "unknown" ELSE item[s]]
        BY <1>2, <1>3, <1>4, <1>9
    <2>3. Promise!GiveUp
        BY <2>1, <2>2, <1>6 DEF Promise!GiveUp
    <2> QED BY <2>3 DEF Kept, Promise!PromiseNext
<1>10. CASE status = "failed" /\ cur \notin done
    <2>1. Promise!Fail(cur)
        BY <1>2, <1>3, <1>5, <1>6, <1>10 DEF Promise!Fail, Promise!Told
    <2> QED BY <1>4, <2>1 DEF Kept, Promise!PromiseNext
<1>11. CASE status = "success" /\ Busy /\ cur \in done
    <2>1. Promise!Succeed(cur)
        BY <1>2, <1>3, <1>5, <1>6, <1>11 DEF Promise!Succeed, Promise!Told
    <2> QED BY <1>4, <2>1 DEF Kept, Promise!PromiseNext
<1> QED BY <1>7, <1>8, <1>9, <1>10, <1>11

\* A step that leaves the rows, Apple's deeds and the exceptions alone.
LEMMA StutterKeepsPromise ==
    ASSUME UNCHANGED <<item, done, errors>>
    PROVE  Kept
BY DEF Kept, Promise!promise

-----------------------------------------------------------------------------
(* The process, and the loop over the rows.                                *)

\* SetJob changes the status of the worker's job only.
LEMMA SetJobFacts ==
    ASSUME TypeOK, cur[1] \in Job, job[cur[1]].status # "none",
           NEW status \in JobStatus \ {"none"}, SetJob(status)
    PROVE  /\ job' \in [Job -> JobRow]
           /\ job'[cur[1]].status = status
           /\ \A j \in Job \ {cur[1]} : job'[j] = job[j]
           /\ \A j \in Job : job'[j].status # "none" => job'[j].ids \in [Index -> Alias]
           /\ \A j \in Job : job'[j].status = "none" => job[j].status = "none"
<1>1. job \in [Job -> JobRow] /\ job[cur[1]] \in JobRow
    BY DEF TypeOK
<1>2. job' = [job EXCEPT ![cur[1]] = [job[cur[1]] EXCEPT !.status = status]]
    BY DEF SetJob
<1> DEFINE row == [job[cur[1]] EXCEPT !.status = status]
<1>3. row \in JobRow /\ row.status = status /\ row.ids = job[cur[1]].ids
    BY <1>1 DEF JobRow
<1>4. job[cur[1]].ids \in [Index -> Alias]
    BY DEF TypeOK
<1>5. job' = [job EXCEPT ![cur[1]] = row]
    BY <1>2
<1> HIDE DEF row
<1> QED BY <1>1, <1>3, <1>4, <1>5 DEF TypeOK

LEMMA SubmitKeeps ==
    ASSUME IInv, Submit
    PROVE  IInv' /\ Kept
<1> USE DEF IInv
<1>1. PICK j \in Job, action \in Action, ids \in [Index -> Alias] :
          /\ job[j].status = "none" /\ \A k \in Job : k < j => job[k].status # "none"
          /\ \A i, k \in Index : ids[i] = ids[k] => i = k
          /\ \A i \in Index : local[ids[i]] = Required[action]
          /\ job' = [job EXCEPT ![j] = [status |-> "queued", action |-> action, ids |-> ids]]
    BY Zenon DEF Submit
<1>2. UNCHANGED <<item, local, remote, done, pc, cur, stopping, console, faults, errors, ops, restarts>>
    BY DEF Submit, volatile, bounds
<1> DEFINE new == [status |-> "queued", action |-> action, ids |-> ids]
<1>3. new \in JobRow /\ new.status = "queued" /\ new.ids = ids
    BY DEF JobRow, JobStatus
<1>4. job' = [job EXCEPT ![j] = new]
    BY <1>1
<1> HIDE DEF new
<1>5. job' \in [Job -> JobRow] /\ job'[j] = new /\ \A k \in Job \ {j} : job'[k] = job[k]
    BY <1>3, <1>4 DEF TypeOK
<1>6. pc \notin {"down", "idle"} => cur[1] \in Job \ {j} /\ job'[cur[1]] = job[cur[1]]
    BY <1>1, <1>5 DEF Placed
<1>7. TypeOK'
    BY <1>2, <1>3, <1>5 DEF TypeOK
<1>8. Placed'
    BY <1>2, <1>6 DEF Placed, AtRow, Busy
<1>9. OneUnderWay'
    BY <1>2 DEF OneUnderWay, Busy
<1>10. DoneKnown' /\ WritesRequiredState'
    BY <1>2, <1>6 DEF DoneKnown, WritesRequiredState, This, Before, After
<1>11. DoubtStops'
    <2> SUFFICES ASSUME NEW k \in Job, NEW i \in Index
                 PROVE  /\ GoesOn(k)' => item[<<k, i>>] # "unknown"
                        /\ job'[k].status = "none" => item[<<k, i>>] = "queued"
        BY <1>2 DEF DoubtStops
    <2>1. CASE k = j
        BY <1>1, <1>3, <1>5, <2>1 DEF DoubtStops
    <2>2. CASE k # j
        BY <1>2, <1>5, <2>2 DEF DoubtStops, GoesOn
    <2> QED BY <2>1, <2>2
<1>12. Kept
    BY <1>2, StutterKeepsPromise
<1> QED BY <1>7, <1>8, <1>9, <1>10, <1>11, <1>12

LEMMA StartKeeps ==
    ASSUME IInv, Start
    PROVE  IInv' /\ Kept
<1> USE DEF IInv
<1>1. /\ pc = "down" /\ pc' = "idle"
      /\ item' = [s \in Slot |-> Recovered(s)]
      /\ job' = [j \in Job |-> [job[j] EXCEPT !.status = Resumed(j)]]
      /\ UNCHANGED <<local, remote, done, cur, stopping, console, faults, errors, ops, restarts>>
    BY DEF Start, Goto, bounds
<1>2. /\ item' \in [Slot -> ItemStatus]
      /\ \A s \in Slot : item'[s] = IF item[s] = "running" THEN "unknown" ELSE item[s]
    BY <1>1 DEF TypeOK, Recovered, ItemStatus
<1>3. ASSUME NEW j \in Job
      PROVE  /\ job'[j] \in JobRow /\ job'[j].ids = job[j].ids /\ job'[j].status = Resumed(j)
             /\ job'[j].status = "none" => job[j].status = "none"
             /\ job[j].status = "none" => job'[j].status = "none"
    <2>1. job[j] \in JobRow /\ job'[j] = [job[j] EXCEPT !.status = Resumed(j)]
        BY <1>1 DEF TypeOK
    <2>2. Resumed(j) \in JobStatus /\ (Resumed(j) = "none" <=> job[j].status = "none")
        <3>1. job[j].status = "none" => \A i \in Index : item[<<j, i>>] = "queued"
            BY DEF DoubtStops
        <3>2. job[j].status \in JobStatus
            BY <2>1 DEF JobRow
        <3> QED BY <3>1, <3>2 DEF Resumed, JobStatus
    <2> QED BY <2>1, <2>2 DEF JobRow
<1>4. TypeOK'
    <2>1. job' \in [Job -> JobRow]
        BY <1>1, <1>3
    <2> QED BY <1>1, <1>2, <1>3, <2>1 DEF TypeOK, Place
<1>5. Placed' /\ WritesRequiredState'
    BY <1>1 DEF Placed, AtRow, Busy, WritesRequiredState
<1>6. OneUnderWay' /\ DoneKnown'
    BY <1>1, <1>2 DEF OneUnderWay, DoneKnown
<1>7. DoubtStops'
    <2> SUFFICES ASSUME NEW j \in Job, NEW i \in Index
                 PROVE  /\ GoesOn(j)' => item'[<<j, i>>] # "unknown"
                        /\ job'[j].status = "none" => item'[<<j, i>>] = "queued"
        BY DEF DoubtStops
    <2>1. <<j, i>> \in Slot
        BY DEF Slot
    <2>2. ASSUME GoesOn(j)'
          PROVE  item'[<<j, i>>] # "unknown"
        <3>1. Resumed(j) = "queued"
            BY <1>1, <1>3, <2>2 DEF GoesOn
        <3>2. /\ \A k \in Index : item[<<j, k>>] # "running"
              /\ job[j].status = "queued" \/ \A k \in Index : item[<<j, k>>] # "unknown"
            BY <3>1 DEF Resumed
        <3>3. item[<<j, i>>] \notin {"running", "unknown"}
            BY <3>2 DEF DoubtStops, GoesOn
        <3> QED BY <1>2, <2>1, <3>3
    <2>3. job'[j].status = "none" => item'[<<j, i>>] = "queued"
        BY <1>2, <1>3, <2>1 DEF DoubtStops
    <2> QED BY <2>2, <2>3
<1>8. Kept
    <2> DEFINE S == {s \in Promise!Slot : item[s] = "running"}
    <2>1. Slot = Promise!Slot
        BY DEF Slot, Promise!Slot
    <2>2. item' = [s \in Promise!Slot |-> IF s \in S THEN "unknown" ELSE item[s]]
        BY <1>1, <2>1 DEF Recovered
    <2>3. Promise!GiveUp
        BY <1>1, <2>2 DEF Promise!GiveUp
    <2> QED BY <2>3 DEF Kept, Promise!PromiseNext
<1> QED BY <1>4, <1>5, <1>6, <1>7, <1>8

LEMMA ClaimKeeps ==
    ASSUME IInv, Claim
    PROVE  IInv' /\ Kept
<1> USE DEF IInv
<1>1. PICK j \in Job : /\ job[j].status = "queued"
                       /\ job' = [job EXCEPT ![j].status = "running"]
                       /\ cur' = <<j, 1>>
    BY DEF Claim
<1>2. /\ pc = "idle" /\ pc' = "scan"
      /\ UNCHANGED <<item, local, remote, done, stopping, console, faults, errors, ops, restarts>>
    BY DEF Claim, Goto, bounds
<1>3. job[j] \in JobRow
    BY DEF TypeOK
<1> DEFINE row == [job[j] EXCEPT !.status = "running"]
<1>4. row \in JobRow /\ row.status = "running" /\ row.ids = job[j].ids
    BY <1>3 DEF JobRow, JobStatus
<1>5. job' = [job EXCEPT ![j] = row]
    BY <1>1
<1> HIDE DEF row
<1>6. /\ job' \in [Job -> JobRow] /\ job'[j].status = "running"
      /\ \A k \in Job \ {j} : job'[k] = job[k]
      /\ \A k \in Job : job'[k].status # "none" => job'[k].ids \in [Index -> Alias]
    BY <1>1, <1>4, <1>5 DEF TypeOK
<1>7. cur' \in Job \X (1 .. NumItems + 1) /\ cur'[1] = j
    BY <1>1, BulkBoundsAssumption
<1>8. TypeOK'
    BY <1>2, <1>6, <1>7 DEF TypeOK, Place
<1>9. Placed'
    BY <1>2, <1>6, <1>7 DEF Placed, AtRow, Busy
<1>10. OneUnderWay' /\ DoneKnown' /\ WritesRequiredState'
    BY <1>2 DEF OneUnderWay, DoneKnown, WritesRequiredState, Busy
<1>11. DoubtStops'
    <2> SUFFICES ASSUME NEW k \in Job, NEW i \in Index
                 PROVE  /\ GoesOn(k)' => item[<<k, i>>] # "unknown"
                        /\ job'[k].status = "none" => item[<<k, i>>] = "queued"
        BY <1>2 DEF DoubtStops
    <2>1. CASE k = j
        BY <1>1, <1>6, <2>1 DEF DoubtStops, GoesOn
    <2>2. CASE k # j
        BY <1>6, <1>7, <2>2 DEF DoubtStops, GoesOn
    <2> QED BY <2>1, <2>2
<1>12. Kept
    BY <1>2, StutterKeepsPromise
<1> QED BY <1>8, <1>9, <1>10, <1>11, <1>12

\* The steps that leave the rows alone and end the job, or put it back.
LEMMA JobEndsKeeps ==
    ASSUME IInv, pc \in {"scan", "halt", "next"}, NEW status \in JobStatus \ {"none", "running"},
           SetJob(status), pc' = "idle", status = "queued" => pc # "halt",
           UNCHANGED <<item, local, remote, done, cur, stopping, console,
                       faults, errors, ops, restarts>>
    PROVE  IInv' /\ Kept
<1> USE DEF IInv
<1>1. cur[1] \in Job /\ job[cur[1]].status = "running"
    BY DEF Placed
<1>2. /\ job' \in [Job -> JobRow]
      /\ job'[cur[1]].status = status
      /\ \A j \in Job \ {cur[1]} : job'[j] = job[j]
      /\ \A j \in Job : job'[j].status # "none" => job'[j].ids \in [Index -> Alias]
      /\ \A j \in Job : job'[j].status = "none" => job[j].status = "none"
    BY <1>1, SetJobFacts
<1>3. TypeOK'
    BY <1>2 DEF TypeOK, Place
<1>4. Placed' /\ OneUnderWay' /\ DoneKnown' /\ WritesRequiredState'
    BY DEF Placed, AtRow, Busy, OneUnderWay, DoneKnown, WritesRequiredState
<1>5. DoubtStops'
    <2> SUFFICES ASSUME NEW k \in Job, NEW i \in Index
                 PROVE  /\ GoesOn(k)' => item[<<k, i>>] # "unknown"
                        /\ job'[k].status = "none" => item[<<k, i>>] = "queued"
        BY DEF DoubtStops
    <2>1. GoesOn(k)' => GoesOn(k)
        BY <1>2 DEF GoesOn
    <2> QED BY <1>2, <2>1 DEF DoubtStops
<1> QED BY <1>3, <1>4, <1>5, StutterKeepsPromise

\* The worker goes to another place of the loop, or to another row.
LEMMA MoveKeeps ==
    ASSUME IInv, pc \in {"scan", "next"}, pc' \in {"scan", "check"},
           cur' \in Job \X (1 .. NumItems + 1), cur'[1] = cur[1],
           pc' = "check" => cur' \in Slot /\ item[cur'] = "queued",
           UNCHANGED <<job, item, local, remote, done, stopping, console,
                       faults, errors, ops, restarts>>
    PROVE  IInv' /\ Kept
<1> USE DEF IInv
<1>1. TypeOK'
    BY DEF TypeOK, Place
<1>2. Placed'
    BY DEF Placed, AtRow, Busy
<1>3. OneUnderWay' /\ DoneKnown' /\ WritesRequiredState'
    BY DEF OneUnderWay, DoneKnown, WritesRequiredState, Busy
<1>4. DoubtStops'
    BY DEF DoubtStops, GoesOn
<1> QED BY <1>1, <1>2, <1>3, <1>4, StutterKeepsPromise

LEMMA ScanKeeps ==
    ASSUME IInv, Scan
    PROVE  IInv' /\ Kept
<1>1. /\ pc = "scan" /\ cur[2] \in Index
      /\ UNCHANGED <<item, local, remote, done, stopping, console, faults, errors, ops, restarts>>
    BY DEF Scan, bounds
<1>2. cur \in Job \X (1 .. NumItems + 1) /\ cur \in Slot
    BY <1>1 DEF IInv, Placed, Slot
<1>3. CASE stopping /\ SetJob("queued") /\ Goto("idle") /\ UNCHANGED cur
    BY <1>1, <1>3, JobEndsKeeps DEF Goto, JobStatus
<1>4. CASE cur' = <<cur[1], cur[2] + 1>> /\ UNCHANGED <<job, pc>>
    <2>1. cur' \in Job \X (1 .. NumItems + 1) /\ cur'[1] = cur[1]
        BY <1>1, <1>2, <1>4, BulkBoundsAssumption DEF Index
    <2> QED BY <1>1, <1>4, <2>1, MoveKeeps
<1>5. CASE item[cur] = "queued" /\ Goto("check") /\ UNCHANGED <<job, cur>>
    BY <1>1, <1>2, <1>5, MoveKeeps DEF Goto
<1> QED BY <1>3, <1>4, <1>5 DEF Scan

LEMMA CompleteKeeps ==
    ASSUME IInv, Complete
    PROVE  IInv' /\ Kept
<1>1. /\ pc = "scan" /\ pc' = "idle"
      /\ UNCHANGED <<item, local, remote, done, cur, stopping, console, faults, errors, ops, restarts>>
    BY DEF Complete, Goto, bounds
<1>2. PICK status \in {"completed", "partial", "failed"} : SetJob(status)
    BY DEF Complete
<1> QED BY <1>1, <1>2, JobEndsKeeps DEF JobStatus

LEMMA HaltKeeps ==
    ASSUME IInv, Halt
    PROVE  IInv' /\ Kept
BY JobEndsKeeps DEF Halt, Goto, bounds, JobStatus

LEMMA ProceedKeeps ==
    ASSUME IInv, Proceed
    PROVE  IInv' /\ Kept
<1>1. /\ pc = "next"
      /\ UNCHANGED <<item, local, remote, done, stopping, console, faults, errors, ops, restarts>>
    BY DEF Proceed, bounds
<1>2. cur[1] \in Job /\ cur[2] \in Index
    BY <1>1, Here DEF IInv, AtRow
<1>3. CASE SetJob("queued") /\ Goto("idle") /\ UNCHANGED cur
    BY <1>1, <1>3, JobEndsKeeps DEF Goto, JobStatus
<1>4. CASE cur' = Following /\ Goto("scan") /\ UNCHANGED job
    <2>1. cur' \in Job \X (1 .. NumItems + 1) /\ cur'[1] = cur[1]
        BY <1>2, <1>4, BulkBoundsAssumption DEF Following, Index
    <2> QED BY <1>1, <1>4, <2>1, MoveKeeps DEF Goto
<1> QED BY <1>3, <1>4 DEF Proceed

-----------------------------------------------------------------------------
(* One row.                                                                *)

\* The states before and after a lifecycle call differ.
LEMMA Changes ==
    ASSUME TypeOK, Placed, AtRow
    PROVE  Before # After
<1>1. job[cur[1]].action \in {"deactivate", "delete"}
    BY Here DEF JobRow, Action
<1> QED BY <1>1 DEF Before, After, Required, Target

LEMMA CheckKeeps ==
    ASSUME IInv, Check
    PROVE  IInv' /\ Kept
<1>1. /\ pc = "check"
      /\ UNCHANGED <<job, local, remote, done, cur, stopping, console, faults, errors, ops, restarts>>
    BY DEF Check, bounds
<1>2. TypeOK /\ Placed /\ AtRow
    BY <1>1 DEF IInv, AtRow
<1>3. cur \in Slot /\ item[cur] = "queued" /\ cur \notin done /\ cur = <<cur[1], cur[2]>>
    BY <1>1, <1>2, Here DEF IInv, Placed, DoneKnown
<1>5. CASE Tell("queued")
    BY <1>1, <1>2, <1>3, <1>5, TellKeepsInvariant, TellKeepsPromise DEF TypeOK, ItemStatus
<1>6. CASE Tell("failed")
    BY <1>1, <1>2, <1>3, <1>6, TellKeepsInvariant, TellKeepsPromise DEF TypeOK, ItemStatus
<1>7. CASE /\ local[This] = Before
           /\ item' = [item EXCEPT ![cur] = "running"] /\ pc' = "enter"
    <2>1. /\ item' \in [Slot -> ItemStatus] /\ item'[cur] = "running"
          /\ \A s \in Slot \ {cur} : item'[s] = item[s]
        BY <1>2, <1>3, <1>7 DEF TypeOK, ItemStatus
    <2>2. TypeOK'
        BY <1>1, <1>2, <1>7, <2>1 DEF TypeOK, Place
    <2>3. Placed'
        BY <1>1, <1>2, <1>3, <1>7, <2>1 DEF Placed, AtRow, Busy
    <2>4. OneUnderWay'
        BY <1>1, <1>7, <2>1 DEF IInv, OneUnderWay, Busy
    <2>5. DoneKnown' /\ WritesRequiredState'
        BY <1>1, <1>3, <1>7, <2>1 DEF IInv, DoneKnown, WritesRequiredState
    <2>6. DoubtStops'
        <3> SUFFICES ASSUME NEW j \in Job, NEW i \in Index
                     PROVE  /\ GoesOn(j)' => item'[<<j, i>>] # "unknown"
                            /\ job'[j].status = "none" => item'[<<j, i>>] = "queued"
            BY DEF DoubtStops
        <3>1. <<j, i>> \in Slot
            BY DEF Slot
        <3>2. CASE <<j, i>> = cur
            BY <1>1, <1>2, <2>1, <3>2, Here
        <3>3. CASE <<j, i>> # cur
            BY <1>1, <2>1, <3>1, <3>3 DEF IInv, DoubtStops, GoesOn
        <3> QED BY <3>2, <3>3
    <2>7. Kept
        <3>1. Slot = Promise!Slot
            BY DEF Slot, Promise!Slot
        <3>2. \A i \in Index : item[<<cur[1], i>>] # "unknown"
            BY <1>1, <1>2, Here DEF IInv, DoubtStops, GoesOn
        <3>3. errors > 0 \/ \A t \in Slot : item[t] # "running"
            BY <1>1 DEF IInv, OneUnderWay, Busy, TypeOK
        <3>4. Promise!Take(cur)
            BY <1>1, <1>3, <1>7, <3>1, <3>2, <3>3 DEF Promise!Take, Promise!Told
        <3> QED BY <1>3, <3>1, <3>4 DEF Kept, Promise!PromiseNext
    <2> QED BY <2>2, <2>3, <2>4, <2>5, <2>6, <2>7 DEF IInv
<1> QED BY <1>5, <1>6, <1>7 DEF Check, Goto

\* The worker goes on with the row it has under way, with nothing told.
LEMMA GoesOnKeeps ==
    ASSUME IInv, Busy, Busy', UNCHANGED <<job, item, cur, stopping, console, errors, ops, restarts>>,
           local' \in [Alias -> State], remote' \in [Alias -> State], faults' \in Nat,
           done' \subseteq Slot, \A s \in Slot \ {cur} : s \in done' <=> s \in done,
           DoneKnown', WritesRequiredState'
    PROVE  IInv'
<1> USE DEF IInv
<1>1. pc' \in Place
    BY DEF Busy, Place
<1>2. TypeOK'
    BY <1>1 DEF TypeOK
<1>3. Placed'
    BY DEF Placed, AtRow, Busy
<1>4. OneUnderWay'
    BY DEF OneUnderWay, Busy
<1>5. DoubtStops'
    BY DEF DoubtStops, GoesOn, Busy
<1> QED BY <1>2, <1>3, <1>4, <1>5

LEMMA EnterKeeps ==
    ASSUME IInv, Enter
    PROVE  IInv' /\ Kept
<1>1. /\ pc = "enter"
      /\ UNCHANGED <<job, local, remote, done, cur, stopping, console, errors, ops, restarts>>
    BY DEF Enter
<1>2. TypeOK /\ Placed /\ AtRow /\ Busy
    BY <1>1 DEF IInv, AtRow, Busy
<1>3. cur \in Slot /\ cur \notin done
    BY <1>1, <1>2, Here DEF IInv, DoneKnown
<1>4. faults' \in Nat
    BY <1>2 DEF Enter, Fault, TypeOK
<1>5. CASE \E status \in {"queued", "unknown", "failed"} : Tell(status)
    <2>1. PICK status \in {"queued", "unknown", "failed"} : Tell(status)
        BY <1>5
    <2>2. IInv'
        BY <1>1, <1>2, <1>3, <1>4, <2>1, TellKeepsInvariant DEF TypeOK, ItemStatus
    <2>3. Kept
        BY <1>1, <1>2, <1>3, <2>1, TellKeepsPromise DEF ItemStatus
    <2> QED BY <2>2, <2>3
<1>6. CASE Open /\ pc' = "write" /\ UNCHANGED <<item, faults>>
    <2>1. Busy' /\ DoneKnown'
        BY <1>1, <1>3, <1>6 DEF IInv, DoneKnown, Busy
    <2>2. WritesRequiredState'
        BY <1>1, <1>6 DEF Open, WritesRequiredState, This, Before
    <2>3. IInv'
        BY <1>1, <1>2, <1>4, <1>6, <2>1, <2>2, GoesOnKeeps DEF TypeOK
    <2> QED BY <1>1, <1>6, <2>3, StutterKeepsPromise
<1> QED BY <1>5, <1>6 DEF Enter, Goto

LEMMA CarriedOutFacts ==
    ASSUME TypeOK, Placed, AtRow, CarriedOut
    PROVE  /\ remote' \in [Alias -> State] /\ remote'[This] = After
           /\ done' = done \cup {cur} /\ done' \subseteq Slot
BY Here DEF CarriedOut, TypeOK

LEMMA WriteKeeps ==
    ASSUME IInv, Write
    PROVE  IInv' /\ Kept
<1>1. /\ pc = "write"
      /\ UNCHANGED <<job, local, cur, stopping, console, errors, ops, restarts>>
    BY DEF Write
<1>2. TypeOK /\ Placed /\ AtRow /\ Busy
    BY <1>1 DEF IInv, AtRow, Busy
<1>3. cur \in Slot /\ cur \notin done /\ item[cur] = "running"
    BY <1>1, <1>2, Here DEF IInv, DoneKnown, Placed
<1>4. faults' \in Nat
    BY <1>2 DEF Write, Fault, TypeOK
<1>5. cur \in Promise!Slot
    BY <1>3 DEF Slot, Promise!Slot
<1>6. ASSUME CarriedOut
      PROVE  /\ remote' \in [Alias -> State] /\ remote'[This] = After
             /\ done' = done \cup {cur} /\ done' \subseteq Slot
    BY <1>2, <1>6, CarriedOutFacts
<1>7. CASE CarriedOut /\ pc' = "confirm" /\ UNCHANGED <<item, faults>>
    <2>1. Busy' /\ DoneKnown'
        BY <1>1, <1>3, <1>6, <1>7 DEF IInv, DoneKnown, Busy
    <2>2. WritesRequiredState'
        BY <1>7 DEF WritesRequiredState
    <2>3. IInv'
        BY <1>1, <1>2, <1>4, <1>6, <1>7, <2>1, <2>2, GoesOnKeeps DEF TypeOK
    <2>4. UNCHANGED (errors > 0) /\ item' = item /\ done' = done \cup {cur}
        BY <1>1, <1>6, <1>7
    <2>5. Promise!CarryOut(cur)
        BY <1>3, <2>4, Zenon DEF Promise!CarryOut
    <2> QED BY <1>5, <2>3, <2>5 DEF Kept, Promise!PromiseNext
<1>8. CASE CarriedOut /\ Tell("unknown")
    <2>1. IInv'
        BY <1>1, <1>2, <1>4, <1>6, <1>8, TellKeepsInvariant DEF TypeOK, ItemStatus
    <2>2. UNCHANGED (errors > 0) /\ Promise!Told(cur, "unknown") /\ done' = done \cup {cur}
        BY <1>1, <1>6, <1>8 DEF Tell, Promise!Told
    <2>3. Promise!CarryOut(cur)
        BY <1>3, <2>2, Zenon DEF Promise!CarryOut
    <2> QED BY <1>5, <2>1, <2>3 DEF Kept, Promise!PromiseNext
<1>9. CASE UNCHANGED <<remote, done>> /\ \E status \in {"unknown", "failed"} : Tell(status)
    <2>1. PICK status \in {"unknown", "failed"} : Tell(status)
        BY <1>9
    <2>2. IInv'
        BY <1>1, <1>2, <1>3, <1>4, <1>9, <2>1, TellKeepsInvariant DEF TypeOK, ItemStatus
    <2>3. Kept
        BY <1>1, <1>2, <1>3, <1>9, <2>1, TellKeepsPromise DEF ItemStatus
    <2> QED BY <2>2, <2>3
<1>10. CASE UNCHANGED <<remote, done, item>> /\ remote[This] # After /\ pc' = "confirm"
    <2>1. Busy' /\ DoneKnown' /\ WritesRequiredState'
        BY <1>1, <1>3, <1>10 DEF IInv, DoneKnown, Busy, WritesRequiredState, This, After
    <2>2. IInv'
        BY <1>1, <1>2, <1>4, <1>10, <2>1, GoesOnKeeps DEF TypeOK
    <2> QED BY <1>1, <1>10, <2>2, StutterKeepsPromise
<1> QED BY <1>7, <1>8, <1>9, <1>10 DEF Write, Goto

LEMMA ConfirmKeeps ==
    ASSUME IInv, Confirm
    PROVE  IInv' /\ Kept
<1>1. /\ pc = "confirm"
      /\ UNCHANGED <<job, local, remote, done, cur, stopping, console, errors, ops, restarts>>
    BY DEF Confirm
<1>2. TypeOK /\ Placed /\ AtRow /\ Busy
    BY <1>1 DEF IInv, AtRow, Busy
<1>3. faults' \in Nat
    BY <1>2 DEF Confirm, Fault, TypeOK
<1>4. CASE Tell("unknown")
    BY <1>1, <1>2, <1>3, <1>4, TellKeepsInvariant, TellKeepsPromise DEF TypeOK, ItemStatus
<1>5. CASE Confirmed /\ pc' = "apply" /\ UNCHANGED <<item, faults>>
    <2>1. Busy' /\ DoneKnown' /\ WritesRequiredState'
        BY <1>1, <1>5 DEF IInv, Confirmed, DoneKnown, Busy, WritesRequiredState
    <2>2. IInv'
        BY <1>1, <1>2, <1>3, <1>5, <2>1, GoesOnKeeps DEF TypeOK
    <2> QED BY <1>1, <1>5, <2>2, StutterKeepsPromise
<1> QED BY <1>4, <1>5 DEF Confirm, Goto

LEMMA ApplyKeeps ==
    ASSUME IInv, Apply \/ Drop
    PROVE  IInv' /\ Kept
<1>1. /\ pc \in {"apply", "drop"} /\ pc' \in {"drop", "push"}
      /\ UNCHANGED <<job, item, remote, done, cur, stopping, console, faults, errors, ops, restarts>>
    BY DEF Apply, Drop, Goto, bounds
<1>2. TypeOK /\ Listed \in [Alias -> State]
    BY ListedType DEF IInv
<1>3. local' \in [Alias -> State]
    BY <1>2 DEF Apply, Drop, TypeOK, State
<1>4. Busy /\ Busy' /\ DoneKnown' /\ WritesRequiredState'
    BY <1>1 DEF IInv, DoneKnown, Busy, WritesRequiredState
<1>5. IInv'
    BY <1>1, <1>2, <1>3, <1>4, GoesOnKeeps DEF TypeOK
<1> QED BY <1>1, <1>5, StutterKeepsPromise

\* A row whose change the edge was not told is unknown, although it was carried out.
LEMMA PushKeeps ==
    ASSUME IInv, Push
    PROVE  IInv' /\ Kept
<1>1. /\ pc = "push"
      /\ UNCHANGED <<job, local, remote, done, cur, stopping, console, errors, ops, restarts>>
    BY DEF Push
<1>2. TypeOK /\ Placed /\ AtRow /\ Busy
    BY <1>1 DEF IInv, AtRow, Busy
<1>3. faults' \in Nat
    BY <1>2 DEF Push, Fault, TypeOK
<1>4. CASE Tell("unknown")
    BY <1>1, <1>2, <1>3, <1>4, TellKeepsInvariant, TellKeepsPromise DEF TypeOK, ItemStatus
<1>5. CASE pc' = "record" /\ UNCHANGED <<item, faults>>
    <2>1. Busy' /\ DoneKnown' /\ WritesRequiredState'
        BY <1>1, <1>5 DEF IInv, DoneKnown, Busy, WritesRequiredState
    <2>2. IInv'
        BY <1>1, <1>2, <1>3, <1>5, <2>1, GoesOnKeeps DEF TypeOK
    <2> QED BY <1>1, <1>5, <2>2, StutterKeepsPromise
<1> QED BY <1>4, <1>5 DEF Push, Goto

LEMMA RecordKeeps ==
    ASSUME IInv, Record
    PROVE  IInv' /\ Kept
<1>1. /\ pc = "record" /\ Tell("success")
      /\ UNCHANGED <<job, local, remote, done, cur, stopping, console, faults, errors, ops, restarts>>
    BY DEF Record, bounds
<1>2. TypeOK /\ Busy /\ cur \in done
    BY <1>1 DEF IInv, DoneKnown, Busy
<1> QED BY <1>1, <1>2, TellKeepsInvariant, TellKeepsPromise DEF TypeOK, ItemStatus

\* An exception nobody foresaw breaks the promise, openly.
LEMMA UnexpectedKeeps ==
    ASSUME IInv, Unexpected
    PROVE  IInv' /\ Kept
<1>1. /\ errors' = errors + 1 /\ errors \in Nat
      /\ UNCHANGED <<local, remote, done, cur, stopping, console, faults, ops, restarts>>
    BY DEF IInv, TypeOK, Unexpected
<1>2. (errors' > 0) = TRUE /\ errors' \in Nat /\ errors' # 0
    BY <1>1
<1>3. CASE /\ pc \in {"check", "enter", "confirm", "apply", "drop", "push", "record"}
           /\ Tell("failed") /\ UNCHANGED job
    <2>1. TypeOK /\ Placed /\ AtRow /\ (Busy \/ pc = "check")
        BY <1>3 DEF IInv, AtRow, Busy
    <2>2. IInv'
        BY <1>1, <1>2, <1>3, <2>1, TellKeepsInvariant DEF TypeOK, ItemStatus
    <2>3. cur \in Promise!Slot /\ item[cur] \in {"queued", "running"}
        BY <1>3, <2>1, Here DEF Placed, Busy, Slot, Promise!Slot
    <2>4. Promise!Told(cur, "failed")
        BY <1>3 DEF Tell, Promise!Told
    <2>5. Promise!Break
        BY <1>1, <1>2, <2>3, <2>4 DEF Promise!Break
    <2> QED BY <2>2, <2>5 DEF Kept, Promise!PromiseNext
<1>4. CASE pc \notin {"down", "idle"} /\ SetJob("failed") /\ Goto("idle") /\ UNCHANGED item
    <2>1. cur[1] \in Job /\ job[cur[1]].status = "running" /\ TypeOK
        BY <1>4 DEF IInv, Placed
    <2>2. /\ job' \in [Job -> JobRow]
          /\ job'[cur[1]].status = "failed"
          /\ \A j \in Job \ {cur[1]} : job'[j] = job[j]
          /\ \A j \in Job : job'[j].status # "none" => job'[j].ids \in [Index -> Alias]
          /\ \A j \in Job : job'[j].status = "none" => job[j].status = "none"
        BY <1>4, <2>1, SetJobFacts DEF JobStatus
    <2>3. TypeOK'
        BY <1>1, <1>2, <1>4, <2>1, <2>2 DEF TypeOK, Place, Goto
    <2>4. Placed' /\ OneUnderWay' /\ DoneKnown' /\ WritesRequiredState'
        BY <1>1, <1>2, <1>4 DEF IInv, Placed, AtRow, Busy, OneUnderWay, DoneKnown,
                               WritesRequiredState, Goto
    <2>5. DoubtStops'
        BY <1>1, <1>4, <2>2 DEF IInv, DoubtStops, GoesOn, Goto
    <2>6. Promise!Break
        BY <1>1, <1>2, <1>4 DEF Promise!Break
    <2> QED BY <2>3, <2>4, <2>5, <2>6 DEF IInv, Kept, Promise!PromiseNext
<1> QED BY <1>3, <1>4 DEF Unexpected

-----------------------------------------------------------------------------
(* Around the worker.                                                      *)

\* Only the local rows, Apple's or the console's lock change: the worker's
\* write is not under way, or they are as they were.
LEMMA AroundKeeps ==
    ASSUME IInv, UNCHANGED <<job, item, done, pc, cur, faults, errors, restarts>>,
           local' \in [Alias -> State], remote' \in [Alias -> State],
           stopping' \in BOOLEAN, ops' \in Nat,
           console' \in (Alias \X ConsoleAction) \cup {NoChange},
           pc = "write" => UNCHANGED <<local, console>>,
           pc = "confirm" => UNCHANGED remote
    PROVE  IInv' /\ Kept
<1> USE DEF IInv
<1>1. TypeOK' /\ Placed'
    BY DEF TypeOK, Placed, AtRow, Busy
<1>2. OneUnderWay' /\ DoubtStops'
    BY DEF OneUnderWay, DoubtStops, Busy, GoesOn
<1>3. DoneKnown' /\ WritesRequiredState'
    BY DEF DoneKnown, WritesRequiredState, This, Before, After
<1> QED BY <1>1, <1>2, <1>3, StutterKeepsPromise

LEMMA ConsoleKeeps ==
    ASSUME IInv, ConsoleWrite \/ ConsoleEnds \/ Sync \/ RequestStop
    PROVE  IInv' /\ Kept
<1>1. TypeOK /\ Listed \in [Alias -> State]
    BY ListedType DEF IInv
<1>2. CASE ConsoleWrite
    <2>1. PICK a \in Alias, state \in State : remote' = [remote EXCEPT ![a] = state]
        BY <1>2, Zenon DEF ConsoleWrite, State
    <2>2. remote' \in [Alias -> State]
        BY <1>1, <2>1 DEF TypeOK
    <2>3. /\ ~WorkerWrites /\ ops' = ops + 1
          /\ UNCHANGED <<job, item, local, done, pc, cur, stopping, faults, errors, restarts>>
        BY <1>2, Zenon DEF ConsoleWrite
    <2>4. console' \in (Alias \X ConsoleAction) \cup {NoChange}
        <3>1. PICK b \in Alias, action \in ConsoleAction : console' = <<b, action>>
            BY <1>2, Zenon DEF ConsoleWrite
        <3> QED BY <3>1
    <2>5. ops' \in Nat /\ local \in [Alias -> State] /\ stopping \in BOOLEAN
        BY <1>1, <2>3 DEF TypeOK
    <2>6. pc \notin {"write", "confirm"}
        BY <2>3 DEF WorkerWrites
    <2> QED BY <2>2, <2>3, <2>4, <2>5, <2>6, AroundKeeps
<1>3. CASE ConsoleEnds
    <2>1. local' \in [Alias -> State]
        BY <1>1, <1>3 DEF ConsoleEnds, TypeOK, State
    <2>2. /\ console # NoChange /\ console' = NoChange
          /\ UNCHANGED <<job, item, remote, done, pc, cur, stopping, faults, errors, ops, restarts>>
        BY <1>3 DEF ConsoleEnds, bounds
    <2>3. pc # "write"
        BY <2>2 DEF IInv, WritesRequiredState
    <2> QED BY <1>1, <2>1, <2>2, <2>3, AroundKeeps DEF TypeOK
<1>4. CASE Sync
    BY <1>1, <1>4, AroundKeeps DEF Sync, WorkerWrites, TypeOK, volatile, bounds
<1>5. CASE RequestStop
    <2>1. TypeOK' /\ Placed' /\ OneUnderWay' /\ DoneKnown' /\ WritesRequiredState'
        BY <1>1, <1>5 DEF IInv, RequestStop, durable, TypeOK, Placed, AtRow, Busy, OneUnderWay,
                         DoneKnown, WritesRequiredState, This, Before, After
    <2>2. DoubtStops'
        BY <1>5 DEF IInv, RequestStop, durable, DoubtStops, GoesOn
    <2> QED BY <1>5, <2>1, <2>2, StutterKeepsPromise DEF IInv, RequestStop, durable
<1> QED BY <1>2, <1>3, <1>4, <1>5

\* The process ends: nothing of it is relied on.
LEMMA DownKeeps ==
    ASSUME IInv, Exit \/ Crash
    PROVE  IInv' /\ Kept
<1>1. /\ pc' = "down" /\ cur' = NoSlot /\ stopping' = FALSE /\ console' = NoChange
      /\ UNCHANGED <<job, item, local, remote, done, faults, errors, ops>>
    BY DEF Exit, Crash, Down, durable, bounds
<1>2. restarts' \in Nat
    BY DEF IInv, TypeOK, Exit, Crash, bounds
<1>3. TypeOK'
    BY <1>1, <1>2 DEF IInv, TypeOK, Place
<1>4. Placed' /\ OneUnderWay' /\ DoneKnown' /\ WritesRequiredState'
    BY <1>1 DEF IInv, Placed, AtRow, Busy, OneUnderWay, DoneKnown, WritesRequiredState
<1>5. DoubtStops'
    BY <1>1 DEF IInv, DoubtStops, GoesOn
<1> QED BY <1>1, <1>3, <1>4, <1>5, StutterKeepsPromise DEF IInv

-----------------------------------------------------------------------------
(* The invariant and the promise.                                          *)

LEMMA InitKeeps ==
    ASSUME Init
    PROVE  IInv /\ Promise!PromiseInit
<1>1. TypeOK
    <2>1. <<>> \in [Index -> Alias] \cup {<<>>}
        OBVIOUS
    <2> QED BY <2>1 DEF Init, TypeOK, JobRow, JobStatus, Action, ItemStatus, State, Place
<1>2. Placed /\ WritesRequiredState
    BY DEF Init, Placed, AtRow, Busy, WritesRequiredState
<1>3. OneUnderWay /\ DoneKnown
    BY DEF Init, OneUnderWay, DoneKnown
<1>4. DoubtStops
    BY DEF Init, DoubtStops, GoesOn, Slot
<1>5. Promise!PromiseInit
    BY DEF Init, Promise!PromiseInit, Slot, Promise!Slot
<1> QED BY <1>1, <1>2, <1>3, <1>4, <1>5 DEF IInv

LEMMA StepKeeps ==
    ASSUME IInv, [Next]_vars
    PROVE  IInv' /\ Kept
<1>1. CASE Next
    BY <1>1, StartKeeps, DownKeeps, ClaimKeeps, ScanKeeps, CompleteKeeps, HaltKeeps, ProceedKeeps,
       CheckKeeps, EnterKeeps, WriteKeeps, ConfirmKeeps, ApplyKeeps, PushKeeps, RecordKeeps,
       SubmitKeeps, UnexpectedKeeps, ConsoleKeeps DEF Next, Worker
<1>2. CASE UNCHANGED vars
    <2>1. UNCHANGED <<job, item, local, remote, done, pc, cur, faults, errors, restarts>>
        BY <1>2 DEF vars, durable, volatile, bounds
    <2>2. UNCHANGED <<stopping, console, ops>>
        BY <1>2 DEF vars, volatile, bounds
    <2> QED BY <2>1, <2>2, AroundKeeps DEF IInv, TypeOK
<1> QED BY <1>1, <1>2

\* The worker's bookkeeping is what it relies on, in every state: types, the
\* row under way, what Apple has carried out, and no job that goes on with a
\* row in doubt (jobs.py:1216-1403, database.py:1140-1215).
THEOREM BulkInvariant == Spec => []IInv
<1>1. Init => IInv
    BY InitKeeps
<1>2. IInv /\ [Next]_vars => IInv'
    BY StepKeeps
<1> QED BY <1>1, <1>2, PTL DEF Spec

\* A lifecycle write begins with the alias in the state it needs and without
\* another under way, whatever the operator did since the job was submitted.
THEOREM WritesInRequiredState == Spec => []WritesRequiredState
<1>1. IInv => WritesRequiredState
    BY DEF IInv
<1> QED BY <1>1, BulkInvariant, PTL

\* The worker implements BulkPromise: at most one deed for each row, one row at
\* a time, a true answer, and nothing of a job after an unknown row.
THEOREM PromiseKept == Spec => Promised
<1>1. Init => Promise!PromiseInit
    BY InitKeeps
<1>2. IInv /\ [Next]_vars => [Promise!PromiseNext]_Promise!promise
    BY StepKeeps DEF Kept
<1> QED BY <1>1, <1>2, BulkInvariant, PTL DEF Spec, Promised, Promise!PromiseSpec
=============================================================================
