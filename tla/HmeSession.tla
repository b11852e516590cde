------------------------------ MODULE HmeSession ------------------------------
(***************************************************************************)
(* The stored Apple session, the snapshots of Apple's alias list and the   *)
(* writes to it, as the threads of icloud_gateway/service.py share them:   *)
(* console requests, the maintenance loop, browser capture and the job     *)
(* worker, with _hme_lock, the remote write fence, _alias_generation and   *)
(* the single-flight refresh.                                              *)
(*                                                                         *)
(* Simplifications: an alias is the number of changes Apple has made to    *)
(* it, and a local row the number of those it reflects; even numbers are   *)
(* active, odd ones inactive.  Sessions are numbered in the order they     *)
(* come to the gateway, a saved one when its snapshot begins.  Apple's     *)
(* lists are complete when it answers (see BatchJobs for lists that are    *)
(* not).  A section under _hme_lock is one step, except that of a          *)
(* creation, which calls Apple while it holds the lock; its transactions   *)
(* and waits are in BatchJobs.  The time since the last validation, audit  *)
(* rows, the displayed state, the upload of a saved session and the push   *)
(* to the edge (EdgeSync) carry no control here.                           *)
(***************************************************************************)
EXTENDS Integers, FiniteSets

CONSTANTS
    Reader,       \* threads that synchronise, save or refresh
    Writer,       \* threads that change aliases at Apple
    Creator,      \* threads that create aliases: the job worker
    Alias,        \* aliases, those still to be created included
    None,         \* no thread, no alias
    ShrinkFloor,  \* shrink_limit of a small list (5 in the code)
    MaxChange,    \* bound: changes of an alias at Apple
    MaxOps,       \* bound: operations that begin
    MaxExternal   \* bound: changes Apple's user makes elsewhere

Thread == Reader \cup Writer \cup Creator

ASSUME NoneAssumption == None \notin Thread /\ None \notin Alias
ASSUME AliasAssumption == IsFiniteSet(Alias) /\ ShrinkFloor \in Nat
ASSUME HmeBoundsAssumption ==
    MaxChange \in Nat /\ MaxOps \in Nat /\ MaxExternal \in Nat

Unborn == -1               \* Apple has not created the alias; no local row
Live == 0 .. MaxChange     \* Apple lists the alias
Gone == MaxChange + 1      \* Apple no longer lists it; the row is inactive
Removed == MaxChange + 2   \* the local row was deleted as well
History == Unborn .. Gone
NoList == [a \in Alias |-> Unborn]

VARIABLES
    apple,         \* Apple: the history of each alias
    row,           \* database: what each row reflects of it
    session,       \* database: the stored session, 0 if none
    issued,        \* the newest session so far
    hmeLock,       \* the thread that keeps _hme_lock between steps
    remoteWrite,   \* the thread that holds _remote_write_lock
    active,        \* _remote_write_active
    generation,    \* _alias_generation
    refreshing,    \* _refreshing
    refreshes,     \* _refresh_generation
    refreshError,  \* _refresh_error is an error
    stopAsked,     \* request_stop was called
    stop,          \* _stop_event is set
    th,            \* where each thread stands, with its locals
    ops,           \* operations begun
    external       \* changes made elsewhere

store == <<row, session>>
fence == <<remoteWrite, active>>
flight == <<refreshing, refreshes, refreshError>>
stopping == <<stopAsked, stop>>
world == <<apple, external>>
vars == <<world, store, issued, hmeLock, fence, generation, flight, stopping, th, ops>>

Plan == {"none", "deactivate", "reactivate", "delete", "create", "resume"}
Fetching == {"begin", "read", "ask", "list", "commit"}
Fenced == {"open", "write", "confirm", "apply", "call", "lookup", "reopen",
           "store", "release", "closeout", "unfence"}
Step == {"idle", "enter", "wait", "end", "fresh", "fence", "activate"}
        \cup Fetching \cup Fenced

\* The locals of a thread: what it is about to do to which alias (plan, target);
\* its snapshot (task), where the refresh returns to (back), the alias
\* generation at which the snapshot began (seen), the session it validates
\* (cand), whether it ends with an error (bad) and the list it read (list); the
\* refresh generation before it waited (awaited); for a creation, the session
\* its client was opened with (orig), the one the client rotated to (turn) and
\* whether the look-up has refreshed the session before (tried).
Locals ==
    [at : Step, plan : Plan, target : Alias \cup {None},
     task : {"none", "sync", "save", "refresh"},
     back : {"idle", "fence", "unfence", "reopen", "closeout"},
     seen : Nat, cand : Nat, bad : BOOLEAN, list : [Alias -> History],
     awaited : Nat, orig : Nat, turn : Nat, tried : BOOLEAN]
Idle ==
    [at |-> "idle", plan |-> "none", target |-> None, task |-> "none",
     back |-> "idle", seen |-> 0, cand |-> 0, bad |-> FALSE, list |-> NoList,
     awaited |-> 0, orig |-> 0, turn |-> 0, tried |-> FALSE]

-----------------------------------------------------------------------------
Init ==
    /\ apple \in [Alias -> {Unborn, 0}] /\ external = 0
    /\ row \in [Alias -> {Unborn, 0}] /\ \A a \in Alias : row[a] <= apple[a]
    /\ session \in {0, 1} /\ issued = 1
    /\ hmeLock = None /\ remoteWrite = None /\ active = FALSE
    /\ generation = 0
    /\ refreshing = FALSE /\ refreshes = 0 /\ refreshError = FALSE
    /\ stopAsked = FALSE /\ stop = FALSE
    /\ th = [t \in Thread |-> Idle] /\ ops = 0

-----------------------------------------------------------------------------
(* Helpers.                                                                *)

Goto(t, s) == th' = [th EXCEPT ![t].at = s]
Leave(t) == th' = [th EXCEPT ![t] = Idle]
MayLock(t) == hmeLock \in {None, t}

HasRow(a) == row[a] \in 0 .. Gone
Rows == {a \in Alias : HasRow(a)}
Listed(l) == {a \in Alias : l[a] \in Live}
Active(h) == h \in Live /\ h % 2 = 0

\* Every row's alias is in the list, except those that may be missing.
Complete(l, except) == Rows \ except \subseteq Listed(l)

\* _validated_remote_aliases refuses an empty list while there are rows.
Refused(l) == Listed(l) = {} /\ Rows # {}

ShrinkLimit(l) ==
    LET tenth == Cardinality(Rows \cup Listed(l)) \div 10
    IN IF tenth > ShrinkFloor THEN tenth ELSE ShrinkFloor

\* _reconcile_remote_aliases and finish_remote_sync: rows that are not listed
\* become inactive, unless too many are missing.
Reconciled(l) ==
    [a \in Alias |->
        IF a \in Listed(l) THEN l[a]
        ELSE IF HasRow(a) /\ Cardinality(Rows \ Listed(l)) <= ShrinkLimit(l) THEN Gone
        ELSE row[a]]

\* A mutant of Ends: a way out of a write that does not pass the finally block.
EndsOpen(t) == Leave(t)

\* The thread has nothing left but to end its write.
Ends(t) == th' = [th EXCEPT ![t] = [Idle EXCEPT !.at = "unfence"]]

\* A thread's refresh runs inside its own write (during_write).
During(t) == remoteWrite = t

-----------------------------------------------------------------------------
(* Operations begin.                                                       *)

Begins(t, new) ==
    /\ th[t].at = "idle" /\ ops < MaxOps /\ ops' = ops + 1
    /\ th' = [th EXCEPT ![t] = new]
    /\ UNCHANGED <<world, store, issued, hmeLock, fence, generation, flight, stopping>>

\* sync_aliases, and save_hme_session for a session that was imported, captured
\* or posted.
BeginSnapshot(t) ==
    /\ t \in Reader
    /\ \E k \in {"sync", "save"} : Begins(t, [Idle EXCEPT !.at = "begin", !.task = k])

\* The maintenance loop and the console's background refresh.
BeginRefresh(t) == t \in Reader /\ Begins(t, [Idle EXCEPT !.at = "enter"])

\* deactivate_alias, reactivate_alias, delete_alias, _create_alias.
BeginWrite(t) ==
    \E p \in Plan, a \in Alias :
        /\ p \in {"create", "resume"} => t \in Creator
        /\ p \in {"deactivate", "reactivate", "delete"} => t \in Writer
        /\ p # "none" /\ (p = "create" => apple[a] = Unborn)
        /\ Begins(t, [Idle EXCEPT !.at = "fresh", !.plan = p, !.target = a])

-----------------------------------------------------------------------------
(* The refresh, and the snapshots.                                         *)

\* How a thread goes on after its refresh: an operation that needed the new
\* session ends with the refresh's error.
Returned(r, ok) ==
    IF r.back = "idle" \/ (r.back = "fence" /\ ~ok) THEN Idle
    ELSE [r EXCEPT !.at = IF r.back = "reopen" /\ ~ok THEN "release" ELSE r.back,
                   !.task = "none", !.back = "idle", !.seen = 0, !.bad = FALSE,
                   !.awaited = 0]

Refreshing(t) == th' = [th EXCEPT ![t].at = "begin", ![t].task = "refresh", ![t].awaited = 0]

\* A mutant of Enter: a thread does not look for a refresh under way.
EnterAlone(t) ==
    /\ th[t].at = "enter"
    /\ \/ stop /\ th' = [th EXCEPT ![t] = Returned(@, FALSE)] /\ UNCHANGED flight
       \/ /\ ~stop
          /\ refreshing' = TRUE /\ refreshError' = FALSE /\ UNCHANGED refreshes
          /\ Refreshing(t)
    /\ UNCHANGED <<world, store, issued, hmeLock, fence, generation, stopping, ops>>

\* One thread refreshes; the others wait for its outcome.
Enter(t) ==
    /\ th[t].at = "enter"
    /\ \/ stop /\ th' = [th EXCEPT ![t] = Returned(@, FALSE)] /\ UNCHANGED flight
       \/ /\ ~stop /\ refreshing
          /\ th' = [th EXCEPT ![t].at = "wait", ![t].awaited = refreshes]
          /\ UNCHANGED flight
       \/ /\ ~stop /\ ~refreshing
          /\ refreshing' = TRUE /\ refreshError' = FALSE /\ UNCHANGED refreshes
          /\ Refreshing(t)
    /\ UNCHANGED <<world, store, issued, hmeLock, fence, generation, stopping, ops>>

\* The waiter takes the outcome of the refresh it waited for; woken by a stop
\* before there is one, it starts a refresh of its own.
Wake(t) ==
    /\ th[t].at = "wait" /\ (~refreshing \/ stop)
    /\ \/ /\ refreshes # th[t].awaited
          /\ th' = [th EXCEPT ![t] = Returned(@, ~refreshError /\ session # 0)]
          /\ UNCHANGED flight
       \/ /\ refreshes = th[t].awaited
          /\ refreshing' = TRUE /\ refreshError' = FALSE /\ UNCHANGED refreshes
          /\ Refreshing(t)
    /\ UNCHANGED <<world, store, issued, hmeLock, fence, generation, stopping, ops>>

\* A snapshot that ends the operation, or its refresh.
Finished(r, wrong) ==
    IF r.task # "refresh" THEN Idle
    ELSE [r EXCEPT !.at = "end", !.bad = wrong, !.seen = 0, !.cand = 0, !.list = NoList]

Fails(t) == th' = [th EXCEPT ![t] = Finished(@, TRUE)]

\* _begin_alias_snapshot.  A session to be saved gets its number here.
Begin(t) ==
    /\ th[t].at = "begin" /\ MayLock(t)
    /\ \/ active /\ ~During(t) /\ Fails(t) /\ UNCHANGED issued
       \/ /\ ~active \/ During(t)
          /\ th[t].task # "save" /\ UNCHANGED issued
          /\ th' = [th EXCEPT ![t].at = "read", ![t].seen = generation]
       \/ /\ ~active
          /\ th[t].task = "save" /\ issued' = issued + 1
          /\ th' = [th EXCEPT ![t].at = "list", ![t].seen = generation, ![t].cand = issued']
    /\ UNCHANGED <<world, store, hmeLock, fence, generation, flight, stopping, ops>>

\* The stored session is read outside the lock.
Read(t) ==
    /\ th[t].at = "read"
    /\ \/ session = 0 /\ Fails(t)
       \/ session # 0 /\ Goto(t, IF th[t].task = "sync" THEN "list" ELSE "ask")
    /\ UNCHANGED <<world, store, issued, hmeLock, fence, generation, flight, stopping, ops>>

\* Apple's setup service issues a new session, or refuses.
Ask(t) ==
    /\ th[t].at = "ask"
    /\ \/ /\ ~stop /\ issued' = issued + 1
          /\ th' = [th EXCEPT ![t].at = "list", ![t].cand = issued']
       \/ Fails(t) /\ UNCHANGED issued
    /\ UNCHANGED <<world, store, hmeLock, fence, generation, flight, stopping, ops>>

\* Apple's list is read, or refused; a synchronisation whose session Apple
\* rejects refreshes it.
List(t) ==
    /\ th[t].at = "list"
    /\ \/ /\ ~Refused(apple) /\ ~(stop /\ th[t].task = "refresh")
          /\ th' = [th EXCEPT ![t].at = "commit", ![t].list = apple]
       \/ Fails(t)
       \/ th[t].task = "sync" /\ th' = [th EXCEPT ![t] = [Idle EXCEPT !.at = "enter"]]
    /\ UNCHANGED <<world, store, issued, hmeLock, fence, generation, flight, stopping, ops>>

\* A mutant of Stale: the generation is not compared.
StaleActive(t) == active /\ ~During(t)

\* A write is under way that the snapshot is no part of, or one was since.
Stale(t) == (active /\ ~During(t)) \/ th[t].seen # generation

\* _commit_alias_snapshot.  A refresh that was overtaken takes the session that
\* is stored by now.
Commit(t) ==
    /\ th[t].at = "commit" /\ MayLock(t)
    /\ \/ Stale(t) /\ UNCHANGED <<store, generation>>
       \/ /\ ~Stale(t)
          /\ session' = IF th[t].task = "sync" THEN session ELSE th[t].cand
          /\ row' = IF During(t) THEN row ELSE Reconciled(th[t].list)
          /\ generation' = generation + 1
    /\ th' = [th EXCEPT ![t] = Finished(@, session' = 0)]
    /\ UNCHANGED <<world, issued, hmeLock, fence, flight, stopping, ops>>

\* A mutant of End: the flag is reset only after a success.
EndKeepsFlag(t) ==
    /\ th[t].at = "end"
    /\ refreshing' = th[t].bad /\ refreshError' = th[t].bad
    /\ refreshes' = refreshes + 1
    /\ th' = [th EXCEPT ![t] = Returned(@, ~@.bad)]
    /\ UNCHANGED <<world, store, issued, hmeLock, fence, generation, stopping, ops>>

\* The finally block: publish the outcome and wake the waiters.
End(t) ==
    /\ th[t].at = "end"
    /\ refreshing' = FALSE /\ refreshError' = th[t].bad
    /\ refreshes' = refreshes + 1
    /\ th' = [th EXCEPT ![t] = Returned(@, ~@.bad)]
    /\ UNCHANGED <<world, store, issued, hmeLock, fence, generation, stopping, ops>>

-----------------------------------------------------------------------------
(* Writes: the fence around them, and the operator's three.                *)

\* _ensure_hme_fresh: the last validation is recent, or the thread refreshes.
Fresh(t) ==
    /\ th[t].at = "fresh"
    /\ \/ stop /\ Leave(t)
       \/ ~stop /\ Goto(t, "fence")
       \/ ~stop /\ th' = [th EXCEPT ![t].at = "enter", ![t].back = "fence"]
    /\ UNCHANGED <<world, store, issued, hmeLock, fence, generation, flight, stopping, ops>>

\* _begin_remote_write, outside the lock: refused while stopping or busy.
Fence(t) ==
    /\ th[t].at = "fence"
    /\ \/ (stop \/ remoteWrite # None) /\ Leave(t) /\ UNCHANGED remoteWrite
       \/ ~stop /\ remoteWrite = None /\ remoteWrite' = t /\ Goto(t, "activate")
    /\ UNCHANGED <<world, store, issued, hmeLock, active, generation, flight, stopping, ops>>

\* A mutant of Activate: the stop event is not looked at again under the lock.
ActivateUnchecked(t) ==
    /\ th[t].at = "activate" /\ MayLock(t)
    /\ active' = TRUE /\ generation' = generation + 1
    /\ Goto(t, "open")
    /\ UNCHANGED <<world, store, issued, hmeLock, remoteWrite, flight, stopping, ops>>

\* _begin_remote_write, under the lock: snapshots begun before are stale now.
Activate(t) ==
    /\ th[t].at = "activate" /\ MayLock(t)
    /\ \/ stop /\ Leave(t) /\ remoteWrite' = None /\ UNCHANGED <<active, generation>>
       \/ /\ ~stop /\ active' = TRUE /\ generation' = generation + 1
          /\ Goto(t, "open") /\ UNCHANGED remoteWrite
    /\ UNCHANGED <<world, store, issued, hmeLock, flight, stopping, ops>>

\* _remote_alias: the write's precondition on the local row; and its session.
Open(t) ==
    /\ th[t].at = "open" /\ MayLock(t) /\ th[t].plan \notin {"create", "resume"}
    /\ LET r == row[th[t].target]
           fits == HasRow(th[t].target) /\ (Active(r) <=> th[t].plan = "deactivate")
       IN IF fits /\ session # 0 THEN Goto(t, "write") ELSE Ends(t)
    /\ UNCHANGED <<world, store, issued, hmeLock, fence, generation, flight, stopping, ops>>

\* What the write makes of the alias at Apple; what is so already stays.
Written(p, h) ==
    IF h \notin Live THEN h
    ELSE IF p = "delete" THEN Gone
    ELSE IF Active(h) <=> p = "deactivate" THEN h + 1
    ELSE h

\* Apple carries the write out, with or without an answer, or does not; a
\* rejected session is refreshed, and the operator has to repeat the write.
Write(t) ==
    /\ th[t].at = "write"
    /\ \/ LET a == th[t].target
              h == Written(th[t].plan, apple[a])
          IN /\ h = Gone => th[t].plan = "delete" \/ apple[a] = Gone
             /\ apple' = [apple EXCEPT ![a] = h]
             /\ Goto(t, "confirm") \/ Ends(t)
       \/ Ends(t) /\ UNCHANGED apple
       \/ /\ th' = [th EXCEPT ![t].at = "enter", ![t].back = "unfence"]
          /\ UNCHANGED apple
    /\ UNCHANGED <<external, store, issued, hmeLock, fence, generation, flight,
                   stopping, ops>>

\* The state that confirms the write.
Confirms(p, h) ==
    IF p = "delete" THEN h \notin Live
    ELSE h \in Live /\ (Active(h) <=> p = "reactivate")

\* _confirmed_remote_aliases: one of its lists is complete and shows the state,
\* or none does.
Confirm(t) ==
    /\ th[t].at = "confirm"
    /\ \/ /\ Confirms(th[t].plan, apple[th[t].target])
          /\ Complete(apple, IF th[t].plan = "delete" THEN {th[t].target} ELSE {})
          /\ th' = [th EXCEPT ![t].at = "apply", ![t].list = apple]
       \/ Ends(t)
    /\ UNCHANGED <<world, store, issued, hmeLock, fence, generation, flight, stopping, ops>>

\* The confirmed list is committed; a deleted alias loses its row.
Apply(t) ==
    /\ th[t].at = "apply" /\ MayLock(t)
    /\ row' = [a \in Alias |->
                 IF th[t].plan = "delete" /\ a = th[t].target THEN Removed
                 ELSE Reconciled(th[t].list)[a]]
    /\ generation' = generation + 1
    /\ Ends(t)
    /\ UNCHANGED <<world, session, issued, hmeLock, fence, flight, stopping, ops>>

\* _finish_remote_write.
Unfence(t) ==
    /\ th[t].at = "unfence" /\ MayLock(t)
    /\ active' = FALSE /\ remoteWrite' = None
    /\ Leave(t)
    /\ UNCHANGED <<world, store, issued, hmeLock, generation, flight, stopping, ops>>

-----------------------------------------------------------------------------
(* A creation: it holds the lock from the session to the last transaction. *)

\* The client, while it is used, rotates to a newer session or does not.
Rotates == issued' \in {issued, issued + 1}
Turned(turn) == IF issued' = issued THEN turn ELSE issued'

\* A mutant of Persisted: the stored session is not compared.
PersistedBlind(r) == IF r.turn # 0 THEN r.turn ELSE session

\* _persist_rotated_hme_session, when a client is closed.
Persisted(r) == IF r.turn # 0 /\ session = r.orig THEN r.turn ELSE session

\* The lock is taken and a client opened: for a saved candidate that has to be
\* looked up first, or for the calls of _create_alias.
OpenCreate(t) ==
    /\ th[t].at = "open" /\ MayLock(t) /\ th[t].plan \in {"create", "resume"}
    /\ \/ /\ session = 0 /\ UNCHANGED hmeLock
          /\ th' = [th EXCEPT ![t].at = "enter", ![t].back = "closeout"]
       \/ /\ session # 0 /\ hmeLock' = t
          /\ th' = [th EXCEPT ![t].at = IF th[t].plan = "resume" THEN "reopen" ELSE "call",
                              ![t].orig = session, ![t].turn = 0]
    /\ UNCHANGED <<world, store, issued, fence, generation, flight, stopping, ops>>

\* generate_alias and reserve_alias.  Before the reserve, a stop or a failure
\* leaves the lock; a rejected session is refreshed outside it.  A reserve
\* without a good answer is looked up.
Call(t) ==
    /\ th[t].at = "call" /\ Rotates
    /\ LET a == th[t].target
           r == [th[t] EXCEPT !.turn = Turned(@)]
       IN \/ /\ ~stop /\ apple[a] = Unborn /\ apple' = [apple EXCEPT ![a] = 0]
             /\ UNCHANGED hmeLock
             /\ \/ th' = [th EXCEPT ![t] = [r EXCEPT !.at = "store", !.list = apple']]
                \/ th' = [th EXCEPT ![t] = [r EXCEPT !.at = "reopen"]]
          \/ /\ ~stop /\ UNCHANGED <<apple, hmeLock>>
             /\ th' = [th EXCEPT ![t] = [r EXCEPT !.at = "reopen"]]
          \/ /\ hmeLock' = None /\ UNCHANGED apple
             /\ \/ th' = [th EXCEPT ![t] = [r EXCEPT !.at = "closeout"]]
                \/ th' = [th EXCEPT ![t] = [r EXCEPT !.at = "enter", !.back = "closeout"]]
    /\ UNCHANGED <<external, store, fence, generation, flight, stopping, ops>>

\* The client of the look-up: the last one is closed, and the session read.
Reopen(t) ==
    /\ th[t].at = "reopen"
    /\ session' = Persisted(th[t])
    /\ th' = [th EXCEPT ![t].at = IF stop \/ session' = 0 THEN "release" ELSE "lookup",
                        ![t].orig = session', ![t].turn = 0]
    /\ UNCHANGED <<world, row, issued, hmeLock, fence, generation, flight, stopping, ops>>

\* _validated_candidate_snapshot: found, absent or unavailable; a rejected
\* session is refreshed once, with the lock held.
Lookup(t) ==
    /\ th[t].at = "lookup" /\ Rotates
    /\ LET r == [th[t] EXCEPT !.turn = Turned(@)]
       IN \/ /\ th[t].target \in Listed(apple) /\ UNCHANGED session
             /\ th' = [th EXCEPT ![t] = [r EXCEPT !.at = "store", !.list = apple]]
          \/ /\ th[t].plan = "resume" /\ th[t].target \notin Listed(apple)
             /\ Complete(apple, {}) /\ ~Refused(apple)
             /\ session' = Persisted(r)
             /\ th' = [th EXCEPT ![t].at = "call", ![t].plan = "create",
                                 ![t].orig = session', ![t].turn = 0]
          \/ /\ UNCHANGED session
             /\ th' = [th EXCEPT ![t] = [r EXCEPT !.at = "release"]]
          \/ /\ ~th[t].tried /\ UNCHANGED session
             /\ th' = [th EXCEPT ![t] =
                         [r EXCEPT !.at = "enter", !.back = "reopen", !.tried = TRUE]]
    /\ UNCHANGED <<world, row, hmeLock, fence, generation, flight, stopping, ops>>

\* _complete_created_alias: the row of the new alias, as Apple answered.
Store(t) ==
    /\ th[t].at = "store"
    /\ row' = [row EXCEPT ![th[t].target] = th[t].list[th[t].target]]
    /\ th' = [th EXCEPT ![t].at = "release", ![t].list = NoList]
    /\ UNCHANGED <<world, session, issued, hmeLock, fence, generation, flight,
                   stopping, ops>>

\* The client is closed and the lock released.
Release(t) ==
    /\ th[t].at = "release"
    /\ session' = Persisted(th[t]) /\ hmeLock' = None
    /\ Ends(t)
    /\ UNCHANGED <<world, row, issued, fence, generation, flight, stopping, ops>>

\* The finally block closes the client of a creation that left the lock early.
Closeout(t) ==
    /\ th[t].at = "closeout" /\ MayLock(t)
    /\ session' = Persisted(th[t])
    /\ Ends(t)
    /\ UNCHANGED <<world, row, issued, hmeLock, fence, generation, flight, stopping, ops>>

-----------------------------------------------------------------------------
(* The rest of the world.                                                  *)

\* Apple's user creates, switches or deletes an alias on Apple's own pages.
Elsewhere(a) ==
    /\ external < MaxExternal /\ external' = external + 1
    /\ apple[a] # Gone
    /\ \E h \in {apple[a] + 1, Gone} :
          /\ apple[a] = Unborn => h = 0
          /\ apple' = [apple EXCEPT ![a] = h]
    /\ UNCHANGED <<store, issued, hmeLock, fence, generation, flight, stopping, th, ops>>

\* The process is asked to stop.
AskStop ==
    /\ ~stopAsked /\ stopAsked' = TRUE
    /\ UNCHANGED <<world, store, issued, hmeLock, fence, generation, flight, stop, th, ops>>

\* request_stop sets the event under the lock and wakes the waiters.
SetStop ==
    /\ stopAsked /\ ~stop /\ hmeLock = None
    /\ stop' = TRUE
    /\ UNCHANGED <<world, store, issued, hmeLock, fence, generation, flight,
                   stopAsked, th, ops>>

Start(t) == BeginSnapshot(t) \/ BeginRefresh(t) \/ BeginWrite(t)
Refreshes(t) ==
    Enter(t) \/ Wake(t) \/ Begin(t) \/ Read(t) \/ Ask(t) \/ List(t) \/ Commit(t) \/ End(t)
Writes(t) ==
    \/ Fresh(t) \/ Fence(t) \/ Activate(t) \/ Open(t) \/ Write(t) \/ Confirm(t)
    \/ Apply(t) \/ Unfence(t)
Creates(t) ==
    \/ OpenCreate(t) \/ Call(t) \/ Reopen(t) \/ Lookup(t) \/ Store(t)
    \/ Release(t) \/ Closeout(t)
Run(t) == Refreshes(t) \/ Writes(t) \/ Creates(t)

Next ==
    \/ \E t \in Thread : Start(t) \/ Run(t)
    \/ \E a \in Alias : Elsewhere(a)
    \/ AskStop \/ SetStop

Spec == Init /\ [][Next]_vars

\* Threads are scheduled, and every call to Apple has a timeout.
FairSpec == Spec /\ WF_vars(SetStop) /\ \A t \in Thread : WF_vars(Run(t))

-----------------------------------------------------------------------------
(* Properties.                                                             *)

\* Every variable ranges over the values the code can give it.
TypeOK ==
    /\ apple \in [Alias -> History] /\ external \in Nat
    /\ row \in [Alias -> History \cup {Removed}]
    /\ session \in 0 .. issued /\ issued \in Nat
    /\ hmeLock \in Thread \cup {None} /\ remoteWrite \in Thread \cup {None}
    /\ active \in BOOLEAN /\ generation \in Nat
    /\ refreshing \in BOOLEAN /\ refreshes \in Nat /\ refreshError \in BOOLEAN
    /\ stopAsked \in BOOLEAN /\ stop \in BOOLEAN
    /\ th \in [Thread -> Locals] /\ ops \in Nat

\* A local row reflects only what happened at Apple: a list that is committed
\* never hides an alias that was created after it was read.
Behind(l, a) == IF row[a] = Removed THEN l[a] = Gone ELSE row[a] <= l[a]
NeverAheadOfApple == \A a \in Alias : Behind(apple, a)

InRefresh(r) == r.at \in Fetching \cup {"enter", "wait", "end"}
InFlight(r) == (r.task = "refresh" /\ r.at \in Fetching) \/ r.at = "end"
KeepsLock(r) ==
    \/ r.at \in {"call", "lookup", "reopen", "store", "release"}
    \/ InRefresh(r) /\ r.back = "reopen"
HoldsFence(r) ==
    \/ r.at \in Fenced \cup {"activate"}
    \/ InRefresh(r) /\ r.back \in {"unfence", "reopen", "closeout"}

\* The lock is kept by the creation that calls Apple, and by no other thread.
LockHeld == \A t \in Thread : hmeLock = t <=> KeepsLock(th[t])

\* The fence is held by the write under way, and the flag says that there is one.
FenceHeld ==
    /\ \A t \in Thread : remoteWrite = t <=> HoldsFence(th[t])
    /\ active <=> remoteWrite # None /\ th[remoteWrite].at # "activate"

\* The generation has not moved since the snapshot of the thread began.
Current(t) == th[t].at \in Fetching \ {"begin"} /\ th[t].seen = generation

\* A snapshot that can be committed belongs to the write under way, or there is
\* none; it knows every row, and a newer session than the stored one.
SnapshotCurrent(t) ==
    /\ th[t].seen <= generation
    /\ Current(t) => During(t) \/ ~active
    /\ th[t].at = "commit" =>
          \A a \in Alias : th[t].list[a] <= apple[a] /\ (Current(t) => Behind(th[t].list, a))
    /\ Current(t) /\ th[t].at \in {"list", "commit"} /\ th[t].task # "sync" =>
          session < th[t].cand

\* A write goes on with the row it found, and the list it confirmed is current.
WriteCurrent(t) ==
    /\ th[t].at \in {"write", "confirm", "apply"} => HasRow(th[t].target)
    /\ th[t].at \in {"apply", "store"} =>
          \A a \in Alias : th[t].list[a] <= apple[a] /\ Behind(th[t].list, a)
    /\ th[t].at = "apply" /\ th[t].plan = "delete" => th[t].list[th[t].target] \notin Live
    /\ th[t].at = "store" => th[t].list[th[t].target] \in Live

\* Locals that go together: only a refresh comes from inside an operation, only a
\* write has an alias, and a client rotates to a session newer than its own.
Coherent(r) ==
    /\ r.at \in Fetching => r.task = "refresh" \/ r.back = "idle"
    /\ r.at = "end" => r.task = "refresh"
    /\ IF r.plan = "none"
       THEN /\ r.at \in Fetching \cup {"idle", "enter", "wait", "end", "unfence"}
            /\ r.back = "idle"
       ELSE r.target \in Alias
    /\ r.turn # 0 => r.orig < r.turn
    /\ r.orig <= issued /\ r.turn <= issued /\ r.cand <= issued

\* A row never goes back to an older state of its alias, nor does a deleted row
\* return: a list read before a write of the gateway is not committed after it
\* (test_stale_sync_snapshot_cannot_reactivate_a_deactivated_alias and
\* test_stale_sync_snapshot_cannot_restore_a_deleted_alias for one schedule).
SnapshotsMoveForward == [][\A a \in Alias : row'[a] >= row[a]]_vars

\* A stored session is only replaced by one that is newer, by whatever thread.
SessionsMoveForward == [][session' >= session]_vars

\* Until the process stops, one thread at a time refreshes ("it is
\* single-flight", web.py:865).
SingleFlight ==
    stop \/ \A t, u \in Thread : InFlight(th[t]) /\ InFlight(th[u]) => t = u

\* Until then the flag says that a refresh is under way.
FlightFlagged == stop \/ \A t \in Thread : InFlight(th[t]) => refreshing

\* The inductive invariant: no list, session or flag that a later step relies on
\* can be overtaken by another thread.
IInv ==
    /\ TypeOK /\ NeverAheadOfApple /\ LockHeld /\ FenceHeld
    /\ \A t \in Thread : SnapshotCurrent(t) /\ WriteCurrent(t) /\ Coherent(th[t])
    /\ SingleFlight /\ FlightFlagged

\* No write is admitted after the stop event is set.
NoWriteAfterStop == [][stop /\ ~active => ~active']_vars

\* A thread waits for a refresh while it holds the lock that the refresh needs.
LockedWait == hmeLock # None /\ th[hmeLock].at = "wait"

\* Every operation ends, unless a creation waits for a refresh with the lock
\* held.
OperationsEnd ==
    \A t \in Thread : th[t].at # "idle" ~> (th[t].at = "idle" \/ LockedWait)

\* Stopping takes bounded time (README.md:262).
StopCompletes == stopAsked ~> stop
=============================================================================
