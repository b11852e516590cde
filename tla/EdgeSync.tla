------------------------------- MODULE EdgeSync -------------------------------
(***************************************************************************)
(* One alias in two places: its row in the control's database              *)
(* (icloud_gateway/service.py, database.py) and its row at the edge worker *)
(* (cloudflare-mailbox/src/aliases), with the requests between them.       *)
(*                                                                         *)
(* Three threads of the control push to the edge.  "op" stands for all     *)
(* operations that hold _hme_lock while they push (issue, revoke,          *)
(* deactivate, reactivate, delete); "job" is the creation job, which       *)
(* pushes outside that lock; "rec" is the reconciler, which takes neither. *)
(* A request can be lost, its answer can be lost, and a request whose      *)
(* client stopped waiting can still be carried out later.                  *)
(*                                                                         *)
(* Simplifications: aliases do not influence each other at either side, so *)
(* there is one; labels, notes and digests carry no control; keys are      *)
(* numbered in the order they are generated; a push by the button of the   *)
(* console is a pass of the reconciler that starts early; the Apple calls  *)
(* of a lifecycle operation, and the transactions of a creation, precede   *)
(* their step here (see BatchJobs); the worker's last read of the row,     *)
(* which only builds the answer, is left out.                              *)
(***************************************************************************)
EXTENDS Naturals

CONSTANTS
    Late,             \* places for requests whose client stopped waiting
    MaxKey,           \* bound: keys
    MaxOps,           \* bound: operations and changes at Apple
    MaxFaults,        \* bound: lost and abandoned requests, crashed threads
    CloudKeyAtStart   \* the edge may start with a key the control never had

Client == {"op", "job", "rec"}
Place == Client \cup Late

ASSUME LateAssumption == Late \cap Client = {}
ASSUME EdgeBoundsAssumption ==
    MaxKey \in Nat \ {0} /\ MaxOps \in Nat /\ MaxFaults \in Nat
ASSUME EdgeSwitchAssumption == CloudKeyAtStart \in BOOLEAN

Listed == {"active", "inactive"}     \* the database has a row of the alias
NoKey == 0
CloudKey == 1       \* the key the edge may start with; the control never has it
Key == 1 .. MaxKey

VARIABLES
    state,      \* control: aliases.state of the alias, or why there is no row
    key,        \* control: its access key
    status,     \* control: edge_key_status, what it last heard of the edge
    edge,       \* edge: the row of the alias
    net,        \* the request of each client and the abandoned ones
    at,         \* where each client stands
    confirm,    \* op: confirm_remote_replacement of the issue under way
    had,        \* op: had_local_key of the issue under way
    payload,    \* the key each client is about to send, read earlier
    lastKey,    \* the newest key generated so far
    ops,        \* operations so far
    faults,     \* faults so far
    restored    \* history: the edge got its own first key back after it lost it

local == <<state, key, status>>
clients == <<at, confirm, had, payload>>
bounds == <<lastKey, ops, faults>>
vars == <<local, edge, net, clients, bounds, restored>>

KeyStatus == {"unknown", "present", "absent", "not_found"}
EdgeRow == [state : {"none", "active", "inactive"}, key : Key \cup {NoKey}]
NoRow == [state |-> "none", key |-> NoKey]

\* explicit is no field of the request: it records that an operator confirmed
\* the replacement, or rotated a key that the control holds.
Request ==
    [kind : {"none", "status", "upsert", "issue", "revoke", "delete"},
     stage : {"none", "sent", "read", "done"},
     state : {"active", "inactive"}, key : Key \cup {NoKey},
     replace : BOOLEAN, explicit : BOOLEAN, seen : EdgeRow,
     answer : KeyStatus \cup {"ok", "conflict", "missing"}]
NoRequest ==
    [kind |-> "none", stage |-> "none", state |-> "active", key |-> NoKey,
     replace |-> FALSE, explicit |-> FALSE, seen |-> NoRow, answer |-> "ok"]

Sent(kind) == [NoRequest EXCEPT !.kind = kind, !.stage = "sent"]
Upsert(s, k) == [Sent("upsert") EXCEPT !.state = s, !.key = k]

\* Where a client waits for the answer to a push.
OpPush == {"issue", "revoke", "state", "delete"}
Pushing == OpPush \cup {"create", "push"}
Waits == Pushing \cup {"check", "status"}
Step == Waits \cup {"idle", "gate", "issued", "created", "listing", "payload"}

-----------------------------------------------------------------------------
Init ==
    /\ state \in {"none", "active"} /\ key = NoKey /\ status = "unknown"
    /\ \/ edge = NoRow
       \/ CloudKeyAtStart /\ edge = [state |-> "active", key |-> CloudKey]
    /\ net = [p \in Place |-> NoRequest]
    /\ at = [c \in Client |-> "idle"]
    /\ confirm = FALSE /\ had = FALSE
    /\ payload = [c \in Client |-> NoKey]
    /\ lastKey = CloudKey /\ ops = 0 /\ faults = 0
    /\ restored = FALSE

-----------------------------------------------------------------------------
(* The worker: each handler answers one request.  It reads the row in one  *)
(* query and writes it in another; other handlers come in between.         *)

\* What the handler read of the row before it writes.
Seen(p) == net[p].seen

Ready(p, kind) == net[p].kind = kind /\ net[p].stage = "read"

\* The row that is stored.
Store(row) ==
    /\ edge' = row
    /\ restored' = (restored \/ (edge.key # CloudKey /\ row.key = CloudKey))

\* Nobody waits for the answer to an abandoned request.
Answer(p, a) ==
    net' = [net EXCEPT ![p] =
              IF p \in Late THEN NoRequest
              ELSE [@ EXCEPT !.stage = "done", !.answer = a, !.seen = NoRow]]

control == <<local, clients, bounds>>

\* getByDigest.  An issue for an alias the edge does not know goes on as an
\* upsert, which reads the row again.
ReadRow(p) ==
    /\ net[p].stage = "sent" /\ net[p].kind # "status"
    /\ net' = [net EXCEPT ![p] =
                 IF @.kind = "issue" /\ edge.state = "none"
                 THEN [@ EXCEPT !.kind = "upsert"]
                 ELSE [@ EXCEPT !.stage = "read", !.seen = edge]]
    /\ UNCHANGED <<edge, restored, control>>

\* Mutants of Stored: the statement has no WHERE and no CASE; the CASE has no
\* ELSE.
StoredAlways(row, s, token, replace) == [state |-> s, key |-> token]

StoredNoElse(row, s, token, replace) ==
    IF row.state = "none" \/ replace \/ row.key = NoKey THEN [state |-> s, key |-> token]
    ELSE IF token = NoKey \/ token = row.key THEN [state |-> s, key |-> NoKey]
    ELSE row

\* INSERT ... ON CONFLICT DO UPDATE ... WHERE of the repository.
Stored(row, s, token, replace) ==
    IF row.state = "none" THEN [state |-> s, key |-> token]
    ELSE IF replace \/ row.key = NoKey THEN [state |-> s, key |-> token]
    ELSE IF token = NoKey \/ token = row.key THEN [row EXCEPT !.state = s]
    ELSE row

Differs(row, k) == row.key # NoKey /\ row.key # k

ServeUpsert(p) ==
    LET r == net[p]
        token == IF r.state = "inactive" THEN NoKey
                 ELSE IF r.key # NoKey THEN r.key ELSE Seen(p).key
        replace == r.state = "inactive" \/ Seen(p).key = NoKey
    IN  /\ Ready(p, "upsert")
        /\ Store(Stored(edge, r.state, token, replace))
        /\ Answer(p, IF r.state = "active" /\ r.key # NoKey /\ Differs(Seen(p), r.key)
                     THEN "conflict" ELSE "ok")
        /\ UNCHANGED control

\* Mutant of ServeIssue: replace_existing is only looked at for the answer.
ServeIssueKeeping(p) ==
    LET r == net[p]
    IN  /\ Ready(p, "issue")
        /\ Store(Stored(edge, "active", r.key, Seen(p).key = NoKey))
        /\ Answer(p, IF ~r.replace /\ Differs(Seen(p), r.key) THEN "conflict" ELSE "ok")
        /\ UNCHANGED control

ServeIssue(p) ==
    LET r == net[p]
        replace == r.replace \/ Seen(p).key = NoKey
    IN  /\ Ready(p, "issue")
        /\ Store(Stored(edge, "active", r.key, replace))
        /\ Answer(p, IF ~r.replace /\ Differs(Seen(p), r.key) THEN "conflict" ELSE "ok")
        /\ UNCHANGED control

\* The UPDATE also makes the alias active.
ServeRevoke(p) ==
    /\ Ready(p, "revoke")
    /\ Store(IF Seen(p).state = "none" \/ edge.state = "none" THEN edge
             ELSE [state |-> "active", key |-> NoKey])
    /\ Answer(p, IF Seen(p).state = "none" THEN "missing" ELSE "ok")
    /\ UNCHANGED control

ServeDelete(p) ==
    /\ Ready(p, "delete")
    /\ Store(IF Seen(p).state = "none" THEN edge ELSE NoRow)
    /\ Answer(p, IF Seen(p).state = "none" THEN "missing" ELSE "ok")
    /\ UNCHANGED control

\* One read, which is the answer.
ServeStatus(p) ==
    /\ net[p].kind = "status" /\ net[p].stage = "sent"
    /\ Answer(p, IF edge.state = "none" THEN "not_found"
                 ELSE IF edge.key # NoKey THEN "present" ELSE "absent")
    /\ UNCHANGED <<edge, restored, control>>

Serve(p) ==
    \/ ReadRow(p) \/ ServeUpsert(p) \/ ServeIssue(p) \/ ServeRevoke(p)
    \/ ServeDelete(p) \/ ServeStatus(p)

-----------------------------------------------------------------------------
(* The control: a client sends a request and waits for its answer.         *)

Goto(c, step) == at' = [at EXCEPT ![c] = step]
Send(c, r) == net' = [net EXCEPT ![c] = r]
Forget(c) == Send(c, NoRequest)
Answered(c) == net[c].stage = "done"
Operation == ops < MaxOps /\ ops' = ops + 1

\* A generated key is new.
NewKey ==
    /\ lastKey < MaxKey
    /\ lastKey' = lastKey + 1
    /\ key' = lastKey + 1

HmeLockFree == at["op"] = "idle"
RemoteWriteFree == at["job"] = "idle"

(* Operations that hold _hme_lock.                                         *)

\* Mutant of BeginIssue: the status that is stored is trusted.
BeginIssueCached(c) ==
    /\ HmeLockFree /\ RemoteWriteFree /\ state = "active" /\ Operation
    /\ confirm' = c /\ had' = (key # NoKey)
    /\ Goto("op", "gate")
    /\ UNCHANGED <<local, edge, restored, net, payload, lastKey, faults>>

\* issue_access_key: without a local key, ask the edge for its key first.
BeginIssue(c) ==
    /\ HmeLockFree /\ RemoteWriteFree /\ state = "active" /\ Operation
    /\ confirm' = c /\ had' = (key # NoKey)
    /\ IF key # NoKey THEN Goto("op", "gate") /\ UNCHANGED net
       ELSE Goto("op", "check") /\ Send("op", Sent("status"))
    /\ UNCHANGED <<local, edge, restored, payload, lastKey, faults>>

CheckAnswered ==
    /\ at["op"] = "check" /\ Answered("op")
    /\ status' = net["op"].answer
    /\ Goto("op", "gate") /\ Forget("op")
    /\ UNCHANGED <<state, key, edge, restored, confirm, had, payload, bounds>>

KeyConflict == ~had /\ status = "present" /\ ~confirm

RefuseIssue ==
    /\ at["op"] = "gate" /\ KeyConflict
    /\ Goto("op", "idle")
    /\ UNCHANGED <<local, edge, restored, net, confirm, had, payload, bounds>>

\* Mutant of IssueLocally: the gate is not consulted.
IssueLocallyUngated ==
    /\ at["op"] = "gate" /\ NewKey
    /\ Goto("op", "issued")
    /\ UNCHANGED <<state, status, edge, restored, net, confirm, had, payload, ops, faults>>

IssueLocally ==
    /\ at["op"] = "gate" /\ ~KeyConflict /\ NewKey
    /\ Goto("op", "issued")
    /\ UNCHANGED <<state, status, edge, restored, net, confirm, had, payload, ops, faults>>

PushIssue ==
    /\ at["op"] = "issued"
    /\ Send("op", [Sent("issue") EXCEPT
                     !.key = key, !.explicit = confirm \/ had,
                     !.replace = confirm \/ had \/ status # "present"])
    /\ Goto("op", "issue")
    /\ UNCHANGED <<local, edge, restored, confirm, had, payload, bounds>>

Revoke ==
    /\ HmeLockFree /\ state \in Listed /\ Operation
    /\ key' = NoKey
    /\ Send("op", Sent("revoke")) /\ Goto("op", "revoke")
    /\ UNCHANGED <<state, status, edge, restored, confirm, had, payload, lastKey, faults>>

\* deactivate_alias and reactivate_alias, once Apple has confirmed them.
SetState(s) ==
    /\ HmeLockFree /\ RemoteWriteFree /\ state \in Listed \ {s} /\ Operation
    /\ state' = s
    /\ key' = IF s = "inactive" THEN NoKey ELSE key
    /\ Send("op", Upsert(s, NoKey)) /\ Goto("op", "state")
    /\ UNCHANGED <<status, edge, restored, confirm, had, payload, lastKey, faults>>

Delete ==
    /\ HmeLockFree /\ RemoteWriteFree /\ state = "inactive" /\ Operation
    /\ state' = "deleted" /\ key' = NoKey /\ status' = "unknown"
    /\ Send("op", Sent("delete")) /\ Goto("op", "delete")
    /\ UNCHANGED <<edge, restored, confirm, had, payload, lastKey, faults>>

\* _reconcile_remote_aliases: Apple's list changes the row; nothing is pushed.
SyncApple(s) ==
    /\ HmeLockFree /\ RemoteWriteFree /\ state \notin {"deleted", s} /\ Operation
    /\ state' = s
    /\ key' = IF s = "inactive" THEN NoKey ELSE key
    /\ UNCHANGED <<status, edge, restored, net, clients, lastKey, faults>>

(* The creation job.                                                       *)

\* An address is created once: its job does not come back to it later.
CreateLocally ==
    /\ HmeLockFree /\ RemoteWriteFree /\ state \in {"none", "active"} /\ Operation
    /\ payload["job"] = NoKey
    /\ state' = "active" /\ NewKey
    /\ payload' = [payload EXCEPT !["job"] = lastKey + 1]
    /\ Goto("job", "created")
    /\ UNCHANGED <<status, edge, restored, net, confirm, had, faults>>

PushCreate ==
    /\ at["job"] = "created"
    /\ Send("job", Upsert("active", payload["job"])) /\ Goto("job", "create")
    /\ UNCHANGED <<local, edge, restored, confirm, had, payload, bounds>>

\* What an acknowledged push tells of the key at the edge.
StatusAfter(step) ==
    IF step \in {"issue", "create"} THEN "present"
    ELSE IF step = "revoke" THEN "absent" ELSE status

PushAnswered(c) ==
    /\ at[c] \in Pushing /\ Answered(c)
    /\ status' = IF net[c].answer = "ok" /\ state \in Listed
                 THEN StatusAfter(at[c]) ELSE status
    /\ Goto(c, "idle") /\ Forget(c)
    /\ UNCHANGED <<state, key, edge, restored, confirm, had, payload, bounds>>

(* The reconciler: _edge_reconcile_loop.                                   *)

AskStatus ==
    /\ at["rec"] = "idle" /\ state \in Listed
    /\ Send("rec", Sent("status")) /\ Goto("rec", "status")
    /\ UNCHANGED <<local, edge, restored, confirm, had, payload, bounds>>

StatusAnswered ==
    /\ at["rec"] = "status" /\ Answered("rec")
    /\ status' = IF state \in Listed THEN net["rec"].answer ELSE status
    /\ Goto("rec", "listing") /\ Forget("rec")
    /\ UNCHANGED <<state, key, edge, restored, confirm, had, payload, bounds>>

\* Mutants of ListAlias: a key is sent only where the edge has one; aliases
\* without a key are not sent.
ListAliasSwapped ==
    /\ at["rec"] = "listing" /\ state = "active"
    /\ payload' = [payload EXCEPT !["rec"] = IF status = "absent" THEN NoKey ELSE key]
    /\ Goto("rec", "payload")
    /\ UNCHANGED <<local, edge, restored, net, confirm, had, bounds>>

ListAliasKeyed ==
    /\ at["rec"] = "listing" /\ state = "active" /\ key # NoKey
    /\ payload' = [payload EXCEPT !["rec"] = IF status = "present" THEN NoKey ELSE key]
    /\ Goto("rec", "payload")
    /\ UNCHANGED <<local, edge, restored, net, confirm, had, bounds>>

\* push_all reads the alias; its key is withheld if the edge has one.
ListAlias ==
    /\ at["rec"] = "listing" /\ state = "active"
    /\ payload' = [payload EXCEPT !["rec"] = IF status = "present" THEN NoKey ELSE key]
    /\ Goto("rec", "payload")
    /\ UNCHANGED <<local, edge, restored, net, confirm, had, bounds>>

SkipAlias ==
    /\ at["rec"] = "listing" /\ state # "active"
    /\ Goto("rec", "idle")
    /\ UNCHANGED <<local, edge, restored, net, confirm, had, payload, bounds>>

PushListed ==
    /\ at["rec"] = "payload"
    /\ Send("rec", Upsert("active", payload["rec"])) /\ Goto("rec", "push")
    /\ UNCHANGED <<local, edge, restored, confirm, had, payload, bounds>>

Op ==
    \/ CheckAnswered \/ RefuseIssue \/ IssueLocally \/ PushIssue
    \/ PushAnswered("op")

Job == PushCreate \/ PushAnswered("job")

Reconcile ==
    \/ AskStatus \/ StatusAnswered \/ ListAlias \/ SkipAlias \/ PushListed
    \/ PushAnswered("rec")

Operator ==
    \/ \E c \in BOOLEAN : BeginIssue(c)
    \/ \E s \in {"active", "inactive"} : SetState(s) \/ SyncApple(s)
    \/ Revoke \/ Delete \/ CreateLocally

-----------------------------------------------------------------------------
(* Faults: the client's exchange fails, or its thread dies with the        *)
(* process.  The request was never carried out, or its answer is lost, or  *)
(* it is still under way.                                                  *)

Dropped(c) == net[c].stage # "read" /\ Forget(c)

Abandoned(c) ==
    /\ net[c].stage \in {"sent", "read"} /\ net[c].kind # "status"
    /\ \E l \in Late :
          /\ net[l] = NoRequest
          /\ net' = [net EXCEPT ![l] = net[c], ![c] = NoRequest]

Fail(c) ==
    /\ at[c] # "idle"
    /\ faults < MaxFaults /\ faults' = faults + 1
    /\ Dropped(c) \/ Abandoned(c)
    /\ \/ Goto(c, "idle")
       \/ at[c] = "status" /\ Goto(c, "listing")
    /\ UNCHANGED <<local, edge, restored, confirm, had, payload, lastKey, ops>>

\* The job dies before it has recorded the success, and will repeat it all.
CreateInterrupted ==
    /\ at["job"] = "created"
    /\ faults < MaxFaults /\ faults' = faults + 1
    /\ payload' = [payload EXCEPT !["job"] = NoKey] /\ Goto("job", "idle")
    /\ UNCHANGED <<local, edge, restored, net, confirm, had, lastKey, ops>>

Next ==
    \/ Op \/ Job \/ Reconcile \/ Operator
    \/ \E p \in Place : Serve(p)
    \/ \E c \in Client : Fail(c)
    \/ CreateInterrupted

Spec == Init /\ [][Next]_vars

\* The threads of the control run, every exchange ends, and the worker handles
\* what reaches it.  Operators and faults are not fair.
Fairness ==
    /\ WF_vars(Op) /\ WF_vars(Job) /\ WF_vars(Reconcile)
    /\ \A p \in Place : WF_vars(Serve(p))

FairSpec == Spec /\ Fairness

-----------------------------------------------------------------------------
(* Properties.                                                             *)

ControlTypeOK ==
    /\ state \in Listed \cup {"none", "deleted"}
    /\ key \in Key \cup {NoKey}
    /\ status \in KeyStatus
    /\ at \in [Client -> Step]
    /\ confirm \in BOOLEAN /\ had \in BOOLEAN
    /\ payload \in [Client -> Key \cup {NoKey}]
    /\ lastKey \in Key /\ ops \in Nat /\ faults \in Nat /\ restored \in BOOLEAN

\* Every variable ranges over the values the code can give it.
TypeOK ==
    /\ ControlTypeOK
    /\ edge \in EdgeRow
    /\ net \in [Place -> Request]

\* Each client is where its own code can be and waits for the answer to what it
\* sent; an issue carries a key.
OwnSteps ==
    /\ at["op"] \in OpPush \cup {"idle", "check", "gate", "issued"}
    /\ at["job"] \in {"idle", "created", "create"}
    /\ at["rec"] \in {"idle", "status", "listing", "payload", "push"}
    /\ at["op"] = "check" => net["op"].kind = "status"
    /\ at["rec"] = "status" => net["rec"].kind = "status"
    /\ \A c \in Client :
          net[c].kind = "status" /\ Answered(c) => net[c].answer \in KeyStatus
    /\ at["op"] = "issued" => key # NoKey
    /\ \A p \in Place :
          net[p].kind = "issue" /\ net[p].stage \in {"sent", "read"} => net[p].key # NoKey

\* The control never holds or sends the key that only the edge has; where there
\* is no row there is no key.
ForeignKey ==
    /\ key # CloudKey
    /\ \A c \in Client : payload[c] # CloudKey
    /\ \A p \in Place : net[p].key # CloudKey
    /\ edge.state = "none" => edge.key = NoKey

\* As long as the edge has kept that key, every handler has read it, every answer
\* about it says so, and an issue that passed the gate without confirmation
\* rotates a local key.
CloudKeySeen ==
    edge.key = CloudKey /\ ~restored =>
        /\ at["op"] = "check" /\ Answered("op") => net["op"].answer = "present"
        /\ at["rec"] = "status" /\ Answered("rec") => net["rec"].answer = "present"
        /\ at["op"] = "gate" /\ ~had /\ ~confirm => status = "present"
        /\ at["op"] = "issued" => confirm \/ had
        /\ \A p \in Place : net[p].stage = "read" => net[p].seen.key = CloudKey
        /\ \A p \in Place :
              net[p].kind = "issue" /\ net[p].stage \in {"sent", "read"} =>
                  net[p].explicit

\* No key is newer than the last one generated, wherever it is held, read or sent.
KeysGenerated ==
    /\ key <= lastKey /\ edge.key <= lastKey
    /\ \A c \in Client : payload[c] <= lastKey
    /\ \A p \in Place : net[p].key <= lastKey /\ net[p].seen.key <= lastKey

\* Only an operation that holds the lock sends an issue; its key is the newest,
\* and stays the control's key until its answer is there.
NewestIssued ==
    /\ at["op"] \in {"issued", "issue"} => key = lastKey
    /\ net["op"].kind = "issue" => at["op"] = "issue" /\ net["op"].key = key
    /\ net["job"].kind # "issue" /\ net["rec"].kind # "issue"

BaseInvariant == TypeOK /\ OwnSteps /\ ForeignKey
OrderInvariant == BaseInvariant /\ KeysGenerated /\ NewestIssued

\* The inductive invariant: a request that could replace the edge's own key is
\* only ever under way with the operator's word.
IInv == OrderInvariant /\ CloudKeySeen

\* The request that this step carries out.
Handled(p) == net[p].stage \in {"sent", "read"} /\ net'[p].stage \in {"done", "none"}

\* A handler that is about to write and whose read is out of date: another one
\* has changed the key since.
Stale(p) == Seen(p).key # edge.key

\* A key at the edge is replaced by another one only by an issue that asks for
\* the replacement ("an ordinary sync never overwrites a different key that the
\* edge already has", README.md:65, cloudflare-mailbox/README.md:214).
NoUnconfirmedReplacement ==
    [][edge.key # NoKey /\ edge'.key \notin {edge.key, NoKey} =>
          \E p \in Place : Handled(p) /\ net[p].kind = "issue" /\ net[p].replace]_vars

\* What is left of it where handlers interleave: only a handler whose read is out of
\* date (aliases/service.ts:64-112) replaces a key unasked.
NoFreshReplacement ==
    [][edge.key # NoKey /\ edge'.key \notin {edge.key, NoKey} =>
          \E p \in Place : Handled(p) /\
              \/ Stale(p)
              \/ net[p].kind = "issue" /\ net[p].replace]_vars

\* A key at the edge is removed only by a revocation, a deactivation or a
\* deletion ("a key the edge has is not cleared by a push without key",
\* README.md:54), or by such a handler.
NoFreshRemoval ==
    [][edge.key # NoKey /\ edge'.key = NoKey =>
          \E p \in Place : Handled(p) /\
              \/ Stale(p)
              \/ net[p].kind \in {"revoke", "delete"}
              \/ net[p].kind = "upsert" /\ net[p].state = "inactive"]_vars

\* The key the edge had before the control knew the alias, as long as it has kept
\* it, is replaced only by an operator who confirmed it, or who rotated a key the
\* control holds ("a cloud-only key still requires the confirmation gate",
\* service.py:1388), stale reads or not.
CloudOnlyKeyGuarded ==
    [][edge.key = CloudKey /\ ~restored /\ edge'.key \notin {CloudKey, NoKey} =>
          \E p \in Place : Handled(p) /\ net[p].explicit]_vars

\* An issue or a rotation that the worker acknowledges, with a read up to date, has
\* installed exactly the key it carried, however old the status is that set its
\* replacement flag.
FreshIssueInstalled ==
    [][Handled("op") /\ net["op"].kind = "issue" /\ ~Stale("op") /\
       net'["op"].stage = "done" /\ net'["op"].answer = "ok" =>
          edge' = [state |-> "active", key |-> key]]_vars

\* The edge goes back to an older key only by a request that its client had
\* abandoned or by a handler with a stale read, however stale the payloads of the
\* reconciler and the job are.
FreshMoveForward ==
    [][edge.key # NoKey /\ edge'.key # NoKey /\ edge'.key < edge.key =>
          \E p \in Place : Handled(p) /\ (p \in Late \/ Stale(p))]_vars

\* A key the control holds reaches an edge that has none, whatever was lost
\* before ("failures are healed by the reconciliation", README.md:53).
EdgeGetsKey ==
    state = "active" /\ key # NoKey /\ edge.key = NoKey
        ~> edge.key # NoKey \/ state # "active" \/ key = NoKey

\* An active alias becomes active at the edge.
ActiveRegistered ==
    state = "active" ~> edge.state = "active" \/ state # "active"

\* A rotated key replaces the old one at the edge ("issued keys are pushed at
\* once, failures are healed by the reconciliation", README.md:53).
RotationConverges ==
    \A k \in Key :
        state = "active" /\ key = k /\ edge.key # k ~> key # k \/ edge.key = k
=============================================================================
