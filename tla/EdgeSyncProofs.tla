---------------------------- MODULE EdgeSyncProofs ----------------------------
(***************************************************************************)
(* Theorems about EdgeSync, for every number of keys, operations, faults   *)
(* and abandoned requests.  One lemma for each action shows that it        *)
(* preserves BaseInvariant and CloudKeySeen; a few more show that the keys *)
(* stay in order.  Both together are the inductive invariant, and the      *)
(* theorems at the end read the properties off it.                         *)
(***************************************************************************)
EXTENDS EdgeSync, TLAPS

-----------------------------------------------------------------------------
(* What the constructors of requests and rows return.                      *)

LEMMA RequestFacts ==
    /\ NoRequest \in Request /\ NoRequest.stage = "none" /\ NoRequest.kind = "none"
    /\ NoRequest.key = NoKey /\ NoRequest.seen = NoRow
    /\ NoRow \in EdgeRow /\ NoRow.key = NoKey
    /\ NoKey \notin Key /\ CloudKey \in Key /\ NoKey # CloudKey
    /\ Late \cap Client = {} /\ Client \subseteq Place /\ Late \subseteq Place
BY EdgeBoundsAssumption, LateAssumption
   DEF NoRequest, Request, NoRow, EdgeRow, KeyStatus, NoKey, CloudKey, Key, Place

LEMMA SentFacts ==
    ASSUME NEW kind \in {"status", "upsert", "issue", "revoke", "delete"}
    PROVE  /\ Sent(kind) \in Request
           /\ Sent(kind).kind = kind /\ Sent(kind).stage = "sent"
           /\ Sent(kind).key = NoKey /\ Sent(kind).seen = NoRow
BY RequestFacts DEF Sent, NoRequest, Request, EdgeRow, NoRow, NoKey

LEMMA UpsertFacts ==
    ASSUME NEW s \in {"active", "inactive"}, NEW k \in Key \cup {NoKey}
    PROVE  /\ Upsert(s, k) \in Request
           /\ Upsert(s, k).kind = "upsert" /\ Upsert(s, k).stage = "sent"
           /\ Upsert(s, k).key = k /\ Upsert(s, k).seen = NoRow
<1> DEFINE x == Sent("upsert")
<1>1. x \in Request /\ x.kind = "upsert" /\ x.stage = "sent" /\ x.seen = NoRow
    BY SentFacts
<1>2. Upsert(s, k) = [x EXCEPT !.state = s, !.key = k]
    BY DEF Upsert
<1> HIDE DEF x
<1> QED BY <1>1, <1>2 DEF Request

LEMMA StoredFacts ==
    ASSUME NEW row \in EdgeRow, NEW s \in {"active", "inactive"},
           NEW token \in Key \cup {NoKey}, NEW replace \in BOOLEAN
    PROVE  /\ Stored(row, s, token, replace) \in EdgeRow
           /\ Stored(row, s, token, replace).key \in {row.key, token}
           /\ Stored(row, s, token, replace).state # "none"
           /\ row.state # "none" /\ row.key # NoKey /\ ~replace
                => Stored(row, s, token, replace).key = row.key
BY DEF Stored, EdgeRow

\* The answer to a request changes neither the request nor another one.
LEMMA AnswerFacts ==
    ASSUME TypeOK, NEW p \in Place, Answer(p, "ok") \/ Answer(p, "conflict")
              \/ Answer(p, "missing") \/ \E a \in KeyStatus : Answer(p, a)
    PROVE  /\ net' \in [Place -> Request]
           /\ \A q \in Place \ {p} : net'[q] = net[q]
           /\ net'[p].key \in {net[p].key, NoKey}
           /\ net'[p].stage \notin {"sent", "read"}
           /\ net'[p].seen.key = NoKey
           /\ p \in Client => net'[p].kind = net[p].kind /\ net'[p].stage = "done"
<1>1. PICK a \in KeyStatus \cup {"ok", "conflict", "missing"} : Answer(p, a)
    OBVIOUS
<1> DEFINE x == [net[p] EXCEPT !.stage = "done", !.answer = a, !.seen = NoRow]
<1>2. net[p] \in Request /\ net \in [Place -> Request]
    BY DEF TypeOK
<1>3. x \in Request /\ x.stage = "done" /\ x.kind = net[p].kind /\ x.key = net[p].key
      /\ x.seen = NoRow
    BY <1>2, RequestFacts DEF Request
<1>4. net' = [net EXCEPT ![p] = IF p \in Late THEN NoRequest ELSE x]
    BY <1>1 DEF Answer
<1> HIDE DEF x
<1> QED BY <1>2, <1>3, <1>4, RequestFacts

LEMMA AnswerIs ==
    ASSUME TypeOK, NEW p \in Client, NEW a \in KeyStatus, Answer(p, a)
    PROVE  net'[p].answer = a
<1> DEFINE x == [net[p] EXCEPT !.stage = "done", !.answer = a, !.seen = NoRow]
<1>1. net \in [Place -> Request] /\ net[p] \in Request /\ p \in Place /\ p \notin Late
    BY RequestFacts DEF TypeOK
<1>2. x.answer = a
    BY <1>1 DEF Request
<1>3. net' = [net EXCEPT ![p] = x]
    BY <1>1 DEF Answer
<1> HIDE DEF x
<1> QED BY <1>1, <1>2, <1>3

-----------------------------------------------------------------------------
(* The worker.                                                             *)

\* The edge's own first key is stored either where it is or as a restored one.
LEMMA StoreFacts ==
    ASSUME TypeOK, NEW row \in EdgeRow, Store(row)
    PROVE  /\ edge' = row /\ restored' \in BOOLEAN
           /\ edge'.key = CloudKey /\ ~restored' => edge.key = CloudKey /\ ~restored
BY DEF Store, TypeOK, ControlTypeOK

\* Whatever request is carried out, the key of the row afterwards is the one it
\* had, the one the handler read, the one of the request, or none.
LEMMA ServeFacts ==
    ASSUME TypeOK, NEW p \in Place, Serve(p), ~ReadRow(p)
    PROVE  /\ edge' \in EdgeRow
           /\ edge'.key \in {edge.key, Seen(p).key, net[p].key, NoKey}
           /\ (edge.state = "none" => edge.key = NoKey)
                => (edge'.state = "none" => edge'.key = NoKey)
           /\ \E a \in KeyStatus \cup {"ok", "conflict", "missing"} : Answer(p, a)
           /\ UNCHANGED control
           /\ restored' \in BOOLEAN
           /\ edge'.key = CloudKey /\ ~restored' => edge.key = CloudKey /\ ~restored
           /\ net[p].stage \in {"sent", "read"}
           /\ net[p].stage = "read" \/ edge' = edge
           /\ net[p].kind = "status" =>
                \/ Answer(p, "not_found") /\ edge.state = "none"
                \/ Answer(p, "present") /\ edge.key # NoKey
                \/ Answer(p, "absent") /\ edge.key = NoKey
<1>1. edge \in EdgeRow /\ net[p] \in Request /\ Seen(p) \in EdgeRow
      /\ restored \in BOOLEAN
    BY DEF TypeOK, ControlTypeOK, Seen, Request
<1>2. CASE ServeUpsert(p)
    <2> DEFINE r == net[p]
               token == IF r.state = "inactive" THEN NoKey
                        ELSE IF r.key # NoKey THEN r.key ELSE Seen(p).key
               replace == r.state = "inactive" \/ Seen(p).key = NoKey
    <2>1. /\ net[p].kind = "upsert" /\ net[p].stage = "read"
          /\ Store(Stored(edge, r.state, token, replace))
          /\ Answer(p, "ok") \/ Answer(p, "conflict")
          /\ UNCHANGED control
        BY <1>1, <1>2 DEF ServeUpsert, Ready
    <2>2. r.state \in {"active", "inactive"} /\ token \in Key \cup {NoKey}
          /\ replace \in BOOLEAN /\ token \in {Seen(p).key, net[p].key, NoKey}
        BY <1>1 DEF Request, EdgeRow
    <2> HIDE DEF r, token, replace
    <2> DEFINE row == Stored(edge, r.state, token, replace)
    <2>3. /\ row \in EdgeRow /\ row.key \in {edge.key, token} /\ row.state # "none"
          /\ Store(row)
        BY <1>1, <2>1, <2>2, StoredFacts
    <2> HIDE DEF row
    <2>4. /\ edge' = row /\ restored' \in BOOLEAN
          /\ edge'.key = CloudKey /\ ~restored' => edge.key = CloudKey /\ ~restored
        BY <2>3, StoreFacts
    <2> QED BY <2>1, <2>2, <2>3, <2>4
<1>3. CASE ServeIssue(p)
    <2> DEFINE r == net[p]
               replace == r.replace \/ Seen(p).key = NoKey
    <2>1. /\ net[p].kind = "issue" /\ net[p].stage = "read"
          /\ Store(Stored(edge, "active", r.key, replace))
          /\ Answer(p, "ok") \/ Answer(p, "conflict")
          /\ UNCHANGED control
        BY <1>1, <1>3 DEF ServeIssue, Ready
    <2>2. r.key \in Key \cup {NoKey} /\ replace \in BOOLEAN
        BY <1>1 DEF Request, EdgeRow
    <2> HIDE DEF r, replace
    <2> DEFINE row == Stored(edge, "active", r.key, replace)
    <2>3. /\ row \in EdgeRow /\ row.key \in {edge.key, r.key} /\ row.state # "none"
          /\ Store(row)
        BY <1>1, <2>1, <2>2, StoredFacts
    <2> HIDE DEF row
    <2>4. /\ edge' = row /\ restored' \in BOOLEAN
          /\ edge'.key = CloudKey /\ ~restored' => edge.key = CloudKey /\ ~restored
        BY <2>3, StoreFacts
    <2> QED BY <2>1, <2>2, <2>3, <2>4 DEF r
<1>4. CASE ServeRevoke(p)
    BY <1>1, <1>4, RequestFacts DEF ServeRevoke, Ready, EdgeRow, Store
<1>5. CASE ServeDelete(p)
    BY <1>1, <1>5, RequestFacts DEF ServeDelete, Ready, EdgeRow, Store
<1>6. CASE ServeStatus(p)
    BY <1>1, <1>6, RequestFacts DEF ServeStatus, EdgeRow, KeyStatus, NoKey
<1> QED BY <1>2, <1>3, <1>4, <1>5, <1>6 DEF Serve

\* The first query of a handler changes its own request only.
LEMMA ReadFacts ==
    ASSUME TypeOK, NEW p \in Place, ReadRow(p)
    PROVE  /\ net' \in [Place -> Request]
           /\ \A q \in Place \ {p} : net'[q] = net[q]
           /\ net'[p].kind \in {net[p].kind, "upsert"} /\ net[p].kind # "status"
           /\ net[p].stage = "sent" /\ net'[p].stage \in {"sent", "read"}
           /\ net'[p].stage = "sent" => net'[p].kind = "upsert"
           /\ net'[p].key = net[p].key
           /\ net'[p].seen.key \in {net[p].seen.key, edge.key}
           /\ net'[p].stage = "read" => net'[p].seen = edge
           /\ net'[p].explicit = net[p].explicit
           /\ UNCHANGED <<edge, restored, control>>
<1> DEFINE again == [net[p] EXCEPT !.kind = "upsert"]
           read == [net[p] EXCEPT !.stage = "read", !.seen = edge]
<1>1. net[p] \in Request /\ edge \in EdgeRow /\ net \in [Place -> Request]
    BY DEF TypeOK
<1>2. /\ again \in Request /\ again.kind = "upsert" /\ again.stage = net[p].stage
      /\ again.key = net[p].key /\ again.seen = net[p].seen
      /\ again.explicit = net[p].explicit
    BY <1>1 DEF Request
<1>3. /\ read \in Request /\ read.kind = net[p].kind /\ read.stage = "read"
      /\ read.key = net[p].key /\ read.seen = edge
      /\ read.explicit = net[p].explicit
    BY <1>1 DEF Request
<1>4. /\ net[p].stage = "sent" /\ net[p].kind # "status"
      /\ UNCHANGED <<edge, restored, control>>
      /\ net' \in {[net EXCEPT ![p] = again], [net EXCEPT ![p] = read]}
    BY DEF ReadRow
<1> HIDE DEF again, read
<1> QED BY <1>1, <1>2, <1>3, <1>4

LEMMA ReadKeeps ==
    ASSUME BaseInvariant, NEW p \in Place, ReadRow(p)
    PROVE  BaseInvariant' /\ (CloudKeySeen => CloudKeySeen')
<1> USE DEF BaseInvariant
<1>1. /\ net' \in [Place -> Request]
      /\ \A q \in Place \ {p} : net'[q] = net[q]
      /\ net'[p].kind \in {net[p].kind, "upsert"} /\ net[p].kind # "status"
      /\ net[p].stage = "sent" /\ net'[p].stage \in {"sent", "read"}
      /\ net'[p].stage = "sent" => net'[p].kind = "upsert"
      /\ net'[p].key = net[p].key
      /\ net'[p].stage = "read" => net'[p].seen = edge
      /\ net'[p].explicit = net[p].explicit
    BY ReadFacts
<1>2. UNCHANGED <<edge, restored, state, key, status, at, confirm, had, payload, lastKey, ops, faults>>
    BY ReadFacts DEF control, local, clients, bounds
<1>3. TypeOK'
    BY <1>1, <1>2 DEF TypeOK, ControlTypeOK
<1>4. OwnSteps'
    <2>1. (at["op"] = "check" => p # "op") /\ (at["rec"] = "status" => p # "rec")
        BY <1>1 DEF OwnSteps
    <2>2. "op" \in Place /\ "rec" \in Place /\ \A c \in Client : c \in Place
        BY DEF Place, Client
    <2> QED BY <1>1, <1>2, <2>1, <2>2, RequestFacts DEF OwnSteps, Answered
<1>5. ForeignKey'
    BY <1>1, <1>2 DEF ForeignKey
<1>6. CloudKeySeen => CloudKeySeen'
    BY <1>1, <1>2, RequestFacts DEF CloudKeySeen, Answered, Client
<1> QED BY <1>3, <1>4, <1>5, <1>6

LEMMA ServeKeeps ==
    ASSUME BaseInvariant, NEW p \in Place, Serve(p), ~ReadRow(p)
    PROVE  BaseInvariant'
<1> USE DEF BaseInvariant
<1>1. /\ edge' \in EdgeRow
      /\ edge'.state = "none" => edge'.key = NoKey
      /\ UNCHANGED control /\ restored' \in BOOLEAN /\ net[p].stage \in {"sent", "read"}
    BY ServeFacts DEF ForeignKey
<1>2. PICK a \in KeyStatus \cup {"ok", "conflict", "missing"} : Answer(p, a)
    BY ServeFacts
<1>3. /\ net' \in [Place -> Request]
      /\ \A q \in Place \ {p} : net'[q] = net[q]
      /\ net'[p].key \in {net[p].key, NoKey} /\ net'[p].stage \notin {"sent", "read"}
      /\ p \in Client => net'[p].kind = net[p].kind
    BY <1>2, AnswerFacts
<1>4. UNCHANGED <<state, key, status, at, confirm, had, payload, lastKey, ops, faults>>
    BY <1>1 DEF control, local, clients, bounds
<1>5. TypeOK'
    BY <1>1, <1>3, <1>4 DEF TypeOK, ControlTypeOK
<1>6. OwnSteps'
    <2>1. net[p].kind = "status" /\ p \in Client => net'[p].answer \in KeyStatus
        <3> SUFFICES ASSUME net[p].kind = "status", p \in Client
                     PROVE  net'[p].answer \in KeyStatus
            OBVIOUS
        <3>1. Answer(p, "not_found") \/ Answer(p, "present") \/ Answer(p, "absent")
            BY ServeFacts
        <3> QED BY <3>1, AnswerIs DEF KeyStatus
    <2> QED BY <1>3, <1>4, <2>1, RequestFacts DEF OwnSteps, Client, Answered
<1>7. ForeignKey'
    BY <1>1, <1>3, <1>4, RequestFacts DEF ForeignKey
<1> QED BY <1>5, <1>6, <1>7

\* A status answered while the edge has kept its own key says so, and the request
\* that is carried out is no longer under way.
LEMMA ServeKeepsCloud ==
    ASSUME BaseInvariant, CloudKeySeen, NEW p \in Place, Serve(p), ~ReadRow(p)
    PROVE  CloudKeySeen'
<1> USE DEF BaseInvariant
<1>1. /\ edge'.key = CloudKey /\ ~restored' => edge.key = CloudKey /\ ~restored
      /\ UNCHANGED control
    BY ServeFacts
<1>2. PICK a \in KeyStatus \cup {"ok", "conflict", "missing"} : Answer(p, a)
    BY ServeFacts
<1>3. /\ net' \in [Place -> Request]
      /\ \A q \in Place \ {p} : net'[q] = net[q]
      /\ net'[p].stage \notin {"sent", "read"}
      /\ p \in Client => net'[p].kind = net[p].kind
    BY <1>2, AnswerFacts
<1>4. UNCHANGED <<state, key, status, at, confirm, had, payload, lastKey, ops, faults>>
    BY <1>1 DEF control, local, clients, bounds
<1> SUFFICES ASSUME edge'.key = CloudKey, ~restored'
             PROVE  CloudKeySeen!2'
    BY DEF CloudKeySeen
<1>5. ASSUME p \in {"op", "rec"}, net[p].kind = "status"
      PROVE  net'[p].answer = "present"
    <2>1. edge.key = CloudKey /\ edge.key # NoKey /\ edge.state # "none"
        BY <1>1, RequestFacts DEF ForeignKey
    <2>2. Answer(p, "present")
        BY <1>5, <2>1, ServeFacts
    <2> QED BY <1>5, <2>2, AnswerIs DEF KeyStatus, Client
<1>6. CloudKeySeen!2
    BY <1>1 DEF CloudKeySeen
<1> QED BY <1>3, <1>4, <1>5, <1>6, RequestFacts DEF OwnSteps, Answered, Client

-----------------------------------------------------------------------------
(* The control and the faults.                                             *)

LEMMA SendFacts ==
    ASSUME TypeOK, NEW c \in Client, NEW r \in Request, Send(c, r)
    PROVE  /\ net' \in [Place -> Request] /\ net'[c] = r
           /\ \A q \in Place \ {c} : net'[q] = net[q]
BY RequestFacts DEF Send, TypeOK

LEMMA GotoFacts ==
    ASSUME TypeOK, NEW c \in Client, NEW s \in Step, Goto(c, s)
    PROVE  /\ at' \in [Client -> Step] /\ at'[c] = s
           /\ \A d \in Client \ {c} : at'[d] = at[d]
BY DEF Goto, TypeOK, ControlTypeOK

LEMMA StepNames ==
    Step = {"issue", "revoke", "state", "delete", "create", "push", "check",
            "status", "idle", "gate", "issued", "created", "listing", "payload"}
BY DEF Step, Waits, Pushing, OpPush

LEMMA Requests ==
    /\ "op" \in Client /\ "job" \in Client /\ "rec" \in Client
    /\ Sent("status") \in Request /\ Sent("revoke") \in Request
    /\ Sent("delete") \in Request /\ NoRequest \in Request
    /\ Sent("status").kind = "status" /\ Sent("status").stage = "sent"
    /\ Sent("revoke").kind = "revoke" /\ Sent("delete").kind = "delete"
    /\ Sent("status").key = NoKey /\ Sent("revoke").key = NoKey
    /\ Sent("delete").key = NoKey
    /\ Sent("revoke").stage = "sent" /\ Sent("delete").stage = "sent"
    /\ Sent("status").seen = NoRow /\ Sent("revoke").seen = NoRow
    /\ Sent("delete").seen = NoRow /\ NoRequest.seen = NoRow /\ NoRow.key = NoKey
    /\ NoRequest.stage = "none" /\ NoRequest.kind = "none" /\ NoRequest.key = NoKey
BY SentFacts, RequestFacts DEF Client

\* The request of an issue: its key is the one just stored, and an operator asked
\* for it unless neither confirm nor had was set.
LEMMA IssueRequest ==
    ASSUME TypeOK
    PROVE  LET r == [Sent("issue") EXCEPT
                       !.key = key, !.explicit = confirm \/ had,
                       !.replace = confirm \/ had \/ status # "present"]
           IN  /\ r \in Request /\ r.kind = "issue" /\ r.stage = "sent"
               /\ r.key = key /\ (r.explicit <=> confirm \/ had)
               /\ r.seen = NoRow
<1> DEFINE x == Sent("issue")
           e == confirm \/ had
           w == confirm \/ had \/ status # "present"
           r == [x EXCEPT !.key = key, !.explicit = e, !.replace = w]
<1>1. x \in Request /\ x.kind = "issue" /\ x.stage = "sent" /\ x.seen = NoRow
    BY SentFacts
<1>2. key \in Key \cup {NoKey} /\ e \in BOOLEAN /\ w \in BOOLEAN
    BY DEF TypeOK, ControlTypeOK
<1> HIDE DEF x, e, w
<1>3. r \in Request /\ r.kind = "issue" /\ r.stage = "sent" /\ r.key = key
      /\ r.explicit = e /\ r.seen = NoRow
    BY <1>1, <1>2 DEF Request
<1> QED BY <1>3 DEF x, e, w, r

\* A new key is not the one that only the edge has.
LEMMA NewKeyFacts ==
    ASSUME TypeOK, NewKey
    PROVE  /\ lastKey' \in Key /\ key' = lastKey + 1 /\ key' \in Key
           /\ key' # CloudKey
BY EdgeBoundsAssumption DEF TypeOK, ControlTypeOK, NewKey, Key, CloudKey

LEMMA CheckAnsweredKeeps ==
    ASSUME BaseInvariant, CheckAnswered
    PROVE  BaseInvariant' /\ (CloudKeySeen => CloudKeySeen')
<1> USE DEF BaseInvariant
<1>1. /\ net' \in [Place -> Request] /\ net'["op"] = NoRequest
      /\ \A q \in Place \ {"op"} : net'[q] = net[q]
    BY SendFacts, Requests DEF CheckAnswered, Forget, TypeOK, ControlTypeOK
<1>2. /\ at' \in [Client -> Step] /\ at'["op"] = "gate"
      /\ \A d \in Client \ {"op"} : at'[d] = at[d]
    BY GotoFacts, Requests, StepNames DEF CheckAnswered
<1>3. TypeOK'
    BY <1>1, <1>2, RequestFacts, Requests
       DEF CheckAnswered, TypeOK, ControlTypeOK, local, clients, bounds, Operation,
           Listed, OwnSteps
<1>4. OwnSteps'
    BY <1>1, <1>2, RequestFacts, Requests
       DEF CheckAnswered, OwnSteps, OpPush, clients, Client, Answered, local,
           HmeLockFree
<1>5. ForeignKey'
    BY <1>1, <1>2, RequestFacts, Requests
       DEF CheckAnswered, ForeignKey, TypeOK, ControlTypeOK, local, clients, bounds
<1>6. CloudKeySeen => CloudKeySeen'
    BY <1>1, <1>2, RequestFacts, Requests
       DEF CheckAnswered, CloudKeySeen, OwnSteps, Answered, Client, local, clients,
           OpPush
<1> QED BY <1>3, <1>4, <1>5, <1>6

LEMMA RefuseIssueKeeps ==
    ASSUME BaseInvariant, RefuseIssue
    PROVE  BaseInvariant' /\ (CloudKeySeen => CloudKeySeen')
<1> USE DEF BaseInvariant
<1>1. net' = net
    BY DEF RefuseIssue
<1>2. /\ at' \in [Client -> Step] /\ at'["op"] = "idle"
      /\ \A d \in Client \ {"op"} : at'[d] = at[d]
    BY GotoFacts, Requests, StepNames DEF RefuseIssue
<1>3. TypeOK'
    BY <1>1, <1>2, RequestFacts, Requests
       DEF RefuseIssue, TypeOK, ControlTypeOK, local, clients, bounds, Operation,
           Listed
<1>4. OwnSteps'
    BY <1>1, <1>2, RequestFacts, Requests
       DEF RefuseIssue, OwnSteps, OpPush, clients, Client, Answered, local,
           HmeLockFree
<1>5. ForeignKey'
    BY <1>1, <1>2, RequestFacts, Requests
       DEF RefuseIssue, ForeignKey, TypeOK, ControlTypeOK, local, clients, bounds
<1>6. CloudKeySeen => CloudKeySeen'
    BY <1>1, <1>2, RequestFacts, Requests
       DEF RefuseIssue, CloudKeySeen, OwnSteps, Answered, Client, local, clients,
           OpPush
<1> QED BY <1>3, <1>4, <1>5, <1>6

LEMMA IssueLocallyKeeps ==
    ASSUME BaseInvariant, IssueLocally
    PROVE  BaseInvariant' /\ (CloudKeySeen => CloudKeySeen')
<1> USE DEF BaseInvariant
<1>1. net' = net
    BY DEF IssueLocally
<1>2. /\ at' \in [Client -> Step] /\ at'["op"] = "issued"
      /\ \A d \in Client \ {"op"} : at'[d] = at[d]
    BY GotoFacts, Requests, StepNames DEF IssueLocally
<1>3. TypeOK'
    BY <1>1, <1>2, RequestFacts, Requests, NewKeyFacts
       DEF IssueLocally, TypeOK, ControlTypeOK, local, clients, bounds, Operation,
           Listed
<1>4. OwnSteps'
    BY <1>1, <1>2, RequestFacts, Requests, NewKeyFacts
       DEF IssueLocally, OwnSteps, OpPush, clients, Client, Answered, local,
           HmeLockFree
<1>5. ForeignKey'
    BY <1>1, <1>2, RequestFacts, Requests, NewKeyFacts
       DEF IssueLocally, ForeignKey, TypeOK, ControlTypeOK, local, clients, bounds
<1>6. CloudKeySeen => CloudKeySeen'
    BY <1>1, <1>2, RequestFacts, Requests, NewKeyFacts
       DEF IssueLocally, CloudKeySeen, OwnSteps, Answered, Client, local, clients,
           OpPush, KeyConflict
<1> QED BY <1>3, <1>4, <1>5, <1>6

LEMMA RevokeKeeps ==
    ASSUME BaseInvariant, Revoke
    PROVE  BaseInvariant' /\ (CloudKeySeen => CloudKeySeen')
<1> USE DEF BaseInvariant
<1>1. /\ net' \in [Place -> Request] /\ net'["op"] = Sent("revoke")
      /\ \A q \in Place \ {"op"} : net'[q] = net[q]
    BY SendFacts, Requests DEF Revoke, Forget, TypeOK, ControlTypeOK
<1>2. /\ at' \in [Client -> Step] /\ at'["op"] = "revoke"
      /\ \A d \in Client \ {"op"} : at'[d] = at[d]
    BY GotoFacts, Requests, StepNames DEF Revoke
<1>3. TypeOK'
    BY <1>1, <1>2, RequestFacts, Requests
       DEF Revoke, TypeOK, ControlTypeOK, local, clients, bounds, Operation, Listed
<1>4. OwnSteps'
    BY <1>1, <1>2, RequestFacts, Requests
       DEF Revoke, OwnSteps, OpPush, clients, Client, Answered, local, HmeLockFree
<1>5. ForeignKey'
    BY <1>1, <1>2, RequestFacts, Requests
       DEF Revoke, ForeignKey, TypeOK, ControlTypeOK, local, clients, bounds
<1>6. CloudKeySeen => CloudKeySeen'
    BY <1>1, <1>2, RequestFacts, Requests
       DEF Revoke, CloudKeySeen, OwnSteps, Answered, Client, local, clients, OpPush
<1> QED BY <1>3, <1>4, <1>5, <1>6

LEMMA SetStateKeeps ==
    ASSUME BaseInvariant, NEW s \in {"active", "inactive"}, SetState(s)
    PROVE  BaseInvariant' /\ (CloudKeySeen => CloudKeySeen')
<1> USE DEF BaseInvariant
<1>1. /\ net' \in [Place -> Request] /\ net'["op"] = Upsert(s, NoKey)
      /\ \A q \in Place \ {"op"} : net'[q] = net[q]
    BY SendFacts, Requests, UpsertFacts
       DEF SetState, Forget, TypeOK, ControlTypeOK
<1>2. /\ at' \in [Client -> Step] /\ at'["op"] = "state"
      /\ \A d \in Client \ {"op"} : at'[d] = at[d]
    BY GotoFacts, Requests, StepNames DEF SetState
<1>3. TypeOK'
    BY <1>1, <1>2, RequestFacts, Requests, UpsertFacts
       DEF SetState, TypeOK, ControlTypeOK, local, clients, bounds, Operation,
           Listed
<1>4. OwnSteps'
    BY <1>1, <1>2, RequestFacts, Requests, UpsertFacts
       DEF SetState, OwnSteps, OpPush, clients, Client, Answered, local,
           HmeLockFree
<1>5. ForeignKey'
    BY <1>1, <1>2, RequestFacts, Requests, UpsertFacts
       DEF SetState, ForeignKey, TypeOK, ControlTypeOK, local, clients, bounds
<1>6. CloudKeySeen => CloudKeySeen'
    BY <1>1, <1>2, RequestFacts, Requests, UpsertFacts
       DEF SetState, CloudKeySeen, OwnSteps, Answered, Client, local, clients,
           OpPush
<1> QED BY <1>3, <1>4, <1>5, <1>6

LEMMA DeleteKeeps ==
    ASSUME BaseInvariant, Delete
    PROVE  BaseInvariant' /\ (CloudKeySeen => CloudKeySeen')
<1> USE DEF BaseInvariant
<1>1. /\ net' \in [Place -> Request] /\ net'["op"] = Sent("delete")
      /\ \A q \in Place \ {"op"} : net'[q] = net[q]
    BY SendFacts, Requests DEF Delete, Forget, TypeOK, ControlTypeOK
<1>2. /\ at' \in [Client -> Step] /\ at'["op"] = "delete"
      /\ \A d \in Client \ {"op"} : at'[d] = at[d]
    BY GotoFacts, Requests, StepNames DEF Delete
<1>3. TypeOK'
    BY <1>1, <1>2, RequestFacts, Requests
       DEF Delete, TypeOK, ControlTypeOK, local, clients, bounds, Operation,
           Listed, KeyStatus
<1>4. OwnSteps'
    BY <1>1, <1>2, RequestFacts, Requests
       DEF Delete, OwnSteps, OpPush, clients, Client, Answered, local, HmeLockFree
<1>5. ForeignKey'
    BY <1>1, <1>2, RequestFacts, Requests
       DEF Delete, ForeignKey, TypeOK, ControlTypeOK, local, clients, bounds
<1>6. CloudKeySeen => CloudKeySeen'
    BY <1>1, <1>2, RequestFacts, Requests
       DEF Delete, CloudKeySeen, OwnSteps, Answered, Client, local, clients, OpPush
<1> QED BY <1>3, <1>4, <1>5, <1>6

LEMMA SyncAppleKeeps ==
    ASSUME BaseInvariant, NEW s \in {"active", "inactive"}, SyncApple(s)
    PROVE  BaseInvariant' /\ (CloudKeySeen => CloudKeySeen')
<1> USE DEF BaseInvariant
<1>1. net' = net
    BY DEF SyncApple
<1>2. at' = at
    BY DEF SyncApple, clients
<1>3. TypeOK'
    BY <1>1, <1>2, RequestFacts, Requests
       DEF SyncApple, TypeOK, ControlTypeOK, local, clients, bounds, Operation,
           Listed
<1>4. OwnSteps'
    BY <1>1, <1>2, RequestFacts, Requests
       DEF SyncApple, OwnSteps, OpPush, clients, Client, Answered, local,
           HmeLockFree
<1>5. ForeignKey'
    BY <1>1, <1>2, RequestFacts, Requests
       DEF SyncApple, ForeignKey, TypeOK, ControlTypeOK, local, clients, bounds
<1>6. CloudKeySeen => CloudKeySeen'
    BY <1>1, <1>2, RequestFacts, Requests
       DEF SyncApple, CloudKeySeen, OwnSteps, Answered, Client, local, clients,
           OpPush
<1> QED BY <1>3, <1>4, <1>5, <1>6

LEMMA CreateLocallyKeeps ==
    ASSUME BaseInvariant, CreateLocally
    PROVE  BaseInvariant' /\ (CloudKeySeen => CloudKeySeen')
<1> USE DEF BaseInvariant
<1>1. net' = net
    BY DEF CreateLocally
<1>2. /\ at' \in [Client -> Step] /\ at'["job"] = "created"
      /\ \A d \in Client \ {"job"} : at'[d] = at[d]
    BY GotoFacts, Requests, StepNames DEF CreateLocally
<1>3. payload' \in [Client -> Key \cup {NoKey}]
    BY RequestFacts, Requests, NewKeyFacts
       DEF CreateLocally, TypeOK, ControlTypeOK, NewKey
<1>4. TypeOK'
    BY <1>1, <1>2, <1>3, RequestFacts, Requests, NewKeyFacts
       DEF CreateLocally, TypeOK, ControlTypeOK, local, clients, bounds, Operation,
           Listed
<1>5. OwnSteps'
    BY <1>1, <1>2, <1>3, RequestFacts, Requests, NewKeyFacts
       DEF CreateLocally, OwnSteps, OpPush, clients, Client, Answered, local,
           HmeLockFree
<1>6. ForeignKey'
    BY <1>1, <1>2, <1>3, RequestFacts, Requests, NewKeyFacts
       DEF CreateLocally, ForeignKey, TypeOK, ControlTypeOK, local, clients, bounds
<1>7. CloudKeySeen => CloudKeySeen'
    BY <1>1, <1>2, <1>3, RequestFacts, Requests, NewKeyFacts
       DEF CreateLocally, CloudKeySeen, OwnSteps, Answered, Client, local, clients,
           OpPush
<1> QED BY <1>4, <1>5, <1>6, <1>7

LEMMA PushCreateKeeps ==
    ASSUME BaseInvariant, PushCreate
    PROVE  BaseInvariant' /\ (CloudKeySeen => CloudKeySeen')
<1> USE DEF BaseInvariant
<1>1. /\ net' \in [Place -> Request] /\ net'["job"] = Upsert("active", payload["job"])
      /\ \A q \in Place \ {"job"} : net'[q] = net[q]
    BY SendFacts, Requests, UpsertFacts
       DEF PushCreate, Forget, TypeOK, ControlTypeOK
<1>2. /\ at' \in [Client -> Step] /\ at'["job"] = "create"
      /\ \A d \in Client \ {"job"} : at'[d] = at[d]
    BY GotoFacts, Requests, StepNames DEF PushCreate
<1>3. LET r == Upsert("active", payload["job"])
      IN  r.kind = "upsert" /\ r.stage = "sent" /\ r.key = payload["job"]
    BY UpsertFacts, Requests DEF TypeOK, ControlTypeOK
<1>4. TypeOK'
    BY <1>1, <1>2, <1>3, RequestFacts, Requests, UpsertFacts
       DEF PushCreate, TypeOK, ControlTypeOK, local, clients, bounds, Operation,
           Listed
<1>5. OwnSteps'
    BY <1>1, <1>2, <1>3, RequestFacts, Requests, UpsertFacts
       DEF PushCreate, OwnSteps, OpPush, clients, Client, Answered, local,
           HmeLockFree
<1>6. ForeignKey'
    BY <1>1, <1>2, <1>3, RequestFacts, Requests, UpsertFacts
       DEF PushCreate, ForeignKey, TypeOK, ControlTypeOK, local, clients, bounds
<1>7. CloudKeySeen => CloudKeySeen'
    BY <1>1, <1>2, <1>3, RequestFacts, Requests, UpsertFacts
       DEF PushCreate, CloudKeySeen, OwnSteps, Answered, Client, local, clients,
           OpPush
<1> QED BY <1>4, <1>5, <1>6, <1>7

LEMMA AskStatusKeeps ==
    ASSUME BaseInvariant, AskStatus
    PROVE  BaseInvariant' /\ (CloudKeySeen => CloudKeySeen')
<1> USE DEF BaseInvariant
<1>1. /\ net' \in [Place -> Request] /\ net'["rec"] = Sent("status")
      /\ \A q \in Place \ {"rec"} : net'[q] = net[q]
    BY SendFacts, Requests DEF AskStatus, Forget, TypeOK, ControlTypeOK
<1>2. /\ at' \in [Client -> Step] /\ at'["rec"] = "status"
      /\ \A d \in Client \ {"rec"} : at'[d] = at[d]
    BY GotoFacts, Requests, StepNames DEF AskStatus
<1>3. TypeOK'
    BY <1>1, <1>2, RequestFacts, Requests
       DEF AskStatus, TypeOK, ControlTypeOK, local, clients, bounds, Operation,
           Listed
<1>4. OwnSteps'
    BY <1>1, <1>2, RequestFacts, Requests
       DEF AskStatus, OwnSteps, OpPush, clients, Client, Answered, local,
           HmeLockFree
<1>5. ForeignKey'
    BY <1>1, <1>2, RequestFacts, Requests
       DEF AskStatus, ForeignKey, TypeOK, ControlTypeOK, local, clients, bounds
<1>6. CloudKeySeen => CloudKeySeen'
    BY <1>1, <1>2, RequestFacts, Requests
       DEF AskStatus, CloudKeySeen, OwnSteps, Answered, Client, local, clients,
           OpPush
<1> QED BY <1>3, <1>4, <1>5, <1>6

LEMMA StatusAnsweredKeeps ==
    ASSUME BaseInvariant, StatusAnswered
    PROVE  BaseInvariant' /\ (CloudKeySeen => CloudKeySeen')
<1> USE DEF BaseInvariant
<1>1. /\ net' \in [Place -> Request] /\ net'["rec"] = NoRequest
      /\ \A q \in Place \ {"rec"} : net'[q] = net[q]
    BY SendFacts, Requests DEF StatusAnswered, Forget, TypeOK, ControlTypeOK
<1>2. /\ at' \in [Client -> Step] /\ at'["rec"] = "listing"
      /\ \A d \in Client \ {"rec"} : at'[d] = at[d]
    BY GotoFacts, Requests, StepNames DEF StatusAnswered
<1>3. TypeOK'
    BY <1>1, <1>2, RequestFacts, Requests
       DEF StatusAnswered, TypeOK, ControlTypeOK, local, clients, bounds,
           Operation, Listed, OwnSteps
<1>4. OwnSteps'
    BY <1>1, <1>2, RequestFacts, Requests
       DEF StatusAnswered, OwnSteps, OpPush, clients, Client, Answered, local,
           HmeLockFree
<1>5. ForeignKey'
    BY <1>1, <1>2, RequestFacts, Requests
       DEF StatusAnswered, ForeignKey, TypeOK, ControlTypeOK, local, clients,
           bounds
<1>6. CloudKeySeen => CloudKeySeen'
    BY <1>1, <1>2, RequestFacts, Requests
       DEF StatusAnswered, CloudKeySeen, OwnSteps, Answered, Client, local,
           clients, OpPush
<1> QED BY <1>3, <1>4, <1>5, <1>6

LEMMA ListAliasKeeps ==
    ASSUME BaseInvariant, ListAlias
    PROVE  BaseInvariant' /\ (CloudKeySeen => CloudKeySeen')
<1> USE DEF BaseInvariant
<1>1. net' = net
    BY DEF ListAlias
<1>2. /\ at' \in [Client -> Step] /\ at'["rec"] = "payload"
      /\ \A d \in Client \ {"rec"} : at'[d] = at[d]
    BY GotoFacts, Requests, StepNames DEF ListAlias
<1>3. TypeOK'
    BY <1>1, <1>2, RequestFacts, Requests
       DEF ListAlias, TypeOK, ControlTypeOK, local, clients, bounds, Operation,
           Listed
<1>4. OwnSteps'
    BY <1>1, <1>2, RequestFacts, Requests
       DEF ListAlias, OwnSteps, OpPush, clients, Client, Answered, local,
           HmeLockFree
<1>5. ForeignKey'
    BY <1>1, <1>2, RequestFacts, Requests
       DEF ListAlias, ForeignKey, TypeOK, ControlTypeOK, local, clients, bounds
<1>6. CloudKeySeen => CloudKeySeen'
    BY <1>1, <1>2, RequestFacts, Requests
       DEF ListAlias, CloudKeySeen, OwnSteps, Answered, Client, local, clients,
           OpPush
<1> QED BY <1>3, <1>4, <1>5, <1>6

LEMMA SkipAliasKeeps ==
    ASSUME BaseInvariant, SkipAlias
    PROVE  BaseInvariant' /\ (CloudKeySeen => CloudKeySeen')
<1> USE DEF BaseInvariant
<1>1. net' = net
    BY DEF SkipAlias
<1>2. /\ at' \in [Client -> Step] /\ at'["rec"] = "idle"
      /\ \A d \in Client \ {"rec"} : at'[d] = at[d]
    BY GotoFacts, Requests, StepNames DEF SkipAlias
<1>3. TypeOK'
    BY <1>1, <1>2, RequestFacts, Requests
       DEF SkipAlias, TypeOK, ControlTypeOK, local, clients, bounds, Operation,
           Listed
<1>4. OwnSteps'
    BY <1>1, <1>2, RequestFacts, Requests
       DEF SkipAlias, OwnSteps, OpPush, clients, Client, Answered, local,
           HmeLockFree
<1>5. ForeignKey'
    BY <1>1, <1>2, RequestFacts, Requests
       DEF SkipAlias, ForeignKey, TypeOK, ControlTypeOK, local, clients, bounds
<1>6. CloudKeySeen => CloudKeySeen'
    BY <1>1, <1>2, RequestFacts, Requests
       DEF SkipAlias, CloudKeySeen, OwnSteps, Answered, Client, local, clients,
           OpPush
<1> QED BY <1>3, <1>4, <1>5, <1>6

LEMMA PushListedKeeps ==
    ASSUME BaseInvariant, PushListed
    PROVE  BaseInvariant' /\ (CloudKeySeen => CloudKeySeen')
<1> USE DEF BaseInvariant
<1>1. /\ net' \in [Place -> Request] /\ net'["rec"] = Upsert("active", payload["rec"])
      /\ \A q \in Place \ {"rec"} : net'[q] = net[q]
    BY SendFacts, Requests, UpsertFacts
       DEF PushListed, Forget, TypeOK, ControlTypeOK
<1>2. /\ at' \in [Client -> Step] /\ at'["rec"] = "push"
      /\ \A d \in Client \ {"rec"} : at'[d] = at[d]
    BY GotoFacts, Requests, StepNames DEF PushListed
<1>3. LET r == Upsert("active", payload["rec"])
      IN  r.kind = "upsert" /\ r.stage = "sent" /\ r.key = payload["rec"]
    BY UpsertFacts, Requests DEF TypeOK, ControlTypeOK
<1>4. TypeOK'
    BY <1>1, <1>2, <1>3, RequestFacts, Requests, UpsertFacts
       DEF PushListed, TypeOK, ControlTypeOK, local, clients, bounds, Operation,
           Listed
<1>5. OwnSteps'
    BY <1>1, <1>2, <1>3, RequestFacts, Requests, UpsertFacts
       DEF PushListed, OwnSteps, OpPush, clients, Client, Answered, local,
           HmeLockFree
<1>6. ForeignKey'
    BY <1>1, <1>2, <1>3, RequestFacts, Requests, UpsertFacts
       DEF PushListed, ForeignKey, TypeOK, ControlTypeOK, local, clients, bounds
<1>7. CloudKeySeen => CloudKeySeen'
    BY <1>1, <1>2, <1>3, RequestFacts, Requests, UpsertFacts
       DEF PushListed, CloudKeySeen, OwnSteps, Answered, Client, local, clients,
           OpPush
<1> QED BY <1>4, <1>5, <1>6, <1>7

LEMMA CreateInterruptedKeeps ==
    ASSUME BaseInvariant, CreateInterrupted
    PROVE  BaseInvariant' /\ (CloudKeySeen => CloudKeySeen')
<1> USE DEF BaseInvariant
<1>1. net' = net
    BY DEF CreateInterrupted
<1>2. /\ at' \in [Client -> Step] /\ at'["job"] = "idle"
      /\ \A d \in Client \ {"job"} : at'[d] = at[d]
    BY GotoFacts, Requests, StepNames DEF CreateInterrupted
<1>3. payload' \in [Client -> Key \cup {NoKey}]
    BY RequestFacts, Requests
       DEF CreateInterrupted, TypeOK, ControlTypeOK, NewKey
<1>4. TypeOK'
    BY <1>1, <1>2, <1>3, RequestFacts, Requests
       DEF CreateInterrupted, TypeOK, ControlTypeOK, local, clients, bounds,
           Operation, Listed
<1>5. OwnSteps'
    BY <1>1, <1>2, <1>3, RequestFacts, Requests
       DEF CreateInterrupted, OwnSteps, OpPush, clients, Client, Answered, local,
           HmeLockFree
<1>6. ForeignKey'
    BY <1>1, <1>2, <1>3, RequestFacts, Requests
       DEF CreateInterrupted, ForeignKey, TypeOK, ControlTypeOK, local, clients,
           bounds
<1>7. CloudKeySeen => CloudKeySeen'
    BY <1>1, <1>2, <1>3, RequestFacts, Requests
       DEF CreateInterrupted, CloudKeySeen, OwnSteps, Answered, Client, local,
           clients, OpPush
<1> QED BY <1>4, <1>5, <1>6, <1>7

LEMMA BeginIssueKeeps ==
    ASSUME BaseInvariant, NEW c \in BOOLEAN, BeginIssue(c)
    PROVE  BaseInvariant' /\ (CloudKeySeen => CloudKeySeen')
<1> USE DEF BaseInvariant
<1>1. \/ /\ net' = net /\ at'["op"] = "gate" /\ had'
      \/ /\ net'["op"] = Sent("status") /\ at'["op"] = "check"
         /\ \A q \in Place \ {"op"} : net'[q] = net[q]
    BY SendFacts, GotoFacts, Requests, StepNames DEF BeginIssue
<1>2. /\ net' \in [Place -> Request] /\ at' \in [Client -> Step]
      /\ \A d \in Client \ {"op"} : at'[d] = at[d]
    BY SendFacts, GotoFacts, Requests, StepNames DEF BeginIssue, TypeOK
<1>3. TypeOK'
    BY <1>2 DEF BeginIssue, TypeOK, ControlTypeOK, local, Operation
<1>4. OwnSteps'
    BY <1>1, <1>2, RequestFacts, Requests
       DEF BeginIssue, OwnSteps, Client, Answered, local
<1>5. ForeignKey'
    BY <1>1, <1>2, RequestFacts, Requests
       DEF BeginIssue, ForeignKey, TypeOK, ControlTypeOK, local
<1>6. CloudKeySeen => CloudKeySeen'
    BY <1>1, <1>2, RequestFacts, Requests
       DEF BeginIssue, CloudKeySeen, OwnSteps, Answered, Client, local
<1> QED BY <1>3, <1>4, <1>5, <1>6

LEMMA PushIssueKeeps ==
    ASSUME BaseInvariant, PushIssue
    PROVE  BaseInvariant' /\ (CloudKeySeen => CloudKeySeen')
<1> USE DEF BaseInvariant
<1> DEFINE r == [Sent("issue") EXCEPT
                   !.key = key, !.explicit = confirm \/ had,
                   !.replace = confirm \/ had \/ status # "present"]
<1>1. /\ r \in Request /\ r.kind = "issue" /\ r.stage = "sent"
      /\ r.key = key /\ (r.explicit <=> confirm \/ had)
    BY IssueRequest
<1>2. Send("op", r)
    BY DEF PushIssue
<1> HIDE DEF r
<1>3. /\ net' \in [Place -> Request] /\ net'["op"] = r
      /\ \A q \in Place \ {"op"} : net'[q] = net[q]
    BY <1>1, <1>2, SendFacts, Requests
<1>4. /\ at' \in [Client -> Step] /\ at'["op"] = "issue" /\ at["op"] = "issued"
      /\ \A d \in Client \ {"op"} : at'[d] = at[d]
    BY GotoFacts, Requests, StepNames DEF PushIssue
<1>5. UNCHANGED <<local, edge, restored, confirm, had, payload, bounds>>
    BY DEF PushIssue
<1>6. TypeOK'
    BY <1>3, <1>4, <1>5 DEF TypeOK, ControlTypeOK, local, bounds
<1>7. OwnSteps'
    BY <1>1, <1>3, <1>4, <1>5, RequestFacts
       DEF OwnSteps, OpPush, Client, Answered, local
<1>8. ForeignKey'
    BY <1>1, <1>3, <1>5, RequestFacts DEF ForeignKey, local
<1>9. CloudKeySeen => CloudKeySeen'
    BY <1>1, <1>3, <1>4, <1>5, RequestFacts
       DEF CloudKeySeen, OwnSteps, Answered, Client, local
<1> QED BY <1>6, <1>7, <1>8, <1>9

LEMMA PushAnsweredKeeps ==
    ASSUME BaseInvariant, NEW c \in Client, PushAnswered(c)
    PROVE  BaseInvariant' /\ (CloudKeySeen => CloudKeySeen')
<1> USE DEF BaseInvariant
<1>1. /\ net' \in [Place -> Request] /\ net'[c] = NoRequest
      /\ \A q \in Place \ {c} : net'[q] = net[q]
    BY SendFacts, Requests DEF PushAnswered, Forget
<1>2. /\ at' \in [Client -> Step] /\ at'[c] = "idle"
      /\ \A d \in Client \ {c} : at'[d] = at[d]
    BY GotoFacts, Requests, StepNames DEF PushAnswered
<1>3. UNCHANGED <<state, key, edge, restored, confirm, had, payload, bounds>>
    BY DEF PushAnswered
<1>4. /\ status' \in KeyStatus
      /\ c # "op" => status' \in {status, "present"}
    BY DEF PushAnswered, StatusAfter, TypeOK, ControlTypeOK, KeyStatus, OwnSteps, Client
<1>5. TypeOK'
    BY <1>1, <1>2, <1>3, <1>4 DEF TypeOK, ControlTypeOK, bounds
<1>6. OwnSteps'
    BY <1>1, <1>2, <1>3, Requests, RequestFacts DEF OwnSteps, Client, Answered
<1>7. ForeignKey'
    BY <1>1, <1>3, Requests, RequestFacts DEF ForeignKey
<1>8. CloudKeySeen => CloudKeySeen'
    BY <1>1, <1>2, <1>3, <1>4, Requests, RequestFacts
       DEF CloudKeySeen, OwnSteps, Answered, Client
<1> QED BY <1>5, <1>6, <1>7, <1>8

\* An abandoned request moves to a place of its own and stays what it was.
LEMMA FailKeeps ==
    ASSUME BaseInvariant, NEW c \in Client, Fail(c)
    PROVE  BaseInvariant' /\ (CloudKeySeen => CloudKeySeen')
<1> USE DEF BaseInvariant
<1>1. /\ net' \in [Place -> Request] /\ net'[c] = NoRequest
      /\ \A q \in Client \ {c} : net'[q] = net[q]
      /\ \A q \in Place : net'[q] \in {net[q], net[c], NoRequest}
    <2>1. CASE Dropped(c)
        BY <2>1, SendFacts, Requests, RequestFacts DEF Dropped, Forget
    <2>2. CASE Abandoned(c)
        <3>1. PICK l \in Late : net' = [net EXCEPT ![l] = net[c], ![c] = NoRequest]
            BY <2>2 DEF Abandoned
        <3> QED BY <3>1, RequestFacts, Requests DEF TypeOK
    <2> QED BY <2>1, <2>2 DEF Fail
<1>2. /\ at' \in [Client -> Step]
      /\ at'[c] = "idle" \/ (at[c] = "status" /\ at'[c] = "listing")
      /\ \A d \in Client \ {c} : at'[d] = at[d]
    BY GotoFacts, Requests, StepNames DEF Fail
<1>3. UNCHANGED <<local, edge, restored, confirm, had, payload, lastKey, ops>>
      /\ faults' = faults + 1
    BY DEF Fail
<1>4. TypeOK'
    BY <1>1, <1>2, <1>3 DEF TypeOK, ControlTypeOK, local
<1>5. OwnSteps'
    BY <1>1, <1>2, <1>3, Requests, RequestFacts
       DEF OwnSteps, OpPush, Client, Answered, local
<1>6. ForeignKey'
    BY <1>1, <1>3, Requests, RequestFacts DEF ForeignKey, local
<1>7. CloudKeySeen => CloudKeySeen'
    BY <1>1, <1>2, <1>3, Requests, RequestFacts
       DEF CloudKeySeen, OwnSteps, OpPush, Answered, Client, local
<1> QED BY <1>4, <1>5, <1>6, <1>7

-----------------------------------------------------------------------------
LEMMA InitHolds == Init => BaseInvariant /\ CloudKeySeen
<1> SUFFICES ASSUME Init PROVE BaseInvariant /\ CloudKeySeen
    OBVIOUS
<1> USE RequestFacts DEF Init
<1>1. edge \in EdgeRow /\ (edge.state = "none" => edge.key = NoKey)
    BY DEF EdgeRow, NoRow, NoKey
<1>2. TypeOK
    BY <1>1, StepNames DEF TypeOK, ControlTypeOK, Listed, KeyStatus
<1>3. OwnSteps
    BY DEF OwnSteps, OpPush, Client, Answered
<1>4. ForeignKey
    BY <1>1 DEF ForeignKey
<1>5. CloudKeySeen
    BY DEF CloudKeySeen, Answered, Client
<1> QED BY <1>2, <1>3, <1>4, <1>5 DEF BaseInvariant

LEMMA StepKeeps ==
    ASSUME BaseInvariant, [Next]_vars
    PROVE  BaseInvariant' /\ (CloudKeySeen => CloudKeySeen')
<1>1. CASE Op
    BY <1>1, CheckAnsweredKeeps, RefuseIssueKeeps, IssueLocallyKeeps, PushIssueKeeps,
       PushAnsweredKeeps, Requests DEF Op
<1>2. CASE Job
    BY <1>2, PushCreateKeeps, PushAnsweredKeeps, Requests DEF Job
<1>3. CASE Reconcile
    BY <1>3, AskStatusKeeps, StatusAnsweredKeeps, ListAliasKeeps, SkipAliasKeeps,
       PushListedKeeps, PushAnsweredKeeps, Requests DEF Reconcile
<1>4. CASE Operator
    BY <1>4, BeginIssueKeeps, SetStateKeeps, SyncAppleKeeps, RevokeKeeps, DeleteKeeps,
       CreateLocallyKeeps DEF Operator
<1>5. CASE \E p \in Place : Serve(p)
    BY <1>5, ReadKeeps, ServeKeeps, ServeKeepsCloud
<1>6. CASE \E c \in Client : Fail(c)
    BY <1>6, FailKeeps
<1>7. CASE CreateInterrupted
    BY <1>7, CreateInterruptedKeeps
<1>8. CASE UNCHANGED vars
    BY <1>8 DEF vars, local, clients, bounds, BaseInvariant, TypeOK, ControlTypeOK,
       OwnSteps, ForeignKey, CloudKeySeen, Answered
<1> QED BY <1>1, <1>2, <1>3, <1>4, <1>5, <1>6, <1>7, <1>8 DEF Next

-----------------------------------------------------------------------------
(* The order of the keys.                                                  *)

\* A step that generates no key and sends no issue keeps the order, whoever takes
\* it: c is the client whose request and place may change.
LEMMA QuietKeepsKeys ==
    ASSUME OrderInvariant, NEW c \in Client, UNCHANGED <<edge, lastKey>>,
           key' \in {key, NoKey},
           \A d \in Client : payload'[d] \in {payload[d], key, NoKey},
           \A q \in Place \ {c} : net'[q] = net[q],
           net'[c] = net[c] \/
              (/\ net'[c].kind # "issue" /\ net'[c].key \in {payload[c], NoKey}
               /\ net'[c].seen = NoRow),
           \A d \in Client \ {c} : at'[d] = at[d],
           c = "op" => at'[c] \notin {"issued", "issue"},
           c = "op" \/ key' # key => net'["op"].kind # "issue",
           key' # key => at'["op"] \notin {"issued", "issue"}
    PROVE  KeysGenerated' /\ NewestIssued'
<1>1. /\ lastKey \in Nat /\ key \in Nat /\ edge.key \in Nat /\ lastKey' = lastKey
      /\ \A d \in Client : payload[d] \in Nat
      /\ \A q \in Place : net[q].key \in Nat /\ net[q].seen.key \in Nat
      /\ NoKey \in Nat /\ NoKey <= lastKey /\ NoRow.key = NoKey
    BY EdgeBoundsAssumption, RequestFacts
       DEF OrderInvariant, BaseInvariant, TypeOK, ControlTypeOK, Key, NoKey, Request, EdgeRow
<1>2. KeysGenerated'
    BY <1>1 DEF OrderInvariant, KeysGenerated
<1>3. NewestIssued'
    <2>1. /\ "op" \in Place /\ "job" \in Place /\ "rec" \in Place
          /\ "op" \in Client /\ "job" \in Client /\ "rec" \in Client
        BY DEF Place, Client
    <2> QED BY <1>1, <2>1 DEF OrderInvariant, NewestIssued
<1> QED BY <1>2, <1>3

\* A generated key is the newest.
LEMMA IssueLocallyKeepsKeys ==
    ASSUME OrderInvariant, IssueLocally
    PROVE  KeysGenerated' /\ NewestIssued'
<1>1. /\ lastKey \in Nat /\ lastKey' = lastKey + 1 /\ key' = lastKey'
      /\ UNCHANGED <<edge, net, payload>> /\ at["op"] = "gate" /\ at'["op"] = "issued"
    BY DEF OrderInvariant, BaseInvariant, TypeOK, ControlTypeOK, Key, IssueLocally, NewKey, Goto,
           Client
<1>2. /\ edge.key \in Nat /\ \A d \in Client : payload[d] \in Nat
      /\ \A q \in Place : net[q].key \in Nat /\ net[q].seen.key \in Nat
    BY EdgeBoundsAssumption
       DEF OrderInvariant, BaseInvariant, TypeOK, ControlTypeOK, Key, NoKey, Request, EdgeRow
<1> QED BY <1>1, <1>2 DEF OrderInvariant, KeysGenerated, NewestIssued

LEMMA CreateLocallyKeepsKeys ==
    ASSUME OrderInvariant, CreateLocally
    PROVE  KeysGenerated' /\ NewestIssued'
<1>1. /\ lastKey \in Nat /\ lastKey' = lastKey + 1 /\ key' = lastKey'
      /\ UNCHANGED <<edge, net>> /\ at["op"] = "idle" /\ at'["op"] = "idle"
      /\ \A d \in Client : payload'[d] \in {payload[d], lastKey'}
    BY DEF OrderInvariant, BaseInvariant, TypeOK, ControlTypeOK, Key, CreateLocally, NewKey, Goto,
           Client, HmeLockFree
<1>2. /\ edge.key \in Nat /\ \A d \in Client : payload[d] \in Nat
      /\ \A q \in Place : net[q].key \in Nat /\ net[q].seen.key \in Nat
    BY EdgeBoundsAssumption
       DEF OrderInvariant, BaseInvariant, TypeOK, ControlTypeOK, Key, NoKey, Request, EdgeRow
<1> QED BY <1>1, <1>2 DEF OrderInvariant, KeysGenerated, NewestIssued

\* The key an issue carries is the control's.
LEMMA PushIssueKeepsKeys ==
    ASSUME OrderInvariant, PushIssue
    PROVE  KeysGenerated' /\ NewestIssued'
<1> DEFINE r == [Sent("issue") EXCEPT
                   !.key = key, !.explicit = confirm \/ had,
                   !.replace = confirm \/ had \/ status # "present"]
<1>1. r \in Request /\ r.kind = "issue" /\ r.key = key /\ r.seen = NoRow
    BY IssueRequest DEF OrderInvariant, BaseInvariant
<1>2. Send("op", r)
    BY DEF PushIssue
<1> HIDE DEF r
<1>3. net'["op"] = r /\ \A q \in Place \ {"op"} : net'[q] = net[q]
    BY <1>1, <1>2, SendFacts, Requests DEF OrderInvariant, BaseInvariant
<1>4. at'["op"] = "issue" /\ at["op"] = "issued"
    BY GotoFacts, Requests, StepNames DEF PushIssue, OrderInvariant, BaseInvariant
<1>5. UNCHANGED <<key, edge, payload, lastKey>>
    BY DEF PushIssue, local, bounds
<1>6. /\ "job" \in Place \ {"op"} /\ "rec" \in Place \ {"op"}
      /\ NoRow.key = NoKey /\ NoKey <= lastKey
    BY RequestFacts DEF Place, Client, OrderInvariant, BaseInvariant, TypeOK, ControlTypeOK,
       Key, NoKey
<1> QED BY <1>1, <1>3, <1>4, <1>5, <1>6 DEF OrderInvariant, KeysGenerated, NewestIssued

\* A client that fails loses its request, which stays what it was where it goes.
LEMMA FailKeepsKeys ==
    ASSUME OrderInvariant, NEW c \in Client, Fail(c)
    PROVE  KeysGenerated' /\ NewestIssued'
<1>1. /\ net'[c] = NoRequest /\ \A q \in Client \ {c} : net'[q] = net[q]
      /\ \A q \in Place : net'[q] \in {net[q], net[c], NoRequest}
    <2>1. CASE Dropped(c)
        BY <2>1, SendFacts, Requests, RequestFacts DEF Dropped, Forget, OrderInvariant, BaseInvariant
    <2>2. CASE Abandoned(c)
        <3>1. PICK l \in Late : net' = [net EXCEPT ![l] = net[c], ![c] = NoRequest]
            BY <2>2 DEF Abandoned
        <3> QED BY <3>1, RequestFacts, Requests DEF OrderInvariant, BaseInvariant, TypeOK
    <2> QED BY <2>1, <2>2 DEF Fail
<1>2. /\ at'[c] \in {"idle", "listing"}
      /\ \A d \in Client \ {c} : at'[d] = at[d]
    BY GotoFacts, Requests, StepNames DEF Fail, OrderInvariant, BaseInvariant
<1>3. UNCHANGED <<key, edge, payload, lastKey>>
    BY DEF Fail, local
<1>4. /\ "op" \in Client /\ "job" \in Client /\ "rec" \in Client /\ c \in Place
      /\ NoRequest.kind = "none" /\ NoRequest.key = NoKey /\ NoKey <= lastKey
      /\ NoRequest.seen = NoRow /\ NoRow.key = NoKey
    BY RequestFacts, EdgeBoundsAssumption
       DEF Client, OrderInvariant, BaseInvariant, TypeOK, ControlTypeOK, Key, NoKey
<1>5. KeysGenerated'
    BY <1>1, <1>3, <1>4 DEF OrderInvariant, KeysGenerated
<1>6. NewestIssued'
    BY <1>1, <1>2, <1>3, <1>4 DEF OrderInvariant, NewestIssued
<1> QED BY <1>5, <1>6

\* The worker stores a key that was sent to it, the one it has or the one it read.
LEMMA ServeKeepsKeys ==
    ASSUME OrderInvariant, NEW p \in Place, Serve(p), ~ReadRow(p)
    PROVE  KeysGenerated' /\ NewestIssued'
<1>1. /\ edge'.key \in {edge.key, Seen(p).key, net[p].key, NoKey} /\ UNCHANGED control
    BY ServeFacts DEF OrderInvariant, BaseInvariant
<1>2. PICK a \in KeyStatus \cup {"ok", "conflict", "missing"} : Answer(p, a)
    BY ServeFacts DEF OrderInvariant, BaseInvariant
<1> DEFINE x == [net[p] EXCEPT !.stage = "done", !.answer = a, !.seen = NoRow]
<1>3. /\ x.key = net[p].key /\ x.kind = net[p].kind /\ x.seen = NoRow
      /\ net \in [Place -> Request]
    BY DEF OrderInvariant, BaseInvariant, TypeOK, Request
<1>4. net' = [net EXCEPT ![p] = IF p \in Late THEN NoRequest ELSE x]
    BY <1>2 DEF Answer
<1> HIDE DEF x
<1>5. /\ \A q \in Place : net'[q].key \in {net[q].key, NoKey}
      /\ \A q \in Place : net'[q].seen.key \in {net[q].seen.key, NoKey}
      /\ \A q \in Client : net'[q].kind = net[q].kind /\ net'[q].key = net[q].key
    BY <1>3, <1>4, RequestFacts
<1>6. UNCHANGED <<key, at, payload, lastKey>>
    BY <1>1 DEF control, local, clients, bounds
<1>7. /\ "op" \in Client /\ "job" \in Client /\ "rec" \in Client /\ NoKey <= lastKey
    BY DEF Client, OrderInvariant, BaseInvariant, TypeOK, ControlTypeOK, Key, NoKey
<1>8. Seen(p).key <= lastKey
    BY DEF Seen, OrderInvariant, KeysGenerated
<1> QED BY <1>1, <1>5, <1>6, <1>7, <1>8 DEF OrderInvariant, KeysGenerated, NewestIssued

LEMMA ReadKeepsKeys ==
    ASSUME OrderInvariant, NEW p \in Place, ReadRow(p)
    PROVE  KeysGenerated' /\ NewestIssued'
<1>1. /\ \A q \in Place \ {p} : net'[q] = net[q]
      /\ net'[p].kind \in {net[p].kind, "upsert"} /\ net'[p].key = net[p].key
      /\ net'[p].seen.key \in {net[p].seen.key, edge.key}
    BY ReadFacts DEF OrderInvariant, BaseInvariant
<1>2. UNCHANGED <<edge, key, at, payload, lastKey>>
    BY ReadFacts DEF OrderInvariant, BaseInvariant, control, local, clients, bounds
<1>3. "op" \in Place /\ "job" \in Place /\ "rec" \in Place
    BY DEF Place, Client
<1> QED BY <1>1, <1>2, <1>3 DEF OrderInvariant, KeysGenerated, NewestIssued

LEMMA QuietOpKeepsKeys ==
    ASSUME OrderInvariant,
           \/ CheckAnswered \/ RefuseIssue \/ Revoke \/ Delete \/ PushAnswered("op")
           \/ \E c \in BOOLEAN : BeginIssue(c)
           \/ \E s \in {"active", "inactive"} : SetState(s) \/ SyncApple(s)
    PROVE  KeysGenerated' /\ NewestIssued'
<1>1. /\ TypeOK /\ "op" \in Client /\ NoRequest.kind = "none" /\ NoRequest.key = NoKey
      /\ at["op"] # "issue" => net["op"].kind # "issue"
    BY Requests DEF OrderInvariant, BaseInvariant, NewestIssued
<1>2. /\ UNCHANGED <<edge, payload, lastKey>> /\ key' \in {key, NoKey}
      /\ \A d \in Client \ {"op"} : at'[d] = at[d]
      /\ at'["op"] \in {"idle", "gate", "check", "revoke", "state", "delete"}
    BY <1>1, GotoFacts, StepNames
       DEF CheckAnswered, RefuseIssue, BeginIssue, Revoke, SetState, SyncApple, Delete,
           PushAnswered, bounds, local, clients, HmeLockFree
<1>3. \/ net' = net /\ at["op"] # "issue"
      \/ \E r \in Request : Send("op", r) /\ r.kind # "issue" /\ r.key = NoKey
                              /\ r.seen = NoRow
    BY <1>1, Requests, UpsertFacts
       DEF CheckAnswered, RefuseIssue, BeginIssue, Revoke, SetState, SyncApple, Delete,
           PushAnswered, Forget, HmeLockFree
<1>4. /\ \A q \in Place \ {"op"} : net'[q] = net[q]
      /\ net'["op"] = net["op"] \/ (net'["op"].key = NoKey /\ net'["op"].seen = NoRow)
      /\ net'["op"].kind # "issue"
    BY <1>1, <1>3, SendFacts
<1> QED BY <1>1, <1>2, <1>4, QuietKeepsKeys

LEMMA QuietJobKeepsKeys ==
    ASSUME OrderInvariant, PushCreate \/ PushAnswered("job") \/ CreateInterrupted
    PROVE  KeysGenerated' /\ NewestIssued'
<1>1. /\ TypeOK /\ "job" \in Client /\ "op" # "job"
      /\ NoRequest.kind = "none" /\ NoRequest.key = NoKey
      /\ \A d \in Client : payload[d] \in Key \cup {NoKey}
    BY Requests DEF OrderInvariant, BaseInvariant, TypeOK, ControlTypeOK
<1>2. /\ UNCHANGED <<edge, key, lastKey>>
      /\ \A d \in Client : payload'[d] \in {payload[d], NoKey}
      /\ \A d \in Client \ {"job"} : at'[d] = at[d]
    BY <1>1, GotoFacts, StepNames
       DEF PushCreate, PushAnswered, CreateInterrupted, bounds, local, TypeOK, ControlTypeOK
<1>3. \/ net' = net
      \/ \E r \in Request : Send("job", r) /\ r.kind # "issue"
                              /\ r.key \in {payload["job"], NoKey} /\ r.seen = NoRow
    BY <1>1, Requests, UpsertFacts DEF PushCreate, PushAnswered, CreateInterrupted, Forget
<1>4. /\ \A q \in Place \ {"job"} : net'[q] = net[q]
      /\ \/ net'["job"] = net["job"]
         \/ /\ net'["job"].kind # "issue" /\ net'["job"].key \in {payload["job"], NoKey}
            /\ net'["job"].seen = NoRow
    BY <1>1, <1>3, SendFacts
<1> QED BY <1>1, <1>2, <1>4, QuietKeepsKeys

LEMMA QuietRecKeepsKeys ==
    ASSUME OrderInvariant, Reconcile
    PROVE  KeysGenerated' /\ NewestIssued'
<1>1. /\ TypeOK /\ "rec" \in Client /\ "op" # "rec"
      /\ NoRequest.kind = "none" /\ NoRequest.key = NoKey
      /\ \A d \in Client : payload[d] \in Key \cup {NoKey}
    BY Requests DEF OrderInvariant, BaseInvariant, TypeOK, ControlTypeOK
<1>2. /\ UNCHANGED <<edge, key, lastKey>>
      /\ \A d \in Client : payload'[d] \in {payload[d], key, NoKey}
      /\ \A d \in Client \ {"rec"} : at'[d] = at[d]
    BY <1>1, GotoFacts, StepNames
       DEF Reconcile, AskStatus, StatusAnswered, ListAlias, SkipAlias, PushListed,
           PushAnswered, bounds, local, TypeOK, ControlTypeOK
<1>3. \/ net' = net
      \/ \E r \in Request : Send("rec", r) /\ r.kind # "issue"
                              /\ r.key \in {payload["rec"], NoKey} /\ r.seen = NoRow
    BY <1>1, Requests, UpsertFacts
       DEF Reconcile, AskStatus, StatusAnswered, ListAlias, SkipAlias, PushListed,
           PushAnswered, Forget
<1>4. /\ \A q \in Place \ {"rec"} : net'[q] = net[q]
      /\ \/ net'["rec"] = net["rec"]
         \/ /\ net'["rec"].kind # "issue" /\ net'["rec"].key \in {payload["rec"], NoKey}
            /\ net'["rec"].seen = NoRow
    BY <1>1, <1>3, SendFacts
<1> QED BY <1>1, <1>2, <1>4, QuietKeepsKeys

LEMMA InitKeys == Init => KeysGenerated /\ NewestIssued
<1> SUFFICES ASSUME Init PROVE KeysGenerated /\ NewestIssued
    OBVIOUS
<1>1. /\ edge.key <= lastKey /\ NoKey <= lastKey
    BY DEF Init, NoRow, NoKey, CloudKey
<1> QED BY <1>1, Requests, RequestFacts DEF Init, KeysGenerated, NewestIssued

LEMMA StepKeepsKeys ==
    ASSUME OrderInvariant, [Next]_vars
    PROVE  KeysGenerated' /\ NewestIssued'
<1>1. CASE Op
    BY <1>1, IssueLocallyKeepsKeys, PushIssueKeepsKeys, QuietOpKeepsKeys DEF Op
<1>2. CASE Job
    BY <1>2, QuietJobKeepsKeys DEF Job
<1>3. CASE Operator
    BY <1>3, CreateLocallyKeepsKeys, QuietOpKeepsKeys DEF Operator
<1>4. CASE UNCHANGED vars
    BY <1>4 DEF vars, local, clients, bounds, OrderInvariant, KeysGenerated, NewestIssued
<1> QED BY <1>1, <1>2, <1>3, <1>4, QuietRecKeepsKeys, ReadKeepsKeys, ServeKeepsKeys,
           FailKeepsKeys, QuietJobKeepsKeys DEF Next

-----------------------------------------------------------------------------
\* Every variable keeps its type, every client is where its own code can be, no key
\* is newer than the last one generated, only the operation that holds the lock has
\* an issue under way, and as long as the edge has kept its own first key every
\* issue under way has the operator's word (run edge checks it on an instance).
THEOREM Invariance == Spec => []IInv
<1>1. Init => IInv
    BY InitHolds, InitKeys DEF IInv, OrderInvariant
<1>2. IInv /\ [Next]_vars => IInv'
    BY StepKeeps, StepKeepsKeys DEF IInv, OrderInvariant
<1> QED BY <1>1, <1>2, PTL DEF Spec

\* Both databases, the requests and the clients stay in their types: in particular
\* an acknowledged push stores a key status the database knows.
THEOREM TypeCorrect == Spec => []TypeOK
<1>1. IInv => TypeOK
    BY DEF IInv, OrderInvariant, BaseInvariant
<1> QED BY <1>1, Invariance, PTL

-----------------------------------------------------------------------------
(* What a step does to the key of the row.                                 *)

\* Only the worker writes the row.
LEMMA OnlyWorkerWrites ==
    ASSUME Next, edge' # edge
    PROVE  \E p \in Place : Serve(p) /\ ~ReadRow(p)
BY DEF Next, Op, CheckAnswered, RefuseIssue, IssueLocally, PushIssue, PushAnswered,
       Job, PushCreate, Reconcile, AskStatus, StatusAnswered, ListAlias, SkipAlias,
       PushListed, Operator, BeginIssue, SetState, SyncApple, Revoke, Delete,
       CreateLocally, Fail, CreateInterrupted, ReadRow

\* The request that a handler serves is carried out by that step.
LEMMA ServedIsHandled ==
    ASSUME TypeOK, NEW p \in Place, Serve(p), ~ReadRow(p)
    PROVE  Handled(p)
<1>1. net[p].stage \in {"sent", "read"}
    BY ServeFacts
<1>2. PICK a \in KeyStatus \cup {"ok", "conflict", "missing"} : Answer(p, a)
    BY ServeFacts
<1> DEFINE x == [net[p] EXCEPT !.stage = "done", !.answer = a, !.seen = NoRow]
<1>3. net \in [Place -> Request] /\ net[p] \in Request
    BY DEF TypeOK
<1>4. x.stage = "done"
    BY <1>3 DEF Request
<1>5. net' = [net EXCEPT ![p] = IF p \in Late THEN NoRequest ELSE x]
    BY <1>2 DEF Answer
<1> HIDE DEF x
<1> QED BY <1>1, <1>3, <1>4, <1>5, RequestFacts DEF Handled

\* A handler whose read is up to date and that gives the row another key serves an
\* issue with the replacement set; one that takes its key away serves a
\* revocation, a deletion or a deactivation.
LEMMA ServeChangesKey ==
    ASSUME BaseInvariant, NEW p \in Place, Serve(p), ~ReadRow(p), ~Stale(p),
           edge.key # NoKey, edge'.key # edge.key
    PROVE  /\ edge'.key # NoKey => net[p].kind = "issue" /\ net[p].replace
           /\ edge'.key = NoKey =>
                \/ net[p].kind \in {"revoke", "delete"}
                \/ net[p].kind = "upsert" /\ net[p].state = "inactive"
<1>1. /\ edge \in EdgeRow /\ net[p] \in Request /\ Seen(p).key = edge.key
      /\ edge.state # "none"
    BY DEF BaseInvariant, TypeOK, ForeignKey, Stale
<1>2. CASE ServeUpsert(p)
    <2>1. net[p].state = "inactive" => edge'.key = NoKey
        BY <1>1, <1>2 DEF ServeUpsert, Store, Stored, EdgeRow, Request
    <2>2. net[p].state # "inactive" => edge'.key = edge.key
        BY <1>1, <1>2 DEF ServeUpsert, Store, Stored, EdgeRow, Request
    <2> QED BY <1>2, <2>1, <2>2 DEF ServeUpsert, Ready
<1>3. CASE ServeIssue(p)
    <2>1. net[p].kind = "issue" /\ net[p].key # NoKey
        BY <1>3 DEF ServeIssue, Ready, BaseInvariant, OwnSteps
    <2>2. edge' = Stored(edge, "active", net[p].key, net[p].replace \/ edge.key = NoKey)
        BY <1>1, <1>3 DEF ServeIssue, Store
    <2>3. CASE net[p].replace
        BY <1>1, <2>1, <2>2, <2>3 DEF Stored, EdgeRow, Request
    <2>4. CASE ~net[p].replace
        BY <1>1, <2>1, <2>2, <2>4 DEF Stored, EdgeRow, Request
    <2> QED BY <2>3, <2>4
<1>4. CASE ServeRevoke(p)
    BY <1>1, <1>4 DEF ServeRevoke, Ready, EdgeRow, Store
<1>5. CASE ServeDelete(p)
    BY <1>1, <1>5, RequestFacts DEF ServeDelete, Ready, Store
<1>6. CASE ServeStatus(p)
    BY <1>6 DEF ServeStatus
<1> QED BY <1>2, <1>3, <1>4, <1>5, <1>6 DEF Serve

\* A key that a handler with a read up to date puts in the place of another is the
\* one it carries, and unless the request was abandoned that is the newest.
LEMMA ReplacedByNewest ==
    ASSUME OrderInvariant, NEW p \in Place \ Late, Serve(p), ~ReadRow(p), ~Stale(p),
           edge.key # NoKey, edge'.key \notin {edge.key, NoKey}
    PROVE  edge'.key = lastKey
<1>1. net[p].kind = "issue" /\ edge'.key = net[p].key
    BY ServeChangesKey, ServeFacts DEF OrderInvariant, BaseInvariant, Stale
<1>2. p = "op"
    BY <1>1 DEF Place, Client, OrderInvariant, NewestIssued
<1> QED BY <1>1, <1>2 DEF OrderInvariant, NewestIssued

\* Only the worker answers a request.
LEMMA OnlyWorkerAnswers ==
    ASSUME TypeOK, Next, net["op"].stage # "done", net'["op"].stage = "done"
    PROVE  Serve("op") /\ ~ReadRow("op")
<1>1. /\ "op" \in Client /\ "op" \in Place /\ "op" \notin Late
      /\ net \in [Place -> Request] /\ NoRequest.stage # "done"
    BY RequestFacts, Requests DEF TypeOK
<1>2. ASSUME NEW c \in Client, NEW r \in Request, Send(c, r), r.stage # "done"
      PROVE  FALSE
    BY <1>1, <1>2, SendFacts
<1>3. net' # net
    OBVIOUS
<1>4. ASSUME NEW p \in Place, ReadRow(p)
      PROVE  FALSE
    BY <1>1, <1>4, ReadFacts
<1>5. ASSUME NEW p \in Place, Serve(p)
      PROVE  p = "op"
    BY <1>1, <1>4, <1>5
       DEF Serve, ServeUpsert, ServeIssue, ServeRevoke, ServeDelete, ServeStatus, Answer
<1>6. ~Op
    <2>1. ~PushIssue
        BY <1>1, <1>2, IssueRequest DEF PushIssue
    <2> QED BY <1>1, <1>2, <1>3, <2>1, Requests
            DEF Op, CheckAnswered, RefuseIssue, IssueLocally, PushAnswered, Forget
<1>7. ~Job /\ ~Reconcile
    BY <1>1, <1>2, <1>3, Requests, UpsertFacts
       DEF Job, PushCreate, PushAnswered, Forget, Reconcile, AskStatus, StatusAnswered,
           ListAlias, SkipAlias, PushListed, TypeOK, ControlTypeOK
<1>8. ~Operator
    BY <1>1, <1>2, <1>3, Requests, UpsertFacts, SentFacts
       DEF Operator, BeginIssue, SetState, SyncApple, Revoke, Delete, CreateLocally
<1>9. ASSUME NEW c \in Client, Fail(c)
      PROVE  FALSE
    <2>1. ~Dropped(c)
        BY <1>1, <1>2, Requests DEF Dropped, Forget
    <2>2. ~Abandoned(c)
        BY <1>1 DEF Abandoned
    <2> QED BY <1>9, <2>1, <2>2 DEF Fail
<1> QED BY <1>1, <1>3, <1>4, <1>5, <1>6, <1>7, <1>8, <1>9 DEF Next, CreateInterrupted

\* An issue whose handler's read is up to date is answered "ok" only if its key is
\* stored.
LEMMA IssueAnswer ==
    ASSUME TypeOK, ServeIssue("op"), ~Stale("op"), net["op"].key # NoKey,
           net'["op"].answer = "ok"
    PROVE  edge' = [state |-> "active", key |-> net["op"].key]
<1> DEFINE r == net["op"]
           a == IF ~r.replace /\ Differs(Seen("op"), r.key) THEN "conflict" ELSE "ok"
           x == [r EXCEPT !.stage = "done", !.answer = a, !.seen = NoRow]
<1>1. /\ "op" \in Place /\ "op" \notin Late /\ net \in [Place -> Request]
      /\ r \in Request /\ edge \in EdgeRow /\ Seen("op").key = edge.key
    BY RequestFacts, Requests DEF TypeOK, Stale
<1>2. edge' = Stored(edge, "active", r.key, r.replace \/ edge.key = NoKey)
      /\ Answer("op", a)
    BY <1>1 DEF ServeIssue, Store
<1>3. x.answer = a
    BY <1>1 DEF Request
<1>4. net' = [net EXCEPT !["op"] = x]
    BY <1>1, <1>2 DEF Answer
<1>5. a = "ok"
    <2> HIDE DEF x, a
    <2> QED BY <1>1, <1>3, <1>4
<1>6. r.replace \/ edge.key \in {NoKey, r.key}
    BY <1>1, <1>5 DEF Differs
<1> QED BY <1>1, <1>2, <1>6 DEF Stored, EdgeRow

-----------------------------------------------------------------------------
(* The properties.                                                         *)

\* A key at the edge is only ever replaced by an issue that asks for the
\* replacement, or by a handler between whose two queries another one changed it.
THEOREM FreshReplacementIsAsked == Spec => NoFreshReplacement
<1>1. IInv /\ [Next]_vars =>
        [edge.key # NoKey /\ edge'.key \notin {edge.key, NoKey} =>
            \E p \in Place : Handled(p) /\
                \/ Stale(p)
                \/ net[p].kind = "issue" /\ net[p].replace]_vars
    <2> SUFFICES ASSUME IInv, Next,
                        edge.key # NoKey, edge'.key \notin {edge.key, NoKey}
                 PROVE  \E p \in Place : Handled(p) /\
                            \/ Stale(p)
                            \/ net[p].kind = "issue" /\ net[p].replace
        OBVIOUS
    <2>1. PICK p \in Place : Serve(p) /\ ~ReadRow(p)
        BY OnlyWorkerWrites
    <2> QED BY <2>1, ServedIsHandled, ServeChangesKey DEF IInv, OrderInvariant, BaseInvariant
<1> QED BY <1>1, Invariance, PTL DEF Spec, NoFreshReplacement

\* A key at the edge is only ever removed by a revocation, a deactivation or a
\* deletion, or by such a handler.
THEOREM FreshRemovalIsAsked == Spec => NoFreshRemoval
<1>1. IInv /\ [Next]_vars =>
        [edge.key # NoKey /\ edge'.key = NoKey =>
            \E p \in Place : Handled(p) /\
                \/ Stale(p)
                \/ net[p].kind \in {"revoke", "delete"}
                \/ net[p].kind = "upsert" /\ net[p].state = "inactive"]_vars
    <2> SUFFICES ASSUME IInv, Next, edge.key # NoKey, edge'.key = NoKey
                 PROVE  \E p \in Place : Handled(p) /\
                            \/ Stale(p)
                            \/ net[p].kind \in {"revoke", "delete"}
                            \/ net[p].kind = "upsert" /\ net[p].state = "inactive"
        OBVIOUS
    <2>1. PICK p \in Place : Serve(p) /\ ~ReadRow(p)
        BY OnlyWorkerWrites
    <2> QED BY <2>1, ServedIsHandled, ServeChangesKey DEF IInv, OrderInvariant, BaseInvariant
<1> QED BY <1>1, Invariance, PTL DEF Spec, NoFreshRemoval

\* The edge goes back to an older key only for an abandoned request or by such a
\* handler: an issue that its client still waits for carries the newest key.
THEOREM FreshKeysGoForward == Spec => FreshMoveForward
<1>1. IInv /\ [Next]_vars =>
        [edge.key # NoKey /\ edge'.key # NoKey /\ edge'.key < edge.key =>
            \E p \in Place : Handled(p) /\ (p \in Late \/ Stale(p))]_vars
    <2> SUFFICES ASSUME IInv, Next,
                        edge.key # NoKey, edge'.key # NoKey, edge'.key < edge.key
                 PROVE  \E p \in Place : Handled(p) /\ (p \in Late \/ Stale(p))
        OBVIOUS
    <2>1. /\ TypeOK /\ edge.key \in Nat /\ lastKey \in Nat /\ edge.key <= lastKey
          /\ edge'.key # edge.key
        BY EdgeBoundsAssumption
           DEF IInv, OrderInvariant, BaseInvariant, TypeOK, ControlTypeOK, EdgeRow, Key, NoKey,
               KeysGenerated
    <2>2. PICK p \in Place : Serve(p) /\ ~ReadRow(p)
        BY <2>1, OnlyWorkerWrites
    <2>3. Handled(p)
        BY <2>1, <2>2, ServedIsHandled
    <2>4. p \in Late \/ Stale(p)
        <3> SUFFICES ASSUME p \notin Late, ~Stale(p) PROVE FALSE
            OBVIOUS
        <3>1. edge'.key = lastKey
            BY <2>1, <2>2, ReplacedByNewest DEF IInv
        <3> QED BY <2>1, <3>1
    <2> QED BY <2>3, <2>4
<1> QED BY <1>1, Invariance, PTL DEF Spec, FreshMoveForward

\* An issue that the worker acknowledges, with a read up to date, has installed
\* the key that the control holds and made the alias active, whatever status had
\* set its replacement flag.
THEOREM FreshAcknowledgedIsInstalled == Spec => FreshIssueInstalled
<1>1. IInv /\ [Next]_vars =>
        [Handled("op") /\ net["op"].kind = "issue" /\ ~Stale("op") /\
         net'["op"].stage = "done" /\ net'["op"].answer = "ok" =>
            edge' = [state |-> "active", key |-> key]]_vars
    <2> SUFFICES ASSUME IInv, Next, Handled("op"), net["op"].kind = "issue",
                        ~Stale("op"),
                        net'["op"].stage = "done", net'["op"].answer = "ok"
                 PROVE  edge' = [state |-> "active", key |-> key]
        OBVIOUS
    <2>1. TypeOK /\ "op" \in Place
        BY Requests, RequestFacts DEF IInv, OrderInvariant, BaseInvariant
    <2>2. /\ Serve("op") /\ ~ReadRow("op") /\ net["op"].stage \in {"sent", "read"}
        BY <2>1, OnlyWorkerAnswers DEF Handled
    <2>3. ServeIssue("op")
        BY <2>2 DEF Serve, ServeUpsert, ServeRevoke, ServeDelete, ServeStatus, Ready
    <2>4. net["op"].key = key /\ net["op"].key # NoKey
        BY <2>1, <2>2 DEF IInv, OrderInvariant, BaseInvariant, NewestIssued, OwnSteps
    <2> QED BY <2>1, <2>3, <2>4, IssueAnswer
<1> QED BY <1>1, Invariance, PTL DEF Spec, FreshIssueInstalled

\* The key that only the edge has, as long as it has kept it, is replaced only on the
\* operator's word, whatever was lost, abandoned or crashed before: every handler
\* under way has read that key, so only an issue replaces it (ServeChangesKey), and
\* by IInv every issue under way is explicit.
THEOREM CloudKeyIsGuarded == Spec => CloudOnlyKeyGuarded
<1>1. IInv /\ [Next]_vars =>
        [edge.key = CloudKey /\ ~restored /\ edge'.key \notin {CloudKey, NoKey} =>
            \E p \in Place : Handled(p) /\ net[p].explicit]_vars
    <2> SUFFICES ASSUME IInv, Next, edge.key = CloudKey, ~restored,
                        edge'.key \notin {CloudKey, NoKey}
                 PROVE  \E p \in Place : Handled(p) /\ net[p].explicit
        OBVIOUS
    <2>1. PICK p \in Place : Serve(p) /\ ~ReadRow(p)
        BY OnlyWorkerWrites
    <2>2. BaseInvariant /\ TypeOK /\ edge.key # NoKey /\ CloudKeySeen
        BY RequestFacts DEF IInv, OrderInvariant, BaseInvariant
    <2>3. net[p].stage = "read" /\ ~Stale(p)
        BY <2>1, <2>2, ServeFacts DEF CloudKeySeen, Stale, Seen
    <2>4. net[p].kind = "issue"
        BY <2>1, <2>2, <2>3, ServeChangesKey
    <2> QED BY <2>1, <2>2, <2>3, <2>4, ServedIsHandled DEF CloudKeySeen
<1> QED BY <1>1, Invariance, PTL DEF Spec, CloudOnlyKeyGuarded
=============================================================================
