------------------------------- MODULE MailStore -------------------------------
(***************************************************************************)
(* The mailbox worker's messages and attachments: ingest, attachment and   *)
(* cleanup of messages/service.ts over its two stores, D1 (rows) and KV    *)
(* (the encrypted bytes), which no transaction joins.                      *)
(*                                                                         *)
(* Every query and every KV call is one step, so handlers and the cron may *)
(* interleave at each of them, and each may be the last one a handler      *)
(* makes.                                                                  *)
(*                                                                         *)
(* Simplifications: one alias, and one attachment for each message row.    *)
(* Whether a message is kept is decided for every delivery anew, from its  *)
(* envelope too (keep); the row has what its first delivery said (perm).   *)
(* A time to live that has passed is a fact about a row (old); bytes put   *)
(* with one live at least as long, because they are put later.             *)
(***************************************************************************)
EXTENDS Integers, FiniteSets

CONSTANTS
    Message,     \* messages, by their digest
    Handler,     \* requests that bring a message, from e-mail and the bridge
    Cron,        \* scheduled runs, which may overlap
    None,        \* no message
    Page,        \* rows of one list (100)
    MaxRows,     \* bound: message rows inserted
    MaxMail,     \* bound: deliveries, of the same message again or not
    MaxFaults,   \* bound: handlers and runs that stop half-way
    MaxChanges   \* bound: changes of the alias

Id == 1 .. MaxRows

\* What the constants have to be.
StoreConstants == None \notin Message /\ MaxRows \in Nat

VARIABLES
    alias,   \* the row of the alias: its state, "absent" without one
    row,     \* messages: the message of each id that is in the table
    perm,    \* ids whose row says retention_class permanent
    old,     \* ids whose time to live has passed
    att,     \* message_attachments: the ids with a row
    blob,    \* KV: the bytes of each id's attachment
    req,     \* where each handler stands
    run,     \* where each scheduled run stands
    used,    \* ids given
    mails, faults, changes,
    leaked,  \* history: ids whose bytes may have lost the row that names them
    retimed  \* history: ids of permanent rows whose bytes were last put with an expiry

stores == <<alias, row, perm, old, att, blob, used>>
history == <<leaked, retimed>>
bounds == <<mails, faults, changes>>
vars == <<stores, req, run, bounds, history>>

AliasState == {"absent", "active", "inactive"}
Blob == {"none", "ttl", "kept"}
NoRequest == [at |-> "idle", mail |-> None, keep |-> FALSE, id |-> 0]
Requests ==
    [at : {"idle", "insert", "select", "put", "upsert"}, mail : Message \cup {None},
     keep : BOOLEAN, id : Id \cup {0}]
NoRun == [at |-> "idle", ids |-> {}, last |-> FALSE]
Runs ==
    [at : {"idle", "expired", "bytes", "rows", "messages", "orphans", "orphanBytes", "orphanRows"},
     ids : SUBSET Id, last : BOOLEAN]

Init ==
    /\ alias \in AliasState /\ row = [i \in Id |-> None] /\ perm = {} /\ old = {}
    /\ att = {} /\ blob = [i \in Id |-> "none"]
    /\ req = [h \in Handler |-> NoRequest] /\ run = [c \in Cron |-> NoRun]
    /\ used = 0 /\ mails = 0 /\ faults = 0 /\ changes = 0 /\ leaked = {} /\ retimed = {}

-----------------------------------------------------------------------------
Fault == faults < MaxFaults /\ faults' = faults + 1
Expired(i) == i \in old /\ row[i] # None /\ i \notin perm

\* upsert, setState and delete of the alias; its messages go with it (ON DELETE
\* CASCADE), their attachments do not.
SetAlias ==
    /\ changes < MaxChanges /\ changes' = changes + 1
    /\ \E state \in AliasState \ {alias} :
           /\ alias' = state
           /\ row' = IF state = "absent" THEN [i \in Id |-> None] ELSE row
    /\ UNCHANGED <<perm, old, att, blob, used, req, run, mails, faults, history>>

\* Time passes, and KV drops what it was to drop.
GrowOld ==
    /\ \E i \in 1 .. used : i \notin old /\ old' = old \cup {i}
    /\ UNCHANGED <<alias, row, perm, att, blob, used, req, run, bounds, history>>

Drop ==
    /\ \E i \in old : blob[i] = "ttl" /\ blob' = [blob EXCEPT ![i] = "none"]
    /\ UNCHANGED <<alias, row, perm, old, att, used, req, run, bounds, history>>

-----------------------------------------------------------------------------
(* ingest.                                                                 *)

Goto(h, stage) == req' = [req EXCEPT ![h].at = stage]
Answered(h) == req' = [req EXCEPT ![h] = NoRequest]

\* A message that no active alias expects is not stored, and the answer is 200.
Receive(h) ==
    /\ req[h].at = "idle" /\ alias = "active"
    /\ mails < MaxMail /\ mails' = mails + 1
    /\ \E m \in Message, keep \in BOOLEAN :
           req' = [req EXCEPT ![h].at = "insert", ![h].mail = m, ![h].keep = keep]
    /\ UNCHANGED <<stores, run, faults, changes, history>>

RowOf(m) == {i \in Id : row[i] = m}

\* INSERT OR IGNORE: a new row, with what this delivery says of its retention, or
\* none where the message has one; without the alias it fails.
Insert(h) ==
    /\ req[h].at = "insert"
    /\ \/ alias = "absent" /\ Answered(h) /\ UNCHANGED <<row, perm, used>>
       \/ RowOf(req[h].mail) # {} /\ Goto(h, "select") /\ UNCHANGED <<row, perm, used>>
       \/ /\ alias # "absent" /\ RowOf(req[h].mail) = {}
          /\ used < MaxRows /\ used' = used + 1
          /\ row' = [row EXCEPT ![used + 1] = req[h].mail]
          /\ perm' = perm \cup {i \in {used + 1} : req[h].keep}
          /\ req' = [req EXCEPT ![h].at = "put", ![h].id = used + 1]
    /\ UNCHANGED <<alias, old, att, blob, run, bounds, history>>

\* The id of the row that was there: database_error if it has gone since.
Select(h) ==
    /\ req[h].at = "select"
    /\ \/ RowOf(req[h].mail) = {} /\ Answered(h)
       \/ \E i \in RowOf(req[h].mail) : req' = [req EXCEPT ![h].at = "put", ![h].id = i]
    /\ UNCHANGED <<stores, run, bounds, history>>

\* A mutant of Stage: the attachment's row comes before its bytes.
StageRowFirst(h) == IF req[h].at = "put" THEN "upsert" ELSE "put"
Stage(h) == req[h].at

\* storeAttachments: the bytes, with a time to live unless this delivery keeps
\* them, and then the row that names them.
Put(h) ==
    /\ Stage(h) = "put" /\ Goto(h, "upsert")
    /\ blob' = [blob EXCEPT ![req[h].id] = IF req[h].keep THEN "kept" ELSE "ttl"]
    /\ leaked' = leaked \cup {i \in {req[h].id} :
                      \E c \in Cron : run[c].at \in {"rows", "orphanRows"} /\ i \in run[c].ids}
    /\ retimed' = (retimed \ {req[h].id}) \cup {i \in {req[h].id} : i \in perm /\ ~req[h].keep}
    /\ UNCHANGED <<alias, row, perm, old, att, used, run, bounds>>

Upsert(h) ==
    /\ Stage(h) = "upsert" /\ Answered(h)
    /\ att' = att \cup {req[h].id}
    /\ UNCHANGED <<alias, row, perm, old, blob, used, run, bounds, history>>

-----------------------------------------------------------------------------
(* cleanup, once a schedule: expired attachments, expired messages, and    *)
(* attachments whose message is gone.                                      *)

At(c, stage) == run' = [run EXCEPT ![c].at = stage]

\* A mutant of Orphans: only those whose time to live has passed.
OrphansOld == {i \in att : row[i] = None /\ i \in old}

\* listOrphanAttachments.
Orphans == {i \in att : row[i] = None}

Schedule(c) ==
    /\ run[c].at = "idle" /\ At(c, "expired")
    /\ UNCHANGED <<stores, req, bounds, history>>

\* A page of rows; an empty one ends the loop, and so does one that is not full.
List(c, from, found, some, none) ==
    /\ run[c].at = from
    /\ IF found = {} THEN At(c, none)
       ELSE \E ids \in SUBSET found :
                /\ Cardinality(ids) = IF Cardinality(found) < Page THEN Cardinality(found) ELSE Page
                /\ run' = [run EXCEPT ![c] =
                              [at |-> some, ids |-> ids, last |-> Cardinality(ids) < Page]]
    /\ UNCHANGED <<stores, req, bounds, history>>

\* listExpiredAttachments.
ToExpire == {i \in att : Expired(i)}

ListExpired(c) == List(c, "expired", ToExpire, "bytes", "messages")
ListOrphans(c) == List(c, "orphans", Orphans, "orphanBytes", "idle")

\* removeAttachments: first the bytes of the page, then its rows.
Bytes(c, from, to) ==
    /\ run[c].at = from /\ At(c, to)
    /\ blob' = [i \in Id |-> IF i \in run[c].ids THEN "none" ELSE blob[i]]
    /\ UNCHANGED <<alias, row, perm, old, att, used, req, bounds, history>>

Rows(c, from, again, done) ==
    /\ run[c].at = from
    /\ att' = att \ run[c].ids
    /\ run' = [run EXCEPT ![c] = [NoRun EXCEPT !.at = IF run[c].last THEN done ELSE again]]
    /\ UNCHANGED <<alias, row, perm, old, blob, used, req, bounds, history>>

DeleteExpired(c) ==
    Bytes(c, "bytes", "rows") \/ Rows(c, "rows", "expired", "messages")

\* A mutant of DeleteOrphans: the rows go first.
DeleteOrphansRowsFirst(c) ==
    \/ run[c].at = "orphanBytes" /\ At(c, "orphanRows") /\ att' = att \ run[c].ids
       /\ UNCHANGED <<alias, row, perm, old, blob, used, req, bounds, history>>
    \/ Bytes(c, "orphanRows", "orphans")

DeleteOrphans(c) ==
    Bytes(c, "orphanBytes", "orphanRows") \/ Rows(c, "orphanRows", "orphans", "idle")

\* DELETE FROM messages.
DeleteMessages(c) ==
    /\ run[c].at = "messages" /\ At(c, "orphans")
    /\ row' = [i \in Id |-> IF Expired(i) THEN None ELSE row[i]]
    /\ UNCHANGED <<alias, perm, old, att, blob, used, req, bounds, history>>

-----------------------------------------------------------------------------
\* A handler or a run stops half-way: an exception, or the worker is evicted.
Stop ==
    /\ Fault
    /\ \/ \E h \in Handler :
              /\ req[h].at # "idle" /\ Answered(h) /\ UNCHANGED run
              /\ leaked' = IF Stage(h) = "upsert" THEN leaked \cup {req[h].id} ELSE leaked
       \/ \E c \in Cron :
              /\ run[c].at # "idle" /\ run' = [run EXCEPT ![c] = NoRun] /\ UNCHANGED <<req, leaked>>
    /\ UNCHANGED <<stores, mails, changes, retimed>>

Ingest(h) == Insert(h) \/ Select(h) \/ Put(h) \/ Upsert(h)
Cleanup(c) ==
    \/ Schedule(c) \/ ListExpired(c) \/ DeleteExpired(c)
    \/ DeleteMessages(c) \/ ListOrphans(c) \/ DeleteOrphans(c)

Next ==
    \/ SetAlias \/ GrowOld \/ Drop \/ Stop
    \/ \E h \in Handler : Receive(h) \/ Ingest(h)
    \/ \E c \in Cron : Cleanup(c)

Spec == Init /\ [][Next]_vars

\* Handlers end, the schedule comes again and its runs go on.
FairSpec ==
    /\ Spec
    /\ \A h \in Handler : WF_vars(Ingest(h))
    /\ \A c \in Cron : WF_vars(Cleanup(c))
-----------------------------------------------------------------------------
StoreTypeOK ==
    /\ alias \in AliasState /\ row \in [Id -> Message \cup {None}]
    /\ perm \subseteq Id /\ old \subseteq Id /\ att \subseteq Id /\ blob \in [Id -> Blob]
    /\ req \in [Handler -> Requests] /\ run \in [Cron -> Runs]
    /\ used \in 0 .. MaxRows /\ mails \in Nat /\ faults \in Nat /\ changes \in Nat
    /\ leaked \subseteq Id /\ retimed \subseteq Id

Live(i) == row[i] # None /\ (i \in perm \/ i \notin old)

\* What a message that can be read names can be read: the bytes of its
\* attachment are there.  `attachment` would answer 503 attachment_pending for
\* ever otherwise.  The code breaks this: a second delivery of a message that is
\* kept, with another envelope, puts the bytes again with a time to live.
AttachmentReadable == \A i \in att : Live(i) => blob[i] # "none"

\* Whichever handlers and runs interleave with the deletion of the alias, with
\* the lapse of a time to live and with other deliveries, that is the only way:
\* bytes a readable message names and that are not there were last put by a
\* delivery that called a permanent row temporary.
BytesReadable == \A i \in att : Live(i) /\ i \notin retimed => blob[i] # "none"

\* Bytes that are to be kept are named by a row, or a handler is about to name
\* them; or a handler stopped before it did, or put them again between a run's
\* deletion of the bytes and of the row: such bytes nobody ever deletes.
KeptBytesNamed ==
    \A i \in Id : blob[i] = "kept" =>
        i \in att \/ i \in leaked \/ \E h \in Handler : req[h].at = "upsert" /\ req[h].id = i

\* What these rest on: nothing is known of an id before it is given, so that the
\* row of an id that was given never comes back; ...
IdsInOrder ==
    /\ \A i \in Id : i > used => row[i] = None /\ i \notin perm \cup old \cup att /\ blob[i] = "none"
    /\ \A h \in Handler : req[h].at \in {"put", "upsert"} => req[h].id \in 1 .. used
    /\ \A c \in Cron : run[c].ids \subseteq 1 .. used

\* ... a handler puts the bytes of the message whose row it found or wrote, and
\* then finds them there; only a retimed row that is kept has bytes that are not; ...
BytesOfRow ==
    /\ \A h \in Handler : req[h].at # "idle" => req[h].mail \in Message
    /\ \A h \in Handler : req[h].at \in {"put", "upsert"} => row[req[h].id] \in {req[h].mail, None}
    /\ \A i \in perm : blob[i] = "ttl" => i \in retimed
    /\ \A h \in Handler :
           req[h].at = "upsert" /\ Live(req[h].id) /\ req[h].id \notin retimed =>
               blob[req[h].id] # "none"

\* ... and what a run has listed cannot be read any more, however long ago it was
\* listed, nor has it bytes to be kept once they were deleted, unless leaked.
ListedIsGone ==
    \A c \in Cron : \A i \in run[c].ids :
        /\ ~Live(i)
        /\ run[c].at \in {"rows", "orphanRows"} /\ blob[i] = "kept" => i \in leaked

StoreInvariant ==
    StoreTypeOK /\ IdsInOrder /\ BytesOfRow /\ ListedIsGone /\ BytesReadable /\ KeptBytesNamed

\* A message that expired goes, and the attachment of a message that is gone.
Overdue(i) == Expired(i) \/ (i \in att /\ row[i] = None)
NothingStays == \A i \in Id : Overdue(i) ~> ~Overdue(i)
=============================================================================
