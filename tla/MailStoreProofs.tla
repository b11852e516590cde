---------------------------- MODULE MailStoreProofs ----------------------------
(***************************************************************************)
(* For every set of messages, handlers and scheduled runs, every size of a *)
(* page and every number of rows: what a message that can be read names    *)
(* can be read, and bytes that are to be kept are named.                   *)
(***************************************************************************)
EXTENDS MailStore, TLAPS

-----------------------------------------------------------------------------
(* What the operators return.                                              *)

LEMMA NoRequestType == NoRequest \in Requests /\ NoRequest.at = "idle"
BY DEF NoRequest, Requests

LEMMA NoRunType == NoRun \in Runs /\ NoRun.at = "idle" /\ NoRun.ids = {}
BY DEF NoRun, Runs

\* A handler goes to another place and keeps its message and id.
LEMMA GotoFacts ==
    ASSUME StoreTypeOK, NEW h \in Handler, NEW stage \in {"insert", "select", "put", "upsert"},
           Goto(h, stage)
    PROVE  /\ req' \in [Handler -> Requests] /\ req'[h].at = stage
           /\ req'[h].mail = req[h].mail /\ req'[h].id = req[h].id
           /\ req'[h].keep = req[h].keep /\ \A g \in Handler \ {h} : req'[g] = req[g]
<1> DEFINE next == [req[h] EXCEPT !.at = stage]
<1>1. /\ next \in Requests /\ next.at = stage /\ next.mail = req[h].mail /\ next.id = req[h].id
      /\ next.keep = req[h].keep
    BY DEF StoreTypeOK, Requests
<1>2. req' = [req EXCEPT ![h] = next]
    BY DEF Goto
<1> HIDE DEF next
<1> QED BY <1>1, <1>2 DEF StoreTypeOK

LEMMA AnsweredFacts ==
    ASSUME StoreTypeOK, NEW h \in Handler, Answered(h)
    PROVE  /\ req' \in [Handler -> Requests] /\ req'[h].at = "idle"
           /\ \A g \in Handler \ {h} : req'[g] = req[g]
<1>1. req' = [req EXCEPT ![h] = NoRequest]
    BY DEF Answered
<1> QED BY <1>1, NoRequestType DEF StoreTypeOK

\* A run goes to another place with the rows it has listed.
LEMMA AtFacts ==
    ASSUME StoreTypeOK, NEW c \in Cron,
           NEW stage \in {"idle", "expired", "bytes", "rows", "messages", "orphans",
                          "orphanBytes", "orphanRows"},
           At(c, stage)
    PROVE  /\ run' \in [Cron -> Runs] /\ run'[c].at = stage /\ run'[c].ids = run[c].ids
           /\ \A d \in Cron \ {c} : run'[d] = run[d]
<1> DEFINE next == [run[c] EXCEPT !.at = stage]
<1>1. next \in Runs /\ next.at = stage /\ next.ids = run[c].ids
    BY DEF StoreTypeOK, Runs
<1>2. run' = [run EXCEPT ![c] = next]
    BY DEF At
<1> HIDE DEF next
<1> QED BY <1>1, <1>2 DEF StoreTypeOK

\* No row comes back and no time to live begins again: what could not be read
\* cannot be read later.
LEMMA GoneStaysGone ==
    ASSUME \A i \in 1 .. used : row'[i] \in {row[i], None}, old \subseteq old', UNCHANGED perm,
           NEW i \in 1 .. used
    PROVE  Live(i)' => Live(i)
BY DEF Live

-----------------------------------------------------------------------------
(* Around the worker.                                                      *)

LEMMA SetAliasKeeps ==
    ASSUME StoreConstants, StoreInvariant, SetAlias
    PROVE  StoreInvariant'
<1> USE DEF StoreInvariant, history
<1>1. /\ UNCHANGED <<perm, old, att, blob, used, req, run, mails, faults, history>>
      /\ alias' \in AliasState /\ changes' = changes + 1
      /\ row' = row \/ row' = [i \in Id |-> None]
    BY DEF SetAlias
<1>2. StoreTypeOK'
    BY <1>1 DEF StoreTypeOK
<1>3. row' \in [Id -> Message \cup {None}] /\ \A i \in Id : row'[i] \in {row[i], None}
    BY <1>1, <1>2 DEF StoreTypeOK
<1>4. \A i \in Id : Live(i)' => Live(i)
    BY <1>1, <1>3 DEF Live
<1>5. IdsInOrder'
    BY <1>1, <1>3 DEF IdsInOrder
<1>6. BytesOfRow'
    <2>1. \A h \in Handler : req[h].at \in {"put", "upsert"} => req[h].id \in Id
        BY DEF IdsInOrder, StoreTypeOK, Id, StoreConstants
    <2> QED BY <1>1, <1>3, <1>4, <2>1 DEF BytesOfRow, StoreConstants
<1>7. ListedIsGone'
    BY <1>1, <1>4 DEF ListedIsGone, StoreTypeOK, Runs
<1>8. BytesReadable' /\ KeptBytesNamed'
    BY <1>1, <1>4 DEF BytesReadable, KeptBytesNamed, StoreTypeOK
<1> QED BY <1>2, <1>5, <1>6, <1>7, <1>8

LEMMA GrowOldKeeps ==
    ASSUME StoreConstants, StoreInvariant, GrowOld
    PROVE  StoreInvariant'
<1> USE DEF StoreInvariant, history
<1>1. PICK i \in 1 .. used : old' = old \cup {i}
    BY DEF GrowOld
<1>2. UNCHANGED <<alias, row, perm, att, blob, used, req, run, bounds, history>>
    BY DEF GrowOld
<1>3. i \in Id
    BY DEF StoreTypeOK, Id, StoreConstants
<1>4. StoreTypeOK'
    BY <1>1, <1>2, <1>3 DEF StoreTypeOK, bounds
<1>5. \A j \in Id : Live(j)' => Live(j)
    BY <1>1, <1>2 DEF Live
<1>6. IdsInOrder'
    BY <1>1, <1>2, <1>3 DEF IdsInOrder, StoreTypeOK, Id, StoreConstants
<1>7. BytesOfRow'
    <2>1. \A h \in Handler : req[h].at \in {"put", "upsert"} => req[h].id \in Id
        BY DEF IdsInOrder, StoreTypeOK, Id, StoreConstants
    <2> QED BY <1>2, <1>5, <2>1 DEF BytesOfRow
<1>8. ListedIsGone'
    BY <1>2, <1>5 DEF ListedIsGone, StoreTypeOK, Runs
<1>9. BytesReadable' /\ KeptBytesNamed'
    BY <1>2, <1>5 DEF BytesReadable, KeptBytesNamed, StoreTypeOK
<1> QED BY <1>4, <1>6, <1>7, <1>8, <1>9

\* Bytes go that nothing readable names.
LEMMA BytesGoKeeps ==
    ASSUME StoreConstants, StoreInvariant,
           UNCHANGED <<alias, row, perm, old, att, used, bounds, req, history>>,
           blob' \in [Id -> Blob], \A i \in Id : blob'[i] \in {blob[i], "none"},
           \A i \in Id : blob'[i] # blob[i] => ~Live(i) \/ i \in retimed,
           run' \in [Cron -> Runs],
           \A c \in Cron : /\ run'[c].ids \subseteq run[c].ids
                           /\ run'[c].at \in {"rows", "orphanRows"} =>
                                  \/ run[c].at = run'[c].at
                                  \/ \A i \in run'[c].ids : blob'[i] = "none"
    PROVE  StoreInvariant'
<1> USE DEF StoreInvariant, history
<1>1. StoreTypeOK'
    BY DEF StoreTypeOK, bounds
<1>2. \A i \in Id : Live(i)' <=> Live(i)
    BY DEF Live
<1>3. IdsInOrder'
    BY DEF IdsInOrder, StoreTypeOK
<1>4. BytesOfRow'
    <2>1. \A h \in Handler : req[h].at \in {"put", "upsert"} => req[h].id \in Id
        BY DEF IdsInOrder, StoreTypeOK, Id, StoreConstants
    <2>2. perm \subseteq Id
        BY DEF StoreTypeOK
    <2> QED BY <1>2, <2>1, <2>2 DEF BytesOfRow
<1>5. ListedIsGone'
    <2>1. \A c \in Cron : run[c].ids \subseteq Id
        BY DEF StoreTypeOK, Runs
    <2> QED BY <1>2, <2>1 DEF ListedIsGone
<1>6. BytesReadable' /\ KeptBytesNamed'
    BY <1>2 DEF BytesReadable, KeptBytesNamed, StoreTypeOK
<1> QED BY <1>1, <1>3, <1>4, <1>5, <1>6

LEMMA DropKeeps ==
    ASSUME StoreConstants, StoreInvariant, Drop
    PROVE  StoreInvariant'
<1>1. PICK i \in old : blob[i] = "ttl" /\ blob' = [blob EXCEPT ![i] = "none"]
    BY DEF Drop
<1>2. UNCHANGED <<alias, row, perm, old, att, used, req, run, bounds, history>>
    BY DEF Drop
<1>3. blob \in [Id -> Blob] /\ i \in Id /\ (~Live(i) \/ i \in retimed)
    BY <1>1 DEF StoreInvariant, StoreTypeOK, BytesOfRow, Live
<1>4. blob' \in [Id -> Blob] /\ \A j \in Id : blob'[j] = IF j = i THEN "none" ELSE blob[j]
    BY <1>1, <1>3 DEF Blob
<1> QED BY <1>2, <1>3, <1>4, BytesGoKeeps DEF StoreInvariant, StoreTypeOK

-----------------------------------------------------------------------------
(* A handler's steps.                                                      *)

\* A handler moves before it has put anything.
LEMMA HandlerMovesKeeps ==
    ASSUME StoreConstants, StoreInvariant, NEW h \in Handler,
           req[h].at # "upsert", req'[h].at # "upsert",
           req' \in [Handler -> Requests], \A g \in Handler \ {h} : req'[g] = req[g],
           req'[h].at # "idle" => req'[h].mail \in Message,
           req'[h].at = "put" =>
                                 /\ req'[h].id \in 1 .. used
                                 /\ row[req'[h].id] \in {req'[h].mail, None},
           UNCHANGED <<stores, run, history>>,
           mails' \in Nat, faults' \in Nat, UNCHANGED changes
    PROVE  StoreInvariant'
<1> USE DEF StoreInvariant, stores, history
<1>1. StoreTypeOK'
    BY DEF StoreTypeOK
<1>2. \A i \in Id : Live(i)' <=> Live(i)
    BY DEF Live
<1>3. IdsInOrder'
    BY DEF IdsInOrder
<1>4. BytesOfRow'
    <2>1. \A g \in Handler : req[g].at \in {"put", "upsert"} => req[g].id \in Id
        BY DEF IdsInOrder, StoreTypeOK, Id, StoreConstants
    <2> QED BY <1>2, <2>1 DEF BytesOfRow
<1>5. ListedIsGone'
    BY <1>2 DEF ListedIsGone, StoreTypeOK, Runs
<1>6. BytesReadable' /\ KeptBytesNamed'
    BY <1>2 DEF BytesReadable, KeptBytesNamed, StoreTypeOK
<1> QED BY <1>1, <1>3, <1>4, <1>5, <1>6

LEMMA ReceiveKeeps ==
    ASSUME StoreConstants, StoreInvariant, NEW h \in Handler, Receive(h)
    PROVE  StoreInvariant'
<1>1. PICK m \in Message, keep \in BOOLEAN :
          req' = [req EXCEPT ![h].at = "insert", ![h].mail = m, ![h].keep = keep]
    BY DEF Receive
<1> DEFINE next == [req[h] EXCEPT !.at = "insert", !.mail = m, !.keep = keep]
<1>2. next \in Requests /\ next.at = "insert" /\ next.mail = m
    BY DEF StoreInvariant, StoreTypeOK, Requests
<1>3. req' = [req EXCEPT ![h] = next]
    BY <1>1
<1> HIDE DEF next
<1>4. /\ req' \in [Handler -> Requests] /\ req'[h] = next
      /\ \A g \in Handler \ {h} : req'[g] = req[g]
    BY <1>2, <1>3 DEF StoreInvariant, StoreTypeOK
<1>5. /\ req[h].at = "idle" /\ mails' \in Nat
      /\ UNCHANGED <<stores, run, faults, changes, history>>
    BY DEF Receive, StoreInvariant, StoreTypeOK
<1> QED BY <1>2, <1>4, <1>5, HandlerMovesKeeps DEF StoreInvariant, StoreTypeOK

\* INSERT OR IGNORE writes the row of a new id.
LEMMA NewRowKeeps ==
    ASSUME StoreConstants, StoreInvariant, NEW h \in Handler,
           req[h].at = "insert", used < MaxRows, used' = used + 1,
           row' = [row EXCEPT ![used + 1] = req[h].mail],
           perm' = perm \cup {i \in {used + 1} : req[h].keep},
           req' = [req EXCEPT ![h].at = "put", ![h].id = used + 1],
           UNCHANGED <<alias, old, att, blob, run, bounds, history>>
    PROVE  StoreInvariant'
<1> USE DEF StoreInvariant, bounds, history
<1> DEFINE new == used + 1
           next == [req[h] EXCEPT !.at = "put", !.id = new]
<1>1. /\ new \in Id /\ used \in Nat /\ new = used + 1 /\ used' = new
      /\ req[h].mail \in Message /\ req[h].at \notin {"put", "upsert"}
    BY DEF StoreTypeOK, Id, StoreConstants, BytesOfRow
<1>2. next \in Requests /\ next.at = "put" /\ next.mail = req[h].mail /\ next.id = new
    BY <1>1 DEF StoreTypeOK, Requests
<1>3. req' = [req EXCEPT ![h] = next]
    OBVIOUS
<1>3b. row' = [row EXCEPT ![new] = req[h].mail] /\ perm' \in {perm, perm \cup {new}}
    OBVIOUS
<1> HIDE DEF next, new
<1>4. /\ req' \in [Handler -> Requests] /\ req'[h] = next
      /\ \A g \in Handler \ {h} : req'[g] = req[g]
    BY <1>2, <1>3 DEF StoreTypeOK
<1>5. /\ row' \in [Id -> Message \cup {None}] /\ row'[new] = req[h].mail
      /\ \A i \in Id \ {new} : row'[i] = row[i]
    BY <1>1, <1>3b DEF StoreTypeOK
<1>6. /\ new \notin att /\ blob[new] = "none" /\ new \notin old
      /\ \A g \in Handler : req[g].at \in {"put", "upsert"} => req[g].id \in Id \ {new}
      /\ \A c \in Cron : run[c].ids \subseteq Id \ {new}
    BY <1>1 DEF IdsInOrder, StoreTypeOK, Id, StoreConstants
<1>7. StoreTypeOK'
    BY <1>1, <1>3b, <1>4, <1>5 DEF StoreTypeOK, Id
<1>8. IdsInOrder'
    BY <1>1, <1>2, <1>3b, <1>4, <1>5 DEF IdsInOrder, Id
<1>9. \A i \in Id \ {new} : Live(i)' <=> Live(i)
    BY <1>3b, <1>5 DEF Live
<1>10. BytesOfRow'
    <2>1. \A g \in Handler : req'[g].at # "idle" => req'[g].mail \in Message
        BY <1>1, <1>2, <1>4 DEF BytesOfRow
    <2>2. \A g \in Handler : req'[g].at \in {"put", "upsert"} => row'[req'[g].id] \in {req'[g].mail, None}
        BY <1>2, <1>4, <1>5, <1>6 DEF BytesOfRow
    <2>3. \A i \in perm' : blob'[i] = "ttl" => i \in retimed'
        BY <1>3b, <1>6 DEF BytesOfRow
    <2>4. (\A g \in Handler :
               req[g].at = "upsert" /\ Live(req[g].id) /\ req[g].id \notin retimed =>
                   blob[req[g].id] # "none")'
        BY <1>2, <1>4, <1>6, <1>9 DEF BytesOfRow
    <2> QED BY <2>1, <2>2, <2>3, <2>4 DEF BytesOfRow
<1>11. ListedIsGone'
    BY <1>6, <1>9 DEF ListedIsGone
<1>12. BytesReadable'
    BY <1>6, <1>9 DEF BytesReadable, StoreTypeOK
<1>13. KeptBytesNamed'
    BY <1>1, <1>4 DEF KeptBytesNamed
<1> QED BY <1>7, <1>8, <1>10, <1>11, <1>12, <1>13

LEMMA InsertKeeps ==
    ASSUME StoreConstants, StoreInvariant, NEW h \in Handler, Insert(h)
    PROVE  StoreInvariant'
<1>1. /\ req[h].at = "insert" /\ req[h].mail \in Message /\ StoreTypeOK
      /\ UNCHANGED <<alias, old, att, blob, run, bounds, history>>
    BY DEF Insert, StoreInvariant, BytesOfRow
<1>2. CASE Answered(h) /\ UNCHANGED <<row, perm, used>>
    BY <1>1, <1>2, AnsweredFacts, HandlerMovesKeeps DEF stores, bounds, StoreTypeOK
<1>3. CASE Goto(h, "select") /\ UNCHANGED <<row, perm, used>>
    BY <1>1, <1>3, GotoFacts, HandlerMovesKeeps DEF stores, bounds, StoreTypeOK
<1>4. CASE /\ used < MaxRows /\ used' = used + 1
           /\ row' = [row EXCEPT ![used + 1] = req[h].mail]
           /\ perm' = perm \cup {i \in {used + 1} : req[h].keep}
           /\ req' = [req EXCEPT ![h].at = "put", ![h].id = used + 1]
    BY <1>1, <1>4, NewRowKeeps
<1> QED BY <1>2, <1>3, <1>4 DEF Insert

LEMMA SelectKeeps ==
    ASSUME StoreConstants, StoreInvariant, NEW h \in Handler, Select(h)
    PROVE  StoreInvariant'
<1>1. /\ req[h].at = "select" /\ req[h].mail \in Message /\ StoreTypeOK
      /\ UNCHANGED <<stores, run, bounds, history>>
    BY DEF Select, StoreInvariant, BytesOfRow
<1>2. CASE Answered(h)
    BY <1>1, <1>2, AnsweredFacts, HandlerMovesKeeps DEF bounds, StoreTypeOK
<1>3. CASE \E i \in RowOf(req[h].mail) : req' = [req EXCEPT ![h].at = "put", ![h].id = i]
    <2>1. PICK i \in Id : /\ row[i] = req[h].mail
                          /\ req' = [req EXCEPT ![h].at = "put", ![h].id = i]
        BY <1>3 DEF RowOf
    <2> DEFINE next == [req[h] EXCEPT !.at = "put", !.id = i]
    <2>2. next \in Requests /\ next.at = "put" /\ next.mail = req[h].mail /\ next.id = i
        BY <1>1 DEF StoreTypeOK, Requests
    <2>3. req' = [req EXCEPT ![h] = next]
        BY <2>1
    <2> HIDE DEF next
    <2>4. /\ req' \in [Handler -> Requests] /\ req'[h] = next
          /\ \A g \in Handler \ {h} : req'[g] = req[g]
        BY <1>1, <2>2, <2>3 DEF StoreTypeOK
    <2>5. i \in 1 .. used
        BY <1>1, <2>1 DEF StoreInvariant, IdsInOrder, StoreTypeOK, Id, StoreConstants
    <2> QED BY <1>1, <2>1, <2>2, <2>4, <2>5, HandlerMovesKeeps DEF bounds, StoreTypeOK
<1> QED BY <1>2, <1>3 DEF Select

LEMMA PutKeeps ==
    ASSUME StoreConstants, StoreInvariant, NEW h \in Handler, Put(h)
    PROVE  StoreInvariant'
<1> USE DEF StoreInvariant, history
<1> DEFINE id == req[h].id
           kind == IF req[h].keep THEN "kept" ELSE "ttl"
           again == {i \in {id} : i \in perm /\ ~req[h].keep}
           named == {i \in {id} : \E c \in Cron : /\ run[c].at \in {"rows", "orphanRows"}
                                                  /\ i \in run[c].ids}
<1>1. /\ req[h].at = "put" /\ Goto(h, "upsert")
      /\ UNCHANGED <<alias, row, perm, old, att, used, run, bounds>>
    BY DEF Put, Stage
<1>2. /\ blob' = [blob EXCEPT ![id] = kind] /\ leaked' = leaked \cup named
      /\ retimed' = (retimed \ {id}) \cup again
    BY DEF Put
<1>3. /\ req' \in [Handler -> Requests] /\ req'[h].at = "upsert"
      /\ req'[h].mail = req[h].mail /\ req'[h].id = id
      /\ \A g \in Handler \ {h} : req'[g] = req[g]
    BY <1>1, GotoFacts
<1>4. /\ id \in 1 .. used /\ id \in Id /\ req[h].mail \in Message /\ row[id] \in {req[h].mail, None}
    BY <1>1 DEF IdsInOrder, BytesOfRow, StoreTypeOK, Id, StoreConstants
<1>5. /\ kind \in {"kept", "ttl"} /\ (kind = "ttl" /\ id \in perm => id \in again)
      /\ named \subseteq {id} /\ again \subseteq {id}
      /\ \A c \in Cron : run[c].at \in {"rows", "orphanRows"} /\ id \in run[c].ids => id \in named
    BY <1>4 DEF StoreConstants
<1> HIDE DEF id, kind, named, again
<1>6. /\ blob' \in [Id -> Blob] /\ blob'[id] = kind /\ \A i \in Id \ {id} : blob'[i] = blob[i]
    BY <1>2, <1>4, <1>5 DEF StoreTypeOK, Blob
<1>7. StoreTypeOK'
    BY <1>1, <1>2, <1>3, <1>4, <1>5, <1>6 DEF StoreTypeOK, bounds
<1>8. \A i \in Id : Live(i)' <=> Live(i)
    BY <1>1 DEF Live
<1>9. IdsInOrder'
    BY <1>1, <1>3, <1>4, <1>6 DEF IdsInOrder, StoreTypeOK
<1>10. BytesOfRow'
    <2>1. \A g \in Handler : req[g].at \in {"put", "upsert"} => req[g].id \in Id
        BY DEF IdsInOrder, StoreTypeOK, Id, StoreConstants
    <2>2. \A g \in Handler : req'[g].at # "idle" => req'[g].mail \in Message
        BY <1>3, <1>4 DEF BytesOfRow
    <2>3. \A g \in Handler : req'[g].at \in {"put", "upsert"} => row'[req'[g].id] \in {req'[g].mail, None}
        BY <1>1, <1>3, <1>4 DEF BytesOfRow
    <2>4. \A i \in perm' : blob'[i] = "ttl" => i \in retimed'
        BY <1>1, <1>2, <1>5, <1>6 DEF BytesOfRow, StoreTypeOK
    <2>5. (\A g \in Handler :
               req[g].at = "upsert" /\ Live(req[g].id) /\ req[g].id \notin retimed =>
                   blob[req[g].id] # "none")'
        BY <1>2, <1>3, <1>4, <1>5, <1>6, <1>8, <2>1 DEF BytesOfRow
    <2> QED BY <2>2, <2>3, <2>4, <2>5 DEF BytesOfRow
<1>11. ListedIsGone'
    <2>1. \A c \in Cron : run[c].ids \subseteq Id
        BY DEF StoreTypeOK, Runs
    <2> QED BY <1>1, <1>2, <1>5, <1>6, <1>8, <2>1 DEF ListedIsGone
<1>12. BytesReadable'
    BY <1>1, <1>2, <1>5, <1>6, <1>8 DEF BytesReadable, StoreTypeOK
<1>13. KeptBytesNamed'
    BY <1>1, <1>2, <1>3, <1>6 DEF KeptBytesNamed
<1> QED BY <1>7, <1>9, <1>10, <1>11, <1>12, <1>13

LEMMA UpsertKeeps ==
    ASSUME StoreConstants, StoreInvariant, NEW h \in Handler, Upsert(h)
    PROVE  StoreInvariant'
<1> USE DEF StoreInvariant, history
<1>1. /\ req[h].at = "upsert" /\ Answered(h) /\ att' = att \cup {req[h].id}
      /\ UNCHANGED <<alias, row, perm, old, blob, used, run, bounds, history>>
    BY DEF Upsert, Stage
<1>2. /\ req' \in [Handler -> Requests] /\ req'[h].at = "idle"
      /\ \A g \in Handler \ {h} : req'[g] = req[g]
    BY <1>1, AnsweredFacts
<1>3. /\ req[h].id \in 1 .. used /\ req[h].id \in Id
      /\ Live(req[h].id) /\ req[h].id \notin retimed => blob[req[h].id] # "none"
    BY <1>1 DEF IdsInOrder, BytesOfRow, StoreTypeOK, Id, StoreConstants
<1>4. StoreTypeOK'
    BY <1>1, <1>2, <1>3 DEF StoreTypeOK, bounds
<1>5. \A i \in Id : Live(i)' <=> Live(i)
    BY <1>1 DEF Live
<1>6. IdsInOrder'
    BY <1>1, <1>2, <1>3 DEF IdsInOrder, StoreTypeOK
<1>7. BytesOfRow'
    <2>1. \A g \in Handler : req[g].at \in {"put", "upsert"} => req[g].id \in Id
        BY DEF IdsInOrder, StoreTypeOK, Id, StoreConstants
    <2> QED BY <1>1, <1>2, <1>5, <2>1 DEF BytesOfRow
<1>8. ListedIsGone'
    BY <1>1, <1>5 DEF ListedIsGone, StoreTypeOK, Runs
<1>9. BytesReadable'
    BY <1>1, <1>3, <1>5 DEF BytesReadable, StoreTypeOK
<1>10. KeptBytesNamed'
    BY <1>1, <1>2 DEF KeptBytesNamed
<1> QED BY <1>4, <1>6, <1>7, <1>8, <1>9, <1>10

-----------------------------------------------------------------------------
(* A scheduled run's steps.                                                *)

\* A run moves and lists nothing that can be read; before it has deleted bytes.
LEMMA RunMovesKeeps ==
    ASSUME StoreConstants, StoreInvariant, NEW c \in Cron,
           run' \in [Cron -> Runs], \A d \in Cron \ {c} : run'[d] = run[d],
           run'[c].ids \subseteq 1 .. used, \A i \in run'[c].ids : ~Live(i),
           run'[c].at \notin {"rows", "orphanRows"},
           UNCHANGED <<stores, req, history>>,
           mails' \in Nat, faults' \in Nat, changes' \in Nat
    PROVE  StoreInvariant'
<1> USE DEF StoreInvariant, stores, history
<1>1. StoreTypeOK'
    BY DEF StoreTypeOK
<1>2. \A i \in Id : Live(i)' <=> Live(i)
    BY DEF Live
<1>3. IdsInOrder'
    BY DEF IdsInOrder
<1>4. BytesOfRow'
    <2>1. \A g \in Handler : req[g].at \in {"put", "upsert"} => req[g].id \in Id
        BY DEF IdsInOrder, StoreTypeOK, Id, StoreConstants
    <2> QED BY <1>2, <2>1 DEF BytesOfRow
<1>5. ListedIsGone'
    <2>1. \A d \in Cron : run'[d].ids \subseteq Id
        BY DEF StoreTypeOK, IdsInOrder, Id, StoreConstants
    <2> QED BY <1>2, <2>1 DEF ListedIsGone
<1>6. BytesReadable' /\ KeptBytesNamed'
    BY <1>2 DEF BytesReadable, KeptBytesNamed, StoreTypeOK
<1> QED BY <1>1, <1>3, <1>4, <1>5, <1>6

LEMMA ScheduleKeeps ==
    ASSUME StoreConstants, StoreInvariant, NEW c \in Cron, Schedule(c)
    PROVE  StoreInvariant'
<1>1. At(c, "expired") /\ UNCHANGED <<stores, req, bounds, history>>
    BY DEF Schedule
<1>2. /\ run' \in [Cron -> Runs] /\ run'[c].at = "expired" /\ run'[c].ids = run[c].ids
      /\ \A d \in Cron \ {c} : run'[d] = run[d]
    BY <1>1, AtFacts DEF StoreInvariant
<1>3. run[c].ids \subseteq 1 .. used /\ \A i \in run[c].ids : ~Live(i)
    BY DEF StoreInvariant, IdsInOrder, ListedIsGone
<1> QED BY <1>1, <1>2, <1>3, RunMovesKeeps DEF bounds, StoreInvariant, StoreTypeOK

\* A page lists rows of those that were found.
LEMMA ListKeeps ==
    ASSUME StoreConstants, StoreInvariant, NEW c \in Cron,
           NEW from, NEW found \in SUBSET att, \A i \in found : ~Live(i),
           NEW some \in {"bytes", "orphanBytes"}, NEW none \in {"messages", "idle"},
           List(c, from, found, some, none)
    PROVE  StoreInvariant'
<1>1. UNCHANGED <<stores, req, bounds, history>> /\ StoreTypeOK
    BY DEF List, StoreInvariant
<1>i. att \subseteq Id /\ used \in Nat /\ \A i \in Id : i > used => i \notin att
    BY DEF StoreInvariant, StoreTypeOK, StoreConstants, IdsInOrder, Id
<1>j. \A i \in att : i \in 1 .. used
    BY <1>i DEF Id
<1>f. found \subseteq Id /\ found \subseteq 1 .. used
    BY <1>i, <1>j
<1>2. CASE At(c, none)
    <2>1. /\ run' \in [Cron -> Runs] /\ run'[c].at = none /\ run'[c].ids = run[c].ids
          /\ \A d \in Cron \ {c} : run'[d] = run[d]
        BY <1>1, <1>2, AtFacts
    <2>2. run[c].ids \subseteq 1 .. used /\ \A i \in run[c].ids : ~Live(i)
        BY DEF StoreInvariant, IdsInOrder, ListedIsGone
    <2> QED BY <1>1, <2>1, <2>2, RunMovesKeeps DEF bounds, StoreTypeOK
<1>3. CASE \E ids \in SUBSET found :
               run' = [run EXCEPT ![c] = [at |-> some, ids |-> ids, last |-> Cardinality(ids) < Page]]
    <2>1. PICK ids \in SUBSET found :
               run' = [run EXCEPT ![c] = [at |-> some, ids |-> ids, last |-> Cardinality(ids) < Page]]
        BY <1>3
    <2> DEFINE last == Cardinality(ids) < Page
               next == [at |-> some, ids |-> ids, last |-> last]
    <2>2. ids \in SUBSET Id /\ ids \subseteq 1 .. used
        BY <1>f
    <2>3. last \in BOOLEAN
        OBVIOUS
    <2>4. run' = [run EXCEPT ![c] = next]
        BY <2>1
    <2> HIDE DEF last
    <2>5. next \in Runs /\ next.at = some /\ next.ids = ids
        BY <2>2, <2>3 DEF Runs
    <2> HIDE DEF next
    <2>6. /\ run' \in [Cron -> Runs] /\ run'[c] = next /\ \A d \in Cron \ {c} : run'[d] = run[d]
        BY <1>1, <2>4, <2>5 DEF StoreTypeOK
    <2> QED BY <1>1, <2>2, <2>5, <2>6, RunMovesKeeps DEF bounds, StoreTypeOK
<1> QED BY <1>2, <1>3 DEF List

\* Both listings find rows of messages that cannot be read.
LEMMA ListingsKeep ==
    ASSUME StoreConstants, StoreInvariant, NEW c \in Cron, ListExpired(c) \/ ListOrphans(c)
    PROVE  StoreInvariant'
<1>1. /\ ToExpire \in SUBSET att /\ \A i \in ToExpire : ~Live(i)
      /\ Orphans \in SUBSET att /\ \A i \in Orphans : ~Live(i)
    BY DEF ToExpire, Orphans, Expired, Live
<1> QED BY <1>1, ListKeeps DEF ListExpired, ListOrphans

LEMMA BytesKeeps ==
    ASSUME StoreConstants, StoreInvariant, NEW c \in Cron, NEW from,
           NEW to \in {"rows", "orphanRows"}, Bytes(c, from, to)
    PROVE  StoreInvariant'
<1>1. /\ At(c, to) /\ blob' = [i \in Id |-> IF i \in run[c].ids THEN "none" ELSE blob[i]]
      /\ UNCHANGED <<alias, row, perm, old, att, used, req, bounds, history>>
    BY DEF Bytes
<1>2. /\ run' \in [Cron -> Runs] /\ run'[c].at = to /\ run'[c].ids = run[c].ids
      /\ \A d \in Cron \ {c} : run'[d] = run[d]
    BY <1>1, AtFacts DEF StoreInvariant
<1>3. blob' \in [Id -> Blob] /\ \A i \in Id : blob'[i] \in {blob[i], "none"}
    BY <1>1 DEF StoreInvariant, StoreTypeOK, Blob
<1>4. \A i \in Id : blob'[i] # blob[i] => ~Live(i)
    BY <1>1 DEF StoreInvariant, ListedIsGone
<1>5. \A i \in run'[c].ids : blob'[i] = "none"
    BY <1>1, <1>2 DEF StoreInvariant, StoreTypeOK, Runs
<1> QED BY <1>1, <1>2, <1>3, <1>4, <1>5, BytesGoKeeps

LEMMA RowsKeeps ==
    ASSUME StoreConstants, StoreInvariant, NEW c \in Cron, NEW from \in {"rows", "orphanRows"},
           NEW again \in {"expired", "orphans"}, NEW done \in {"messages", "idle"},
           Rows(c, from, again, done)
    PROVE  StoreInvariant'
<1> USE DEF StoreInvariant, history
<1> DEFINE place == IF run[c].last THEN done ELSE again
           next == [NoRun EXCEPT !.at = place]
<1>1. /\ run[c].at = from /\ att' = att \ run[c].ids
      /\ UNCHANGED <<alias, row, perm, old, blob, used, req, bounds, history>>
    BY DEF Rows
<1>2. next \in Runs /\ next.at \notin {"rows", "orphanRows"} /\ next.ids = {}
    BY DEF NoRun, Runs
<1>3. run' = [run EXCEPT ![c] = next]
    BY DEF Rows
<1> HIDE DEF next
<1>4. /\ run' \in [Cron -> Runs] /\ run'[c] = next /\ \A d \in Cron \ {c} : run'[d] = run[d]
    BY <1>2, <1>3 DEF StoreTypeOK
<1>5. StoreTypeOK'
    BY <1>1, <1>4 DEF StoreTypeOK, bounds
<1>6. \A i \in Id : Live(i)' <=> Live(i)
    BY <1>1 DEF Live
<1>7. IdsInOrder'
    BY <1>1, <1>2, <1>4 DEF IdsInOrder
<1>8. BytesOfRow'
    <2>1. \A g \in Handler : req[g].at \in {"put", "upsert"} => req[g].id \in Id
        BY DEF IdsInOrder, StoreTypeOK, Id, StoreConstants
    <2> QED BY <1>1, <1>6, <2>1 DEF BytesOfRow
<1>9. ListedIsGone'
    BY <1>1, <1>2, <1>4, <1>6 DEF ListedIsGone, StoreTypeOK, Runs
<1>10. BytesReadable'
    BY <1>1, <1>6 DEF BytesReadable, StoreTypeOK
<1>11. KeptBytesNamed'
    <2>1. \A i \in run[c].ids : blob[i] = "kept" => i \in leaked
        BY <1>1 DEF ListedIsGone
    <2> QED BY <1>1, <2>1 DEF KeptBytesNamed
<1> QED BY <1>5, <1>7, <1>8, <1>9, <1>10, <1>11

LEMMA DeletionsKeep ==
    ASSUME StoreConstants, StoreInvariant, NEW c \in Cron, DeleteExpired(c) \/ DeleteOrphans(c)
    PROVE  StoreInvariant'
BY BytesKeeps, RowsKeeps DEF DeleteExpired, DeleteOrphans

LEMMA DeleteMessagesKeeps ==
    ASSUME StoreConstants, StoreInvariant, NEW c \in Cron, DeleteMessages(c)
    PROVE  StoreInvariant'
<1> USE DEF StoreInvariant, history
<1>1. /\ At(c, "orphans") /\ row' = [i \in Id |-> IF Expired(i) THEN None ELSE row[i]]
      /\ UNCHANGED <<alias, perm, old, att, blob, used, req, bounds, history>>
    BY DEF DeleteMessages
<1>2. /\ run' \in [Cron -> Runs] /\ run'[c].at = "orphans" /\ run'[c].ids = run[c].ids
      /\ \A d \in Cron \ {c} : run'[d] = run[d]
    BY <1>1, AtFacts
<1>3. row' \in [Id -> Message \cup {None}] /\ \A i \in Id : row'[i] \in {row[i], None}
    BY <1>1 DEF StoreTypeOK
<1>4. StoreTypeOK'
    BY <1>1, <1>2, <1>3 DEF StoreTypeOK, bounds
<1>5. \A i \in Id : Live(i)' => Live(i)
    BY <1>1, <1>3 DEF Live
<1>6. IdsInOrder'
    BY <1>1, <1>2, <1>3 DEF IdsInOrder
<1>7. BytesOfRow'
    <2>1. \A g \in Handler : req[g].at \in {"put", "upsert"} => req[g].id \in Id
        BY DEF IdsInOrder, StoreTypeOK, Id, StoreConstants
    <2> QED BY <1>1, <1>3, <1>5, <2>1 DEF BytesOfRow, StoreConstants
<1>8. ListedIsGone'
    BY <1>1, <1>2, <1>5 DEF ListedIsGone, StoreTypeOK, Runs
<1>9. BytesReadable' /\ KeptBytesNamed'
    BY <1>1, <1>5 DEF BytesReadable, KeptBytesNamed, StoreTypeOK
<1> QED BY <1>4, <1>6, <1>7, <1>8, <1>9

-----------------------------------------------------------------------------
\* A handler that stops between the bytes and their row leaves them leaked.
LEMMA StopKeeps ==
    ASSUME StoreConstants, StoreInvariant, Stop
    PROVE  StoreInvariant'
<1> USE DEF StoreInvariant, history
<1>1. faults' \in Nat /\ UNCHANGED <<stores, mails, changes, retimed>>
    BY DEF Stop, Fault, StoreTypeOK
<1>2. ASSUME NEW h \in Handler, req[h].at # "idle", Answered(h), UNCHANGED run,
             leaked' = IF Stage(h) = "upsert" THEN leaked \cup {req[h].id} ELSE leaked
      PROVE  StoreInvariant'
    <2>1. /\ req' \in [Handler -> Requests] /\ req'[h].at = "idle"
          /\ \A g \in Handler \ {h} : req'[g] = req[g]
        BY <1>2, AnsweredFacts
    <2>2. CASE req[h].at # "upsert"
        <3>1. UNCHANGED leaked
            BY <1>2, <2>2 DEF Stage
        <3> QED BY <1>1, <1>2, <2>1, <2>2, <3>1, HandlerMovesKeeps DEF StoreTypeOK
    <2>3. CASE req[h].at = "upsert"
        <3>1. leaked' = leaked \cup {req[h].id} /\ req[h].id \in Id
            BY <1>2, <2>3 DEF Stage, IdsInOrder, StoreTypeOK, Id, StoreConstants
        <3>2. StoreTypeOK'
            BY <1>1, <1>2, <2>1, <3>1 DEF StoreTypeOK, stores
        <3>3. \A i \in Id : Live(i)' <=> Live(i)
            BY <1>1 DEF Live, stores
        <3>4. IdsInOrder'
            BY <1>1, <1>2, <2>1 DEF IdsInOrder, stores
        <3>5. BytesOfRow'
            <4>1. \A g \in Handler : req[g].at \in {"put", "upsert"} => req[g].id \in Id
                BY DEF IdsInOrder, StoreTypeOK, Id, StoreConstants
            <4> QED BY <1>1, <2>1, <3>3, <4>1 DEF BytesOfRow, stores
        <3>6. ListedIsGone'
            BY <1>1, <1>2, <3>1, <3>3 DEF ListedIsGone, StoreTypeOK, Runs, stores
        <3>7. BytesReadable' /\ KeptBytesNamed'
            BY <1>1, <2>1, <3>1, <3>3 DEF BytesReadable, KeptBytesNamed, StoreTypeOK, stores
        <3> QED BY <3>2, <3>4, <3>5, <3>6, <3>7
    <2> QED BY <2>2, <2>3
<1>3. ASSUME NEW c \in Cron, run' = [run EXCEPT ![c] = NoRun], UNCHANGED <<req, leaked>>
      PROVE  StoreInvariant'
    <2>1. /\ run' \in [Cron -> Runs] /\ run'[c] = NoRun /\ \A d \in Cron \ {c} : run'[d] = run[d]
        BY <1>3, NoRunType DEF StoreTypeOK
    <2> QED BY <1>1, <1>3, <2>1, NoRunType, RunMovesKeeps DEF StoreTypeOK
<1> QED BY <1>2, <1>3 DEF Stop

-----------------------------------------------------------------------------
LEMMA InitStore ==
    ASSUME StoreConstants, Init
    PROVE  StoreInvariant
<1>1. /\ alias \in AliasState /\ row = [i \in Id |-> None] /\ perm = {} /\ old = {}
      /\ att = {} /\ blob = [i \in Id |-> "none"] /\ leaked = {} /\ retimed = {}
      /\ used = 0 /\ mails = 0 /\ faults = 0 /\ changes = 0
    BY DEF Init
<1>2. /\ req \in [Handler -> Requests] /\ \A h \in Handler : req[h].at = "idle"
      /\ run \in [Cron -> Runs] /\ \A c \in Cron : run[c].ids = {} /\ run[c].at = "idle"
    BY NoRequestType, NoRunType DEF Init
<1>3. StoreTypeOK
    BY <1>1, <1>2 DEF StoreTypeOK, StoreConstants, Blob
<1>4. IdsInOrder /\ BytesOfRow /\ ListedIsGone
    BY <1>1, <1>2 DEF IdsInOrder, BytesOfRow, ListedIsGone
<1>5. BytesReadable /\ KeptBytesNamed
    BY <1>1 DEF BytesReadable, KeptBytesNamed
<1> QED BY <1>3, <1>4, <1>5 DEF StoreInvariant

LEMMA StepStore ==
    ASSUME StoreConstants, StoreInvariant, [Next]_vars
    PROVE  StoreInvariant'
<1>1. CASE SetAlias \/ GrowOld \/ Drop \/ Stop
    BY <1>1, SetAliasKeeps, GrowOldKeeps, DropKeeps, StopKeeps
<1>2. CASE \E h \in Handler : Receive(h) \/ Ingest(h)
    BY <1>2, ReceiveKeeps, InsertKeeps, SelectKeeps, PutKeeps, UpsertKeeps DEF Ingest
<1>3. CASE \E c \in Cron : Cleanup(c)
    BY <1>3, ScheduleKeeps, ListingsKeep, DeletionsKeep, DeleteMessagesKeeps DEF Cleanup
<1>4. CASE UNCHANGED vars
    <2>1. UNCHANGED <<alias, row, perm, old, att, blob, used, req, run, mails, faults, changes,
                    leaked, retimed>>
        BY <1>4 DEF vars, stores, bounds, history
    <2> QED BY <2>1 DEF StoreInvariant, StoreTypeOK, IdsInOrder, BytesOfRow, ListedIsGone,
                        BytesReadable, KeptBytesNamed, Live
<1> QED BY <1>1, <1>2, <1>3, <1>4 DEF Next

\* However deliveries of one message or of several, the deletion of the alias,
\* the lapse of a time to live, overlapping scheduled runs and handlers and runs
\* that stop half-way interleave, and whatever each delivery says of the retention
\* (messages/service.ts): every id that was given stays with its message, what a
\* run has listed never becomes readable, and bytes a readable message names are
\* there unless a delivery that called a permanent row temporary put them last.
THEOREM StoreStaysInOrder ==
    ASSUME StoreConstants
    PROVE  Spec => []StoreInvariant
<1>1. Init => StoreInvariant
    BY InitStore
<1>2. StoreInvariant /\ [Next]_vars => StoreInvariant'
    BY StepStore
<1> QED BY <1>1, <1>2, PTL DEF Spec
=============================================================================
