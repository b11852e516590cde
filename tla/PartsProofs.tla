------------------------------ MODULE PartsProofs ------------------------------
(***************************************************************************)
(* For every set of clients, mailboxes, scans, messages and handlers and   *)
(* every bound: what the lookup, the pool of connections, the bridge, the  *)
(* worker's store and the browser capture promise.                         *)
(*                                                                         *)
(* The pool, the bridge and the store are proved in modules of their own,  *)
(* whose theorems are cited here through the instances of MCParts.  This   *)
(* module has the proofs of CodeLookup, which MCParts extends, those of    *)
(* BrowserCapture, and the step from each part to all of them: the parts   *)
(* share no variable, so a behaviour of all is one of each.                *)
(***************************************************************************)
EXTENDS MCParts, FiniteSetTheorems, WellFoundedInduction, TLAPS

-----------------------------------------------------------------------------
(* The lookup.  What the operators return.                                 *)

\* A request goes to another place and keeps its event.
LEMMA GotoFacts ==
    ASSUME TypeOK, NEW r \in Request, NEW s \in Stage, Goto(r, s)
    PROVE  /\ req' \in [Request -> RequestStates]
           /\ req'[r].at = s /\ req'[r].event = req[r].event /\ req'[r].warmed = req[r].warmed
           /\ \A q \in Request \ {r} : req'[q] = req[q]
<1> DEFINE next == [req[r] EXCEPT !.at = s]
<1>1. req[r] \in RequestStates
    BY DEF TypeOK
<1>2. next \in RequestStates /\ next.at = s /\ next.event = req[r].event
      /\ next.warmed = req[r].warmed
    BY <1>1 DEF RequestStates
<1>3. req' = [req EXCEPT ![r] = next]
    BY DEF Goto
<1> HIDE DEF next
<1> QED BY <1>2, <1>3 DEF TypeOK

LEMMA AnsweredFacts ==
    ASSUME TypeOK, NEW r \in Request, Answered(r)
    PROVE  /\ req' \in [Request -> RequestStates]
           /\ req'[r].at = "idle" /\ ~req'[r].warmed
           /\ \A q \in Request \ {r} : req'[q] = req[q]
<1>1. Idle \in RequestStates /\ Idle.at = "idle" /\ ~Idle.warmed
    BY DEF Idle, RequestStates, Stage
<1>2. req' = [req EXCEPT ![r] = Idle]
    BY DEF Answered
<1> HIDE DEF Idle
<1> QED BY <1>1, <1>2 DEF TypeOK

\* The watcher turns to the next folder, or finishes.
LEMMA NextFolderFacts ==
    ASSUME TypeOK, NEW added \in BOOLEAN, NextFolder(added)
    PROVE  /\ wat' \in WatcherStates /\ wat'.added = added
           /\ wat'.at \in {"select", "finish"}
<1>1. wat \in WatcherStates /\ Folders \in Nat \ {0}
    BY MailboxAssumption DEF TypeOK
<1>2. CASE wat.folder < Folders
    <2>1. wat' = [wat EXCEPT !.at = "select", !.folder = wat.folder + 1, !.picked = {},
                             !.added = added]
        BY <1>2 DEF NextFolder
    <2>2. wat.folder + 1 \in Folder
        BY <1>1, <1>2 DEF WatcherStates, Folder
    <2> QED BY <1>1, <2>1, <2>2 DEF WatcherStates
<1>3. CASE ~(wat.folder < Folders)
    <2>1. wat' = [at |-> "finish", folder |-> 1, picked |-> {}, added |-> added]
        BY <1>3 DEF NextFolder, Asleep
    <2>2. 1 \in Folder
        BY <1>1 DEF Folder
    <2> QED BY <2>1, <2>2 DEF WatcherStates
<1> QED BY <1>2, <1>3

LEMMA AsleepType == Asleep \in WatcherStates /\ Asleep.at = "top" /\ ~Asleep.added
BY MailboxAssumption DEF Asleep, WatcherStates, Folder

LEMMA FaultType ==
    ASSUME TypeOK, Fault \/ UNCHANGED faults
    PROVE  faults' \in 0 .. MaxFaults
BY MailboxAssumption DEF TypeOK, Fault

\* A set of numbers below a bound has a greatest one.
LEMMA Greatest ==
    ASSUME NEW K \in SUBSET (1 .. MaxMail), K # {}
    PROVE  \E x \in K : \A y \in K : y <= x
<1> DEFINE lower == {p \in Nat \X Nat : p[1] < p[2]}
           low == {MaxMail - x : x \in K}
<1>m. MaxMail \in Nat
    BY MailboxAssumption
<1>0. \A x \in K : x \in Nat /\ x <= MaxMail /\ MaxMail - x \in Nat
    BY <1>m
<1>1. low \subseteq Nat /\ low # {}
    BY <1>0
<1>2. IsWellFoundedOn(lower, Nat)
    BY NatLessThanWellFounded DEF OpToRel
<1>3. PICK u \in low : \A v \in low : ~(<<v, u>> \in lower)
    <2> HIDE DEF low, lower
    <2> QED BY <1>1, <1>2, WFMin
<1>4. PICK x \in K : u = MaxMail - x
    OBVIOUS
<1>5. ASSUME NEW y \in K
      PROVE  y <= x
    <2>1. MaxMail - y \in low /\ MaxMail - y \in Nat /\ u \in Nat
        BY <1>1
    <2>2. ~(MaxMail - y < u)
        BY <1>3, <2>1
    <2> QED BY <1>4, <2>2, MailboxAssumption
<1> QED BY <1>5

\* Some message of a set has the highest UID, and some is the newest.
LEMMA Highest ==
    ASSUME NEW S \in SUBSET Mail, S # {}
    PROVE  \E m \in S : \A n \in S : n.uid <= m.uid
<1> DEFINE uids == {m.uid : m \in S}
<1>1. uids \in SUBSET (1 .. MaxMail) /\ uids # {}
    BY DEF Mail
<1>2. PICK x \in uids : \A y \in uids : y <= x
    <2> HIDE DEF uids
    <2> QED BY <1>1, Greatest
<1> QED BY <1>2

LEMMA Newest ==
    ASSUME NEW S \in SUBSET Mail, S # {}
    PROVE  \E m \in S : \A n \in S : n.at <= m.at
<1> DEFINE times == {m.at : m \in S}
<1>1. times \in SUBSET (1 .. MaxMail) /\ times # {}
    BY DEF Mail
<1>2. PICK x \in times : \A y \in times : y <= x
    <2> HIDE DEF times
    <2> QED BY <1>1, Greatest
<1> QED BY <1>2

\* The newest few of some messages are some.
LEMMA TopIsSome ==
    ASSUME NEW S \in SUBSET Mail, S # {}
    PROVE  Top(S, FetchLimit) \subseteq S /\ Top(S, FetchLimit) # {}
<1>1. PICK m \in S : \A n \in S : n.uid <= m.uid
    BY Highest
<1>2. {n \in S : n.uid > m.uid} = {}
    BY <1>1 DEF Mail
<1>3. Cardinality({n \in S : n.uid > m.uid}) < FetchLimit
    <2>1. Cardinality({}) = 0 /\ 0 < FetchLimit
        BY FS_EmptySet, LimitsAssumption
    <2> QED BY <1>2, <2>1
<1>4. m \in Top(S, FetchLimit)
    BY <1>3, Zenon DEF Top
<1> QED BY <1>4 DEF Top

-----------------------------------------------------------------------------
(* Steps that leave the requests alone.                                    *)

\* The index shows no more than it did, or what is new is still unannounced.
LEMMA QuietKeeps ==
    ASSUME LookupInvariant, TypeOK', UNCHANGED req,
           \/ UNCHANGED fresh
           \/ ~fresh' /\ \A r \in Request : Looking(r) => ~req[r].warmed,
           Visible' \subseteq Visible \/ (wat'.at # "notify" /\ wat'.added),
           wat'.at = "top" => ~wat'.added,
           Unannounced => Unannounced',
           wat'.at = "notify" => wat.at = "notify"
    PROVE  LookupInvariant'
<1>1. WarmStays'
    BY DEF LookupInvariant, WarmStays, Looking, Polling
<1>2. ASSUME NEW r \in Request
      PROVE  /\ ~req[r].warmed /\ (Polling(r) \/ (req[r].at = "warm" /\ fresh')) =>
                    Visible' = {} \/ (wat'.at # "notify" /\ Unannounced')
             /\ req[r].at \in {"miss", "park"} /\ ~req[r].event => Visible' = {} \/ Unannounced'
    <2>1. /\ ~req[r].warmed /\ (Polling(r) \/ (req[r].at = "warm" /\ fresh)) =>
                 Visible = {} \/ (wat.at # "notify" /\ Unannounced)
          /\ req[r].at \in {"miss", "park"} /\ ~req[r].event => Visible = {} \/ Unannounced
        BY DEF LookupInvariant, Announced
    <2>2. CASE Visible' \subseteq Visible
        BY <2>1, <2>2
    <2>3. CASE wat'.at # "notify" /\ wat'.added
        BY <2>3 DEF Unannounced
    <2> QED BY <2>2, <2>3
<1>3. Announced'
    BY <1>2 DEF Announced, Polling
<1> QED BY <1>1, <1>3 DEF LookupInvariant

LEMMA ArriveKeepsMail ==
    ASSUME TypeOK, Arrive
    PROVE  /\ mail' \subseteq Mail /\ IsFiniteSet(mail') /\ Cardinality(mail') <= MaxMail
           /\ UNCHANGED <<horizon, setting, watcher, req, faults, history>>
<1>1. PICK b \in Box, f \in Folder :
          LET there == {m \in mail : m.box = b /\ m.folder = f}
          IN /\ Cardinality(mail) < MaxMail
             /\ mail' = mail \cup {[box |-> b, folder |-> f,
                                    uid |-> Cardinality(there) + 1,
                                    at |-> Cardinality(mail) + 1]}
             /\ UNCHANGED <<horizon, setting, watcher, req, faults, history>>
    BY DEF Arrive
<1> DEFINE there == {m \in mail : m.box = b /\ m.folder = f}
           new == [box |-> b, folder |-> f, uid |-> Cardinality(there) + 1,
                   at |-> Cardinality(mail) + 1]
<1>2. /\ Cardinality(mail) \in Nat /\ Cardinality(there) \in Nat
      /\ Cardinality(there) <= Cardinality(mail)
    <2>1. IsFiniteSet(mail) /\ there \in SUBSET mail
        BY DEF TypeOK
    <2> HIDE DEF there
    <2> QED BY <2>1, FS_Subset, FS_CardinalityType
<1>3. Cardinality(mail) < MaxMail /\ mail' = mail \cup {new}
    BY <1>1
<1>4. new \in Mail
    <2>1. Cardinality(there) + 1 \in 1 .. MaxMail /\ Cardinality(mail) + 1 \in 1 .. MaxMail
        BY <1>2, <1>3, MailboxAssumption
    <2> HIDE DEF there
    <2> QED BY <2>1 DEF Mail
<1> HIDE DEF new, there
<1>5. IsFiniteSet(mail') /\ Cardinality(mail') <= Cardinality(mail) + 1
    <2>1. IsFiniteSet(mail)
        BY DEF TypeOK
    <2>2. /\ IsFiniteSet(mail \cup {new})
          /\ Cardinality(mail \cup {new}) = IF new \in mail THEN Cardinality(mail)
                                            ELSE Cardinality(mail) + 1
        BY <2>1, FS_AddElement
    <2> QED BY <1>2, <1>3, <2>2
<1>6. Cardinality(mail') <= MaxMail
    BY <1>2, <1>3, <1>5, FS_CardinalityType, MailboxAssumption
<1> QED BY <1>1, <1>3, <1>4, <1>5, <1>6 DEF TypeOK

LEMMA AroundKeeps ==
    ASSUME LookupInvariant, Arrive \/ GrowOld \/ GrowStale \/ Configure
    PROVE  LookupInvariant'
<1> USE DEF LookupInvariant
<1>1. UNCHANGED <<wat, conn, cursor, index, req, faults, dropped, skipped>>
    BY DEF Arrive, GrowOld, GrowStale, Configure, watcher, history
<1>2. \/ UNCHANGED fresh
      \/ ~fresh' /\ fresh' \in BOOLEAN /\ \A r \in Request : Looking(r) => ~req[r].warmed
    BY DEF Arrive, GrowOld, GrowStale, Configure, watcher
<1>3. mail' \subseteq Mail /\ IsFiniteSet(mail') /\ Cardinality(mail') <= MaxMail
    BY ArriveKeepsMail DEF GrowOld, GrowStale, Configure, mailbox, TypeOK
<1>4. horizon' \in 0 .. MaxMail /\ horizon <= horizon'
    <2>1. Cardinality(mail) \in Nat
        BY FS_CardinalityType DEF TypeOK
    <2>2. UNCHANGED horizon \/ (horizon < Cardinality(mail) /\ horizon' = horizon + 1)
        BY DEF Arrive, GrowOld, GrowStale, Configure, mailbox
    <2> QED BY <2>1, <2>2, MailboxAssumption DEF TypeOK
<1>5. config' \in Box \cup {None} /\ changes' \in 0 .. MaxChanges
    BY MailboxAssumption DEF Arrive, GrowOld, GrowStale, Configure, setting, TypeOK
<1>6. TypeOK'
    BY <1>1, <1>2, <1>3, <1>4, <1>5 DEF TypeOK
<1>7. Visible' \subseteq Visible
    BY <1>1, <1>4 DEF Visible, Current, TypeOK, Mail
<1> QED BY <1>1, <1>2, <1>6, <1>7, QuietKeeps DEF Announced, Unannounced

-----------------------------------------------------------------------------
(* The watcher's steps.                                                    *)

LEMMA BeginKeeps ==
    ASSUME LookupInvariant, Begin
    PROVE  LookupInvariant'
<1> USE DEF LookupInvariant
<1>1. /\ wat.at = "top"
      /\ UNCHANGED <<mail, horizon, config, changes, index, fresh, req, dropped, skipped>>
    BY DEF Begin, mailbox, setting, history
<1>2. /\ conn' \in Box \cup {None} /\ cursor' \in [Folder -> 0 .. MaxMail]
      /\ faults' \in 0 .. MaxFaults
    BY FaultType, MailboxAssumption DEF Begin, NewConnection, TypeOK
<1>3. /\ wat' \in WatcherStates /\ wat'.at \in {"top", "select"} /\ ~wat'.added
    <2>1. CASE wat' = [Asleep EXCEPT !.at = "select"]
        <3>1. wat' = [at |-> "select", folder |-> 1, picked |-> {}, added |-> FALSE]
            BY <2>1 DEF Asleep
        <3>2. 1 \in Folder
            BY MailboxAssumption DEF Folder
        <3> QED BY <3>1, <3>2 DEF WatcherStates
    <2>2. CASE UNCHANGED wat
        BY <1>1, <2>2 DEF TypeOK, Announced
    <2> QED BY <2>1, <2>2 DEF Begin
<1>4. TypeOK'
    BY <1>1, <1>2, <1>3 DEF TypeOK
<1>5. UNCHANGED Visible /\ (Unannounced => Unannounced')
    BY <1>1 DEF Visible, Current, Announced, Unannounced
<1> QED BY <1>1, <1>3, <1>4, <1>5, QuietKeeps

LEMMA SelectKeeps ==
    ASSUME LookupInvariant, Select
    PROVE  LookupInvariant'
<1> USE DEF LookupInvariant
<1>1. /\ wat.at = "select" /\ wat \in WatcherStates
      /\ UNCHANGED <<mail, horizon, config, changes, cursor, index, fresh, req, skipped>>
    BY DEF Select, mailbox, setting, TypeOK
<1>2. faults' \in 0 .. MaxFaults
    BY FaultType DEF Select
<1>3. conn' \in Box \cup {None} /\ dropped' \in BOOLEAN
    BY <1>1 DEF Select, TypeOK, WatcherStates
<1>4. /\ wat' \in WatcherStates /\ wat'.at # "notify"
      /\ wat'.at = "top" => ~wat'.added
      /\ wat'.at = "fetch" => wat'.picked # {}
      /\ Unannounced => Unannounced'
    <2>1. CASE NextFolder(wat.added) /\ UNCHANGED dropped
        <3>1. /\ wat' \in WatcherStates /\ wat'.added = wat.added
              /\ wat'.at \in {"select", "finish"}
            BY <1>1, <2>1, NextFolderFacts DEF WatcherStates
        <3> QED BY <2>1, <3>1 DEF Unannounced
    <2>2. CASE /\ Unseen # {} /\ UNCHANGED dropped
               /\ wat' = [wat EXCEPT !.at = "fetch", !.picked = Top(Unseen, FetchLimit)]
        <3>1. Unseen \in SUBSET Mail
            BY DEF Unseen, TypeOK
        <3>2. Top(Unseen, FetchLimit) \in SUBSET Mail /\ Top(Unseen, FetchLimit) # {}
            BY <2>2, <3>1, TopIsSome
        <3> QED BY <1>1, <2>2, <3>2 DEF WatcherStates, Unannounced
    <2>3. CASE wat' = Asleep /\ dropped' = (dropped \/ wat.added)
        BY <2>3, AsleepType DEF Unannounced
    <2> QED BY <2>1, <2>2, <2>3 DEF Select
<1>5. TypeOK'
    BY <1>1, <1>2, <1>3, <1>4 DEF TypeOK
<1>6. UNCHANGED Visible
    BY <1>1 DEF Visible, Current
<1> QED BY <1>1, <1>4, <1>5, <1>6, QuietKeeps

LEMMA RaisedType ==
    ASSUME TypeOK, wat.at = "fetch"
    PROVE  Raised \in [Folder -> 0 .. MaxMail]
<1> DEFINE uids == {m.uid : m \in wat.picked}
           top == CHOOSE u \in uids : \A m \in wat.picked : m.uid <= u
<1>1. wat.picked \in SUBSET Mail /\ wat.picked # {}
    BY DEF TypeOK, WatcherStates
<1>2. PICK m \in wat.picked : \A n \in wat.picked : n.uid <= m.uid
    BY <1>1, Highest
<1>3. \E u \in uids : \A n \in wat.picked : n.uid <= u
    BY <1>2
<1>4. top \in uids
    BY <1>3
<1>5. uids \subseteq 1 .. MaxMail
    BY <1>1 DEF Mail
<1>6. top \in 0 .. MaxMail
    <2> HIDE DEF top, uids
    <2> QED BY <1>4, <1>5, MailboxAssumption
<1>7. Raised = [cursor EXCEPT ![wat.folder] = top]
    BY DEF Raised
<1> HIDE DEF top
<1> QED BY <1>6, <1>7 DEF TypeOK

LEMMA StoreKeeps ==
    ASSUME LookupInvariant, Store
    PROVE  LookupInvariant'
<1> USE DEF LookupInvariant
<1>1. /\ wat.at = "fetch" /\ wat \in WatcherStates
      /\ UNCHANGED <<mail, horizon, config, changes, conn, fresh, req, dropped>>
    BY DEF Store, mailbox, setting, TypeOK
<1>2. PICK got \in SUBSET wat.picked :
          LET new == {m \in got : ~Known(m)}
          IN /\ IF got = wat.picked THEN UNCHANGED faults ELSE Fault
             /\ index' = Kept(index \cup new)
             /\ cursor' = Raised
             /\ NextFolder(wat.added \/ new # {})
             /\ skipped' = (skipped \ new) \cup
                    {m \in Unseen \ (new \cup index) : m.uid <= cursor'[wat.folder]}
    BY DEF Store
<1> DEFINE new == {m \in got : ~Known(m)}
<1>3. new \in SUBSET Mail
    BY <1>1 DEF WatcherStates
<1>4. /\ index' = Kept(index \cup new) /\ cursor' = Raised
      /\ NextFolder(wat.added \/ new # {}) /\ (UNCHANGED faults \/ Fault)
      /\ skipped' \subseteq skipped \cup Unseen
    BY <1>2
<1> HIDE DEF new
<1>5. faults' \in 0 .. MaxFaults
    BY <1>4, FaultType
<1>6. index' \subseteq index \cup new /\ index' \subseteq Mail /\ skipped' \subseteq Mail
    BY <1>3, <1>4 DEF Kept, Unseen, TypeOK
<1>7. /\ wat' \in WatcherStates /\ wat'.added = (wat.added \/ new # {})
      /\ wat'.at \in {"select", "finish"}
    BY <1>1, <1>4, NextFolderFacts DEF WatcherStates
<1>8. TypeOK'
    BY <1>1, <1>4, <1>5, <1>6, <1>7, RaisedType DEF TypeOK
<1>9. Visible' \subseteq Visible \/ wat'.added
    BY <1>1, <1>6, <1>7 DEF Visible, Current
<1>10. Unannounced => Unannounced'
    BY <1>1, <1>7 DEF Unannounced
<1> QED BY <1>1, <1>7, <1>8, <1>9, <1>10, QuietKeeps

LEMMA FinishKeeps ==
    ASSUME LookupInvariant, Finish
    PROVE  LookupInvariant'
<1> USE DEF LookupInvariant
<1>1. /\ wat.at = "finish" /\ wat \in WatcherStates
      /\ index' = Visible /\ fresh' = TRUE
      /\ UNCHANGED <<mail, horizon, config, changes, conn, cursor, faults, dropped, skipped>>
    BY DEF Finish, mailbox, setting, history, TypeOK
<1>2. /\ wat' \in WatcherStates /\ (wat'.added = wat.added)
      /\ wat'.at \in {"notify", "top"} /\ (wat'.at = "top" => ~wat'.added)
    <2>1. CASE wat.added
        <3>1. wat' = [wat EXCEPT !.at = "notify"]
            BY <2>1 DEF Finish
        <3> QED BY <1>1, <2>1, <3>1 DEF WatcherStates
    <2>2. CASE ~wat.added
        <3>1. wat' = Asleep
            BY <2>2 DEF Finish
        <3>2. wat.added = FALSE /\ Asleep.added = FALSE
            BY <1>1, <2>2 DEF WatcherStates, Asleep
        <3> QED BY <3>1, <3>2, AsleepType
    <2> QED BY <2>1, <2>2
<1>3. /\ req' \in [Request -> RequestStates]
      /\ \A r \in Request : /\ req'[r].at = req[r].at /\ req'[r].event = req[r].event
                             /\ req'[r].warmed = (req[r].warmed \/ Looking(r))
    <2>1. req' = [r \in Request |-> [req[r] EXCEPT !.warmed = req[r].warmed \/ Looking(r)]]
        BY DEF Finish
    <2>2. ASSUME NEW r \in Request
          PROVE  /\ [req[r] EXCEPT !.warmed = req[r].warmed \/ Looking(r)] \in RequestStates
                 /\ req'[r].at = req[r].at /\ req'[r].event = req[r].event
                 /\ req'[r].warmed = (req[r].warmed \/ Looking(r))
        <3>1. req[r] \in RequestStates /\ Looking(r) \in BOOLEAN
            BY DEF TypeOK, Looking, Polling
        <3> QED BY <2>1, <3>1 DEF RequestStates
    <2> QED BY <2>1, <2>2
<1>4. Visible' = Visible /\ Visible \subseteq Mail
    BY <1>1 DEF Visible, Current, TypeOK
<1>5. TypeOK'
    BY <1>1, <1>2, <1>3, <1>4 DEF TypeOK
<1>6. WarmStays'
    BY <1>1, <1>3 DEF WarmStays, Looking, Polling
<1>7. Announced'
    BY <1>1, <1>2, <1>3, <1>4 DEF Announced, Unannounced, Looking, Polling
<1> QED BY <1>5, <1>6, <1>7

LEMMA NotifyKeeps ==
    ASSUME LookupInvariant, Notify
    PROVE  LookupInvariant'
<1> USE DEF LookupInvariant
<1>1. /\ wat.at = "notify" /\ wat' = Asleep /\ dropped' = FALSE
      /\ UNCHANGED <<mail, horizon, config, changes, conn, cursor, index, fresh, faults, skipped>>
    BY DEF Notify, mailbox, setting
<1> DEFINE woken(r) == req[r].event \/ req[r].at \in {"clear", "look", "miss", "park"}
<1>2. ASSUME NEW r \in Request
      PROVE  /\ req'[r] \in RequestStates
             /\ req'[r].at = req[r].at /\ (req'[r].warmed <=> req[r].warmed)
             /\ req[r].at \in {"clear", "look", "miss", "park"} => req'[r].event
    <2>1. req'[r] = [req[r] EXCEPT !.event = woken(r)]
        BY DEF Notify, Polling
    <2>2. req[r] \in RequestStates /\ woken(r) \in BOOLEAN
        BY DEF TypeOK, RequestStates
    <2>3. req[r].at \in {"clear", "look", "miss", "park"} => woken(r)
        OBVIOUS
    <2> HIDE DEF woken
    <2> QED BY <2>1, <2>2, <2>3 DEF RequestStates
<1> HIDE DEF woken
<1>3. TypeOK'
    <2>1. req' \in [Request -> RequestStates]
        BY <1>2 DEF Notify
    <2> QED BY <1>1, <2>1, AsleepType DEF TypeOK
<1>4. ASSUME NEW r \in Request
      PROVE  (Looking(r)' <=> Looking(r)) /\ (Polling(r)' <=> Polling(r))
    <2>1. req'[r].at = req[r].at
        BY <1>2
    <2> QED BY <2>1 DEF Looking, Polling
<1>5. WarmStays'
    <2> SUFFICES ASSUME NEW r \in Request
                 PROVE  /\ req'[r].at = "idle" => ~req'[r].warmed
                        /\ Looking(r)' /\ req'[r].warmed => fresh'
        BY DEF WarmStays
    <2>1. /\ req[r].at = "idle" => ~req[r].warmed
          /\ Looking(r) /\ req[r].warmed => fresh
        BY DEF WarmStays
    <2>2. req'[r].at = req[r].at /\ (req'[r].warmed <=> req[r].warmed) /\ fresh' = fresh
        BY <1>1, <1>2
    <2> QED BY <1>4, <2>1, <2>2
<1>6. UNCHANGED Visible
    BY <1>1 DEF Visible, Current
<1>7. ASSUME NEW r \in Request
      PROVE  /\ ~req'[r].warmed /\ (Polling(r)' \/ (req'[r].at = "warm" /\ fresh')) =>
                    Visible' = {}
             /\ req'[r].at \in {"miss", "park"} => req'[r].event
    <2>1. ~req[r].warmed /\ (Polling(r) \/ (req[r].at = "warm" /\ fresh)) => Visible = {}
        BY <1>1 DEF Announced
    <2>2. req'[r].at = req[r].at /\ (req'[r].warmed <=> req[r].warmed) /\ fresh' = fresh
        BY <1>1, <1>2
    <2>3. req'[r].at \in {"miss", "park"} => req'[r].event
        BY <1>2
    <2> QED BY <1>4, <1>6, <2>1, <2>2, <2>3
<1>8. Announced'
    BY <1>1, <1>7, AsleepType DEF Announced
<1> QED BY <1>3, <1>5, <1>8

-----------------------------------------------------------------------------
(* The requests' steps.                                                    *)

\* A request moves, and what is asked of its new place holds there.
LEMMA MoveKeeps ==
    ASSUME LookupInvariant, NEW r \in Request,
           UNCHANGED <<mailbox, setting, watcher, faults, history>>,
           req' \in [Request -> RequestStates], \A q \in Request \ {r} : req'[q] = req[q],
           req'[r].at = "idle" => ~req'[r].warmed,
           Looking(r)' /\ req'[r].warmed => fresh,
           ~req'[r].warmed /\ (Polling(r)' \/ (req'[r].at = "warm" /\ fresh)) =>
               Visible = {} \/ (wat.at # "notify" /\ Unannounced),
           req'[r].at \in {"miss", "park"} /\ ~req'[r].event => Visible = {} \/ Unannounced
    PROVE  LookupInvariant'
<1> USE DEF LookupInvariant
<1>1. UNCHANGED <<mail, horizon, config, changes, wat, conn, cursor, index, fresh, faults,
                  dropped, skipped>>
    BY DEF mailbox, setting, watcher, history
<1>2. TypeOK'
    BY <1>1 DEF TypeOK
<1>3. UNCHANGED <<Visible, Unannounced>>
    BY <1>1 DEF Visible, Current, Unannounced
<1>4. WarmStays'
    BY <1>1 DEF WarmStays, Looking, Polling
<1>5. Announced'
    BY <1>1, <1>3 DEF Announced, Polling
<1> QED BY <1>2, <1>4, <1>5

\* A request is answered: nothing is asked of it any more.
LEMMA AnsweredKeeps ==
    ASSUME LookupInvariant, NEW r \in Request, Answered(r),
           UNCHANGED <<mailbox, setting, watcher, faults, history>>
    PROVE  LookupInvariant'
<1>1. /\ req' \in [Request -> RequestStates]
      /\ req'[r].at = "idle" /\ ~req'[r].warmed
      /\ \A q \in Request \ {r} : req'[q] = req[q]
    BY AnsweredFacts DEF LookupInvariant
<1> QED BY <1>1, MoveKeeps DEF Looking, Polling

\* A request goes on, and keeps what it knows.
LEMMA GoesOnKeeps ==
    ASSUME LookupInvariant, NEW r \in Request, NEW s \in Stage \ {"idle"}, Goto(r, s),
           UNCHANGED <<mailbox, setting, watcher, faults, history>>,
           s # "scan" /\ req[r].warmed => fresh,
           ~req[r].warmed /\ (s \in {"clear", "look", "miss", "park"} \/ (s = "warm" /\ fresh)) =>
               Visible = {} \/ (wat.at # "notify" /\ Unannounced),
           s \in {"miss", "park"} /\ ~req[r].event => Visible = {} \/ Unannounced
    PROVE  LookupInvariant'
<1>1. /\ req' \in [Request -> RequestStates]
      /\ req'[r].at = s /\ req'[r].event = req[r].event /\ req'[r].warmed = req[r].warmed
      /\ \A q \in Request \ {r} : req'[q] = req[q]
    BY GotoFacts DEF LookupInvariant
<1>2. Polling(r)' => s \in {"clear", "look", "miss", "park"}
    BY <1>1 DEF Polling
<1>3. Looking(r)' => s # "scan"
    BY <1>1 DEF Looking, Polling
<1> QED BY <1>1, <1>2, <1>3, MoveKeeps

\* What is known of a request at each place of its long poll.
LEMMA AtPlace ==
    ASSUME LookupInvariant, NEW r \in Request
    PROVE  /\ req[r].at = "idle" => ~req[r].warmed
           /\ req[r].at \in Stage \ {"idle", "scan"} /\ req[r].warmed => fresh
           /\ ~req[r].warmed /\ (\/ req[r].at \in {"clear", "look", "miss", "park"}
                                 \/ req[r].at = "warm" /\ fresh) =>
                  Visible = {} \/ (wat.at # "notify" /\ Unannounced)
           /\ req[r].at \in {"miss", "park"} /\ ~req[r].event => Visible = {} \/ Unannounced
BY DEF LookupInvariant, WarmStays, Announced, Looking, Polling, Stage

LEMMA PollKeeps ==
    ASSUME LookupInvariant, NEW r \in Request, Poll(r)
    PROVE  LookupInvariant'
<1>1. UNCHANGED <<mailbox, setting, watcher, faults, history>>
    BY DEF Poll, Prepare, FirstLook, Listen, Clear, Look, Park, Wake, TimeUp, Scan
<1>2. CASE Answered(r)
    BY <1>1, <1>2, AnsweredKeeps
<1>3. CASE req[r].at = "idle" /\ Goto(r, "first")
    BY <1>1, <1>3, AtPlace, GoesOnKeeps DEF Stage
<1>4. CASE req[r].at = "first" /\ ~(fresh /\ Visible # {}) /\ Goto(r, "warm")
    <2>1. fresh => Visible = {}
        BY <1>4
    <2>2. req[r].warmed => fresh
        BY <1>4, AtPlace DEF Stage
    <2> HIDE DEF Visible
    <2> QED BY <1>1, <1>4, <2>1, <2>2, GoesOnKeeps DEF Stage
<1>5. CASE req[r].at = "warm" /\ Goto(r, IF fresh THEN "clear" ELSE "scan")
    <2>1. CASE fresh
        BY <1>1, <1>5, <2>1, AtPlace, GoesOnKeeps DEF Stage
    <2>2. CASE ~fresh
        BY <1>1, <1>5, <2>2, GoesOnKeeps DEF Stage
    <2> QED BY <2>1, <2>2
<1>6. CASE Clear(r)
    <2> DEFINE next == [req[r] EXCEPT !.at = "look", !.event = FALSE]
    <2>1. req[r] \in RequestStates /\ req[r].at = "clear"
        BY <1>6 DEF Clear, LookupInvariant, TypeOK
    <2>2. next \in RequestStates /\ next.at = "look" /\ (next.warmed <=> req[r].warmed)
        BY <2>1 DEF RequestStates, Stage
    <2>3. req' = [req EXCEPT ![r] = next]
        BY <1>6 DEF Clear
    <2> HIDE DEF next
    <2>4. /\ req' \in [Request -> RequestStates] /\ req'[r] = next
          /\ \A q \in Request \ {r} : req'[q] = req[q]
        BY <2>2, <2>3 DEF LookupInvariant, TypeOK
    <2>5. /\ req[r].warmed => fresh
          /\ ~req[r].warmed => Visible = {} \/ (wat.at # "notify" /\ Unannounced)
        BY <2>1, AtPlace DEF Stage
    <2> QED BY <1>1, <2>2, <2>4, <2>5, MoveKeeps
<1>7. CASE req[r].at = "look" /\ ~(fresh /\ Visible # {}) /\ Goto(r, "miss")
    <2>1. /\ req[r].warmed => fresh
          /\ ~req[r].warmed => Visible = {} \/ (wat.at # "notify" /\ Unannounced)
        BY <1>7, AtPlace DEF Stage
    <2>2. Visible = {} \/ Unannounced
        BY <1>7, <2>1
    <2> QED BY <1>1, <1>7, <2>1, <2>2, GoesOnKeeps DEF Stage
<1>8. CASE req[r].at = "miss" /\ Goto(r, "park")
    BY <1>1, <1>8, AtPlace, GoesOnKeeps DEF Stage
<1>9. CASE req[r].at = "park" /\ Goto(r, "clear")
    BY <1>1, <1>9, AtPlace, GoesOnKeeps DEF Stage
<1> QED BY <1>2, <1>3, <1>4, <1>5, <1>6, <1>7, <1>8, <1>9
        DEF Poll, Prepare, FirstLook, Listen, Look, Park, Wake, TimeUp, Scan

-----------------------------------------------------------------------------
LEMMA InitLookup ==
    ASSUME Init
    PROVE  LookupInvariant
<1>1. /\ mail = {} /\ horizon = 0 /\ config \in Box \cup {None} /\ wat = Asleep
      /\ conn = None /\ cursor = [f \in Folder |-> 0] /\ index = {} /\ fresh = FALSE
      /\ req = [r \in Request |-> Idle] /\ faults = 0 /\ changes = 0
      /\ dropped = FALSE /\ skipped = {}
    BY DEF Init
<1>2. Idle \in RequestStates /\ Idle.at = "idle" /\ ~Idle.warmed
    BY DEF Idle, RequestStates, Stage
<1>3. \A r \in Request : req[r] \in RequestStates /\ req[r].at = "idle" /\ ~req[r].warmed
    BY <1>1, <1>2
<1>4. TypeOK
    <2>1. req \in [Request -> RequestStates]
        BY <1>1, <1>3
    <2>2. Cardinality(mail) = 0 /\ IsFiniteSet(mail)
        BY <1>1, FS_EmptySet
    <2>3. Cardinality(mail) <= MaxMail /\ 0 \in 0 .. MaxMail /\ 0 \in 0 .. MaxFaults
          /\ 0 \in 0 .. MaxChanges
        BY <2>2, MailboxAssumption
    <2>4. wat \in WatcherStates /\ (wat.at = "fetch" => wat.picked # {})
        BY <1>1, AsleepType
    <2>5. cursor \in [Folder -> 0 .. MaxMail]
        BY <1>1, <2>3
    <2> QED BY <1>1, <2>1, <2>2, <2>3, <2>4, <2>5, Zenon DEF TypeOK
<1>5. WarmStays
    BY <1>3 DEF WarmStays, Looking, Polling
<1>6. Announced
    BY <1>1, <1>3, AsleepType DEF Announced, Polling
<1> QED BY <1>4, <1>5, <1>6 DEF LookupInvariant

LEMMA StepLookup ==
    ASSUME LookupInvariant, [Next]_vars
    PROVE  LookupInvariant'
<1>1. CASE Next
    BY <1>1, AroundKeeps, BeginKeeps, SelectKeeps, StoreKeeps, FinishKeeps, NotifyKeeps, PollKeeps
    DEF Next, Watch
<1>2. CASE UNCHANGED vars
    <2>1. /\ UNCHANGED <<mail, horizon, config, changes, wat, conn, cursor, index, fresh, req,
                         faults, dropped, skipped>>
        BY <1>2 DEF vars, mailbox, setting, watcher, history
    <2>2. TypeOK'
        BY <2>1 DEF LookupInvariant, TypeOK
    <2>3. UNCHANGED Visible /\ (Unannounced => Unannounced')
        BY <2>1 DEF Visible, Current, Unannounced
    <2> QED BY <2>1, <2>2, <2>3, QuietKeeps DEF LookupInvariant, Announced
<1> QED BY <1>1, <1>2

-----------------------------------------------------------------------------
(* The lookup: what the index holds.                                       *)

\* Entries that are put out leave enough newer ones behind, however many go at
\* once and whether or not any came at the same time.
LEMMA KeptAreEnough ==
    ASSUME NEW S \in SUBSET Mail, IsFiniteSet(S), NEW a \in Int,
           Cardinality({n \in S : n.at > a}) >= MaxCodes
    PROVE  Cardinality({n \in Kept(S) : n.at > a}) >= MaxCodes
<1> DEFINE above == {n \in S : n.at > a}
           left == {n \in Kept(S) : n.at > a}
           out == above \ Kept(S)
<1>1. Kept(S) \subseteq S
    BY DEF Kept
<1>2. CASE out = {}
    <2>1. left = above
        BY <1>1, <1>2
    <2> QED BY <2>1
<1>3. CASE out # {}
    <2>1. out \in SUBSET Mail
        OBVIOUS
    <2>2. PICK n \in out : \A p \in out : p.at <= n.at
        <3> HIDE DEF out
        <3> QED BY <1>3, <2>1, Newest
    <2> DEFINE over == {p \in S : p.at > n.at}
    <2>3. n \in S /\ n.at > a /\ n \notin Kept(S) /\ n.at \in Int
        BY DEF Mail
    <2>4. over \subseteq left
        <3> SUFFICES ASSUME NEW p \in S, p.at > n.at
                     PROVE  p \in left
            OBVIOUS
        <3>1. p.at \in Int /\ p.at > a
            BY <2>3 DEF Mail
        <3>2. p \in above
            BY <3>1
        <3>3. p \notin out
            BY <2>2, <2>3, <3>1
        <3> QED BY <3>1, <3>2, <3>3
    <2>5. ~(Cardinality(over) < MaxCodes)
        <3>1. n \in S /\ n \notin Kept(S)
            BY <2>3
        <3> QED BY <3>1, Zenon DEF Kept
    <2>6. IsFiniteSet(left) /\ left \in SUBSET S
        <3>1. left \in SUBSET S
            BY <1>1
        <3> HIDE DEF left
        <3> QED BY <3>1, FS_Subset
    <2>7. Cardinality(over) <= Cardinality(left) /\ Cardinality(over) \in Nat
          /\ Cardinality(left) \in Nat
        <3> HIDE DEF over, left
        <3> QED BY <2>4, <2>6, FS_Subset, FS_CardinalityType
    <2> HIDE DEF over
    <2> QED BY <2>5, <2>7, LimitsAssumption
<1> QED BY <1>2, <1>3

\* What _store has put out of the index has newer entries in its place.
LEMMA StoredOrEvicted ==
    ASSUME NEW S \in SUBSET Mail, IsFiniteSet(S), index' = Kept(S), NEW m \in Mail,
           m \in S \/ Cardinality({n \in S : n.at > m.at}) >= MaxCodes
    PROVE  m \in index' \/ Evicted(m)'
<1>1. CASE m \in index'
    BY <1>1
<1>2. CASE m \notin index'
    <2> DEFINE newer == {n \in S : n.at > m.at}
    <2>1. m.at \in Int
        BY DEF Mail
    <2>2. newer \in SUBSET S
        OBVIOUS
    <2>3. Cardinality(newer) \in Nat
        <3> HIDE DEF newer
        <3> QED BY <2>2, FS_Subset, FS_CardinalityType
    <2>4. m \in S => ~(Cardinality(newer) < MaxCodes)
        BY <1>2, Zenon DEF Kept
    <2>5. Cardinality(newer) >= MaxCodes
        <3> HIDE DEF newer
        <3>1. CASE m \in S
            BY <2>3, <2>4, <3>1, LimitsAssumption
        <3>2. CASE m \notin S
            BY <3>2 DEF newer
        <3> QED BY <3>1, <3>2
    <2>6. Cardinality({n \in Kept(S) : n.at > m.at}) >= MaxCodes
        BY <2>1, <2>5, KeptAreEnough
    <2> QED BY <2>6 DEF Evicted
<1> QED BY <1>1, <1>2

\* The messages of a folder are finitely many, and no fewer when more arrive.
LEMMA ThereCounts ==
    ASSUME IsFiniteSet(mail), IsFiniteSet(mail'), mail \subseteq mail', NEW b, NEW f
    PROVE  /\ Cardinality(There(b, f)) \in Nat /\ Cardinality(There(b, f)') \in Nat
           /\ Cardinality(There(b, f)) <= Cardinality(There(b, f)')
<1>1. There(b, f) \in SUBSET mail /\ There(b, f)' \in SUBSET mail'
      /\ There(b, f) \subseteq There(b, f)'
    BY DEF There
<1> QED BY <1>1, FS_Subset, FS_CardinalityType

-----------------------------------------------------------------------------
(* Steps that move no cursor and take nothing from the index.              *)

LEMMA BesideKeepsIndex ==
    ASSUME TypeOK, TypeOK', IndexInvariant,
           UNCHANGED <<cursor, index, skipped>>,
           conn' = conn \/ conn' = None,
           mail \subseteq mail', horizon <= horizon',
           UidsCount',
           \A m \in mail' \ mail : m.uid > Cardinality(There(m.box, m.folder)),
           wat'.at = "fetch" => conn' = conn /\ wat'.picked \subseteq There(conn, wat'.folder)
    PROVE  IndexInvariant'
<1> USE DEF IndexInvariant
<1>1. IsFiniteSet(mail) /\ IsFiniteSet(mail')
    BY DEF TypeOK
<1>2. (conn # None => \A f \in Folder : cursor[f] <= Cardinality(There(conn, f)))'
    <2> SUFFICES ASSUME conn' # None, NEW f \in Folder
                 PROVE  (cursor[f] <= Cardinality(There(conn, f)))'
        OBVIOUS
    <2>1. cursor[f] \in Int /\ cursor[f] <= Cardinality(There(conn, f)) /\ conn' = conn
        BY DEF CursorsBehind, TypeOK
    <2>2. /\ Cardinality(There(conn, f)) \in Nat /\ Cardinality(There(conn, f)') \in Nat
          /\ Cardinality(There(conn, f)) <= Cardinality(There(conn, f)')
        BY <1>1, ThereCounts
    <2>3. There(conn, f)' = {m \in mail' : m.box = conn /\ m.folder = f}
        BY <2>1 DEF There
    <2> QED BY <2>1, <2>2, <2>3
<1>3. (wat.at = "fetch" => wat.picked \subseteq There(conn, wat.folder))'
    BY DEF There
<1>4. CursorsBehind'
    BY <1>2, <1>3 DEF CursorsBehind
<1>5. SeenIsIndexed'
    <2> SUFFICES ASSUME NEW m \in Seen'
                 PROVE  m \in index' \/ Evicted(m)' \/ m \in skipped'
        BY DEF SeenIsIndexed
    <2>1. /\ m \in mail' /\ m \in Mail /\ m.at > horizon' /\ m.box = conn'
          /\ m.uid <= cursor[m.folder]
        BY DEF Seen, Current, TypeOK
    <2>2. conn' = conn /\ conn # None /\ m.folder \in Folder /\ m.uid \in Int /\ m.at \in Int
        BY <2>1, NoneAssumption DEF Mail
    <2>3. m \in mail
        <3>1. cursor[m.folder] <= Cardinality(There(m.box, m.folder))
            BY <2>1, <2>2 DEF CursorsBehind
        <3>2. cursor[m.folder] \in Int /\ Cardinality(There(m.box, m.folder)) \in Nat
            BY <1>1, <2>2, ThereCounts DEF TypeOK
        <3> QED BY <2>1, <2>2, <3>1, <3>2
    <2>4. m \in Seen
        BY <2>1, <2>2, <2>3 DEF Seen, Current, TypeOK
    <2> QED BY <2>4 DEF SeenIsIndexed, Evicted
<1> QED BY <1>4, <1>5

LEMMA ArriveKeepsIndex ==
    ASSUME LookupInvariant, LookupInvariant', IndexInvariant, Arrive
    PROVE  IndexInvariant'
<1> USE DEF LookupInvariant
<1>1. PICK b \in Box, f \in Folder :
          mail' = mail \cup {[box |-> b, folder |-> f,
                              uid |-> Cardinality({m \in mail : m.box = b /\ m.folder = f}) + 1,
                              at |-> Cardinality(mail) + 1]}
    BY DEF Arrive
<1>2. UNCHANGED <<horizon, wat, conn, cursor, index, skipped>>
    BY DEF Arrive, watcher, history
<1> DEFINE new == [box |-> b, folder |-> f, uid |-> Cardinality(There(b, f)) + 1,
                   at |-> Cardinality(mail) + 1]
<1>3. mail' = mail \cup {new}
    BY <1>1 DEF There
<1>4. new.box = b /\ new.folder = f /\ new.uid = Cardinality(There(b, f)) + 1
    OBVIOUS
<1> HIDE DEF new
<1>5. IsFiniteSet(mail) /\ IsFiniteSet(mail') /\ mail \subseteq Mail
    BY DEF TypeOK
<1>6. ASSUME NEW c, NEW g
      PROVE  /\ Cardinality(There(c, g)) \in Nat /\ Cardinality(There(c, g)') \in Nat
             /\ Cardinality(There(c, g)) <= Cardinality(There(c, g)')
    BY <1>3, <1>5, ThereCounts
<1>7. new \notin There(b, f)
    <2> SUFFICES ASSUME new \in There(b, f)
                 PROVE  FALSE
        OBVIOUS
    <2>1. new \in mail
        BY DEF There
    <2>2. new.uid <= Cardinality(There(b, f))
        BY <1>4, <2>1 DEF IndexInvariant, UidsCount
    <2> QED BY <1>4, <1>6, <2>2
<1>8. Cardinality(There(b, f)') = Cardinality(There(b, f)) + 1
    <2>1. There(b, f)' = There(b, f) \cup {new}
        BY <1>3, <1>4 DEF There
    <2>2. IsFiniteSet(There(b, f))
        <3>1. There(b, f) \in SUBSET mail
            BY DEF There
        <3> QED BY <1>5, <3>1, FS_Subset
    <2> QED BY <1>7, <2>1, <2>2, FS_AddElement
<1>9. UidsCount'
    <2> SUFFICES ASSUME NEW m \in mail'
                 PROVE  m.uid <= Cardinality(There(m.box, m.folder)')
        BY DEF UidsCount
    <2>1. CASE m \in mail
        <3>1. m.uid <= Cardinality(There(m.box, m.folder)) /\ m.uid \in Int
            BY <1>5, <2>1 DEF IndexInvariant, UidsCount, Mail
        <3> QED BY <1>6, <3>1
    <2>2. CASE m = new
        BY <1>4, <1>6, <1>8, <2>2
    <2> QED BY <1>3, <2>1, <2>2
<1>10. \A m \in mail' \ mail : m.uid > Cardinality(There(m.box, m.folder))
    BY <1>3, <1>4, <1>6
<1>11. wat'.at = "fetch" => conn' = conn /\ wat'.picked \subseteq There(conn, wat'.folder)
    BY <1>2 DEF IndexInvariant, CursorsBehind
<1>12. horizon <= horizon'
    BY <1>2 DEF TypeOK
<1> QED BY <1>2, <1>3, <1>9, <1>10, <1>11, <1>12, BesideKeepsIndex

LEMMA OthersKeepIndex ==
    ASSUME LookupInvariant, LookupInvariant', IndexInvariant,
           \/ GrowOld \/ GrowStale \/ Configure \/ Notify \/ (\E r \in Request : Poll(r))
           \/ UNCHANGED vars
    PROVE  IndexInvariant'
<1>1. UNCHANGED <<mail, conn, cursor, index, skipped>>
    BY DEF GrowOld, GrowStale, Configure, Notify, Poll, Prepare, FirstLook, Listen, Clear, Look,
           Park, Wake, TimeUp, Scan, mailbox, setting, watcher, history, vars
<1>2. horizon <= horizon'
    <2>1. UNCHANGED horizon \/ horizon' = horizon + 1
        BY DEF GrowOld, GrowStale, Configure, Notify, Poll, Prepare, FirstLook, Listen, Clear, Look,
               Park, Wake, TimeUp, Scan, mailbox, vars
    <2> QED BY <2>1 DEF LookupInvariant, TypeOK
<1>3. UNCHANGED wat \/ wat'.at = "top"
    BY AsleepType DEF GrowOld, GrowStale, Configure, Notify, Poll, Prepare, FirstLook, Listen, Clear,
       Look, Park, Wake, TimeUp, Scan, watcher, vars
<1>4. UidsCount'
    BY <1>1 DEF IndexInvariant, UidsCount, There
<1>5. wat'.at = "fetch" => conn' = conn /\ wat'.picked \subseteq There(conn, wat'.folder)
    BY <1>1, <1>3 DEF IndexInvariant, CursorsBehind
<1> QED BY <1>1, <1>2, <1>4, <1>5, BesideKeepsIndex DEF LookupInvariant

-----------------------------------------------------------------------------
(* The watcher's steps.                                                    *)

\* The cursors of a new connection have passed nothing.
LEMMA BeginKeepsIndex ==
    ASSUME LookupInvariant, LookupInvariant', IndexInvariant, Begin
    PROVE  IndexInvariant'
<1> USE DEF IndexInvariant
<1>1. UNCHANGED <<mail, horizon, index, skipped>> /\ wat.at = "top"
    BY DEF Begin, mailbox, history
<1>2. wat'.at # "fetch"
    <2>1. [Asleep EXCEPT !.at = "select"].at = "select"
        BY DEF Asleep
    <2> QED BY <1>1, <2>1 DEF Begin
<1>3. UidsCount' /\ index' \subseteq mail'
    BY <1>1 DEF UidsCount, There, CursorsBehind
<1>4. CASE conn' = None \/ (UNCHANGED cursor /\ conn' = conn)
    <2>1. UNCHANGED cursor
        BY <1>4, NoneAssumption DEF Begin, NewConnection, LookupInvariant, TypeOK
    <2>2. horizon <= horizon'
        BY <1>1 DEF LookupInvariant, TypeOK
    <2> QED BY <1>1, <1>2, <1>3, <1>4, <2>1, <2>2, BesideKeepsIndex DEF LookupInvariant
<1>5. CASE NewConnection
    <2>1. cursor' = [f \in Folder |-> 0]
        BY <1>5 DEF NewConnection
    <2>2. IsFiniteSet(mail) /\ IsFiniteSet(mail')
        BY DEF LookupInvariant, TypeOK
    <2>3. (conn # None => \A f \in Folder : cursor[f] <= Cardinality(There(conn, f)))'
        <3> SUFFICES ASSUME NEW f \in Folder
                     PROVE  (cursor[f] <= Cardinality(There(conn, f)))'
            OBVIOUS
        <3> DEFINE S == {m \in mail' : m.box = conn' /\ m.folder = f}
        <3>1. S \in SUBSET mail'
            OBVIOUS
        <3>2. Cardinality(S) \in Nat
            <4> HIDE DEF S
            <4> QED BY <2>2, <3>1, FS_Subset, FS_CardinalityType
        <3>3. There(conn, f)' = S
            BY DEF There
        <3> HIDE DEF S
        <3> QED BY <2>1, <3>2, <3>3
    <2>4. CursorsBehind'
        BY <1>2, <1>3, <2>3 DEF CursorsBehind
    <2>5. Seen' = {}
        <3> SUFFICES ASSUME NEW m \in mail', m.uid <= cursor'[m.folder]
                     PROVE  FALSE
            BY DEF Seen, Current
        <3>1. m \in Mail
            BY DEF LookupInvariant, TypeOK
        <3> QED BY <2>1, <3>1 DEF Mail
    <2> QED BY <1>3, <2>4, <2>5 DEF SeenIsIndexed
<1> QED BY <1>4, <1>5 DEF Begin

LEMMA SelectKeepsIndex ==
    ASSUME LookupInvariant, LookupInvariant', IndexInvariant, Select
    PROVE  IndexInvariant'
<1>1. UNCHANGED <<mail, horizon, cursor, index, skipped>>
    BY DEF Select, mailbox
<1>2. conn' = conn \/ conn' = None
    BY DEF Select
<1>3. horizon <= horizon' /\ UidsCount'
    BY <1>1 DEF LookupInvariant, TypeOK, IndexInvariant, UidsCount, There
<1>4. wat \in WatcherStates /\ wat.added \in BOOLEAN /\ TypeOK
    BY DEF LookupInvariant, TypeOK, WatcherStates
<1>5. wat'.at = "fetch" => conn' = conn /\ wat'.picked \subseteq There(conn, wat'.folder)
    <2>1. CASE NextFolder(wat.added)
        BY <1>4, <2>1, NextFolderFacts
    <2>2. CASE /\ UNCHANGED conn
               /\ wat' = [wat EXCEPT !.at = "fetch", !.picked = Top(Unseen, FetchLimit)]
        <3>1. wat'.picked = Top(Unseen, FetchLimit) /\ wat'.folder = wat.folder
            BY <1>4, <2>2 DEF WatcherStates
        <3>2. Top(Unseen, FetchLimit) \subseteq Unseen
            BY DEF Top
        <3>3. Unseen \subseteq There(conn, wat.folder)
            BY DEF Unseen, There
        <3> QED BY <2>2, <3>1, <3>2, <3>3
    <2>3. CASE wat' = Asleep
        BY <2>3, AsleepType
    <2> QED BY <2>1, <2>2, <2>3 DEF Select
<1> QED BY <1>1, <1>2, <1>3, <1>5, BesideKeepsIndex DEF LookupInvariant

\* The cursor comes to stand at the highest UID that was asked for.
LEMMA RaisedFacts ==
    ASSUME TypeOK, wat.at = "fetch"
    PROVE  /\ \A f \in Folder \ {wat.folder} : Raised[f] = cursor[f]
           /\ \E m \in wat.picked : Raised[wat.folder] = m.uid
<1> DEFINE uids == {m.uid : m \in wat.picked}
           top == CHOOSE u \in uids : \A m \in wat.picked : m.uid <= u
<1>1. wat.picked \in SUBSET Mail /\ wat.picked # {} /\ wat.folder \in Folder
    BY DEF TypeOK, WatcherStates
<1>2. PICK m \in wat.picked : \A n \in wat.picked : n.uid <= m.uid
    BY <1>1, Highest
<1>3. \E u \in uids : \A n \in wat.picked : n.uid <= u
    BY <1>2
<1>4. top \in uids
    BY <1>3
<1>5. PICK p \in wat.picked : top = p.uid
    <2> HIDE DEF top
    <2> QED BY <1>4
<1>6. Raised = [cursor EXCEPT ![wat.folder] = top]
    BY DEF Raised
<1> HIDE DEF top
<1> QED BY <1>1, <1>5, <1>6 DEF TypeOK

LEMMA StoreKeepsIndex ==
    ASSUME LookupInvariant, LookupInvariant', IndexInvariant, Store
    PROVE  IndexInvariant'
<1> USE DEF LookupInvariant, IndexInvariant
<1>1. /\ wat.at = "fetch" /\ wat \in WatcherStates /\ wat.folder \in Folder
      /\ UNCHANGED <<mail, horizon, conn>>
    BY DEF Store, mailbox, TypeOK, WatcherStates
<1>2. PICK got \in SUBSET wat.picked :
          LET new == {m \in got : ~Known(m)}
          IN /\ index' = Kept(index \cup new)
             /\ cursor' = Raised
             /\ NextFolder(wat.added \/ new # {})
             /\ skipped' = (skipped \ new) \cup
                    {m \in Unseen \ (new \cup index) : m.uid <= cursor'[wat.folder]}
    BY DEF Store
<1> DEFINE new == {m \in got : ~Known(m)}
           S == index \cup new
           here == There(conn, wat.folder)
<1>3. /\ index' = Kept(S) /\ cursor' = Raised /\ NextFolder(wat.added \/ new # {})
      /\ skipped' = (skipped \ new) \cup {m \in Unseen \ S : m.uid <= cursor'[wat.folder]}
    BY <1>2
<1>4. IsFiniteSet(mail) /\ mail \subseteq Mail /\ mail' = mail
    BY <1>1 DEF TypeOK
<1>5. wat.picked \subseteq here /\ here \subseteq mail /\ S \in SUBSET mail /\ S \in SUBSET Mail
    BY <1>1, <1>4 DEF CursorsBehind, There
<1>6. IsFiniteSet(S)
    <2> HIDE DEF S
    <2> QED BY <1>4, <1>5, FS_Subset
<1>7. index' \subseteq mail'
    BY <1>3, <1>4, <1>5 DEF Kept
<1>8. wat'.at # "fetch"
    <2>1. (wat.added \/ new # {}) \in BOOLEAN
        OBVIOUS
    <2> QED BY <1>3, <2>1, NextFolderFacts
<1> HIDE DEF new, S
<1>9. /\ \A f \in Folder \ {wat.folder} : cursor'[f] = cursor[f]
      /\ \E m \in wat.picked : cursor'[wat.folder] = m.uid
    BY <1>1, <1>3, RaisedFacts
<1>10. UidsCount'
    BY <1>4 DEF UidsCount, There
<1>11. CursorsBehind'
    <2>1. ASSUME NEW f \in Folder, conn # None
          PROVE  cursor'[f] <= Cardinality(There(conn, f))
        <3>1. CASE f # wat.folder
            BY <1>9, <2>1, <3>1 DEF CursorsBehind
        <3>2. CASE f = wat.folder
            <4>1. PICK m \in wat.picked : cursor'[wat.folder] = m.uid
                BY <1>9
            <4>2. m \in mail /\ m.box = conn /\ m.folder = wat.folder
                BY <1>5 DEF There
            <4>3. m.uid <= Cardinality(There(m.box, m.folder))
                BY <4>2 DEF UidsCount
            <4> QED BY <3>2, <4>1, <4>2, <4>3
        <3> QED BY <3>1, <3>2
    <2>2. (conn # None => \A f \in Folder : cursor[f] <= Cardinality(There(conn, f)))'
        BY <1>1, <2>1 DEF There
    <2> QED BY <1>7, <1>8, <2>2 DEF CursorsBehind
<1>12. SeenIsIndexed'
    <2> SUFFICES ASSUME NEW m \in Seen'
                 PROVE  m \in index' \/ Evicted(m)' \/ m \in skipped'
        BY DEF SeenIsIndexed
    <2>1. /\ m \in mail /\ m \in Mail /\ m.at > horizon /\ m.box = conn
          /\ m.uid <= cursor'[m.folder] /\ m.folder \in Folder
        BY <1>1, <1>4 DEF Seen, Current, Mail
    <2>2. CASE m \in S
        BY <1>3, <1>5, <1>6, <2>1, <2>2, StoredOrEvicted
    <2>3. CASE m \notin S /\ m \in Seen
        <3>1. Evicted(m) \/ m \in skipped
            BY <2>3 DEF SeenIsIndexed, S
        <3>2. CASE m \in skipped
            BY <1>3, <2>3, <3>2 DEF S
        <3>3. CASE Evicted(m)
            <4> DEFINE before == {n \in index : n.at > m.at}
                       after == {n \in S : n.at > m.at}
            <4>1. before \subseteq after /\ after \in SUBSET S
                BY DEF S
            <4>2. /\ Cardinality(before) \in Nat /\ Cardinality(after) \in Nat
                  /\ Cardinality(before) <= Cardinality(after)
                <5> HIDE DEF before, after
                <5> QED BY <1>6, <4>1, FS_Subset, FS_CardinalityType
            <4>3. Cardinality(before) >= MaxCodes
                BY <3>3 DEF Evicted
            <4>4. Cardinality(after) >= MaxCodes
                <5> HIDE DEF before, after
                <5> QED BY <4>2, <4>3, LimitsAssumption
            <4> QED BY <1>3, <1>5, <1>6, <2>1, <4>4, StoredOrEvicted
        <3> QED BY <3>1, <3>2, <3>3
    <2>4. CASE m \notin S /\ m \notin Seen
        <3>1. ~(m.uid <= cursor[m.folder])
            BY <2>1, <2>4 DEF Seen, Current
        <3>2. m.folder = wat.folder
            BY <1>9, <2>1, <3>1
        <3>3. m \in Unseen
            BY <2>1, <3>1, <3>2 DEF Unseen, TypeOK, Mail
        <3> QED BY <1>3, <2>1, <2>4, <3>2, <3>3
    <2> QED BY <2>2, <2>3, <2>4
<1> QED BY <1>10, <1>11, <1>12

\* What _prune takes out was too old to be served.
LEMMA FinishKeepsIndex ==
    ASSUME LookupInvariant, LookupInvariant', IndexInvariant, Finish
    PROVE  IndexInvariant'
<1> USE DEF IndexInvariant
<1>1. /\ index' = Visible /\ wat.at = "finish"
      /\ UNCHANGED <<mail, horizon, conn, cursor, skipped>>
    BY DEF Finish, mailbox, history
<1>2. wat'.at # "fetch"
    <2>1. CASE wat' = Asleep
        BY <2>1, AsleepType
    <2>2. CASE wat' = [wat EXCEPT !.at = "notify"]
        BY <2>2 DEF LookupInvariant, TypeOK, WatcherStates
    <2> QED BY <2>1, <2>2 DEF Finish
<1>3. UidsCount' /\ CursorsBehind'
    BY <1>1, <1>2 DEF UidsCount, CursorsBehind, There, Visible, Current
<1>4. SeenIsIndexed'
    <2> SUFFICES ASSUME NEW m \in Seen'
                 PROVE  m \in index' \/ Evicted(m)' \/ m \in skipped'
        BY DEF SeenIsIndexed
    <2>1. m \in Seen /\ m \in mail /\ m \in Mail /\ m.at > horizon
        BY <1>1 DEF Seen, Current, LookupInvariant, TypeOK
    <2>2. CASE m \in index
        BY <1>1, <2>1, <2>2 DEF Visible, Current
    <2>3. CASE Evicted(m)
        <3>1. {n \in index' : n.at > m.at} = {n \in index : n.at > m.at}
            BY <1>1, <2>1 DEF Visible, Current, CursorsBehind, LookupInvariant, TypeOK, Mail
        <3> QED BY <2>3, <3>1 DEF Evicted
    <2>4. CASE m \in skipped
        BY <1>1, <2>4
    <2> QED BY <2>1, <2>2, <2>3, <2>4 DEF SeenIsIndexed
<1> QED BY <1>3, <1>4

LEMMA InitIndex ==
    ASSUME Init
    PROVE  IndexInvariant
<1>1. mail = {} /\ index = {} /\ conn = None /\ wat.at # "fetch"
    BY AsleepType DEF Init
<1> QED BY <1>1 DEF IndexInvariant, UidsCount, CursorsBehind, SeenIsIndexed, Seen, Current

LEMMA StepIndex ==
    ASSUME LookupInvariant, IndexInvariant, [Next]_vars
    PROVE  IndexInvariant'
<1>1. LookupInvariant'
    BY StepLookup
<1> QED BY <1>1, ArriveKeepsIndex, OthersKeepIndex, BeginKeepsIndex, SelectKeepsIndex,
           StoreKeepsIndex, FinishKeepsIndex DEF Next, Watch

-----------------------------------------------------------------------------
(* The capture.                                                            *)

\* A status that _transition gives changes that capture's row only, if at all.
LEMMA TransitionFacts ==
    ASSUME Browser!CaptureTypeOK, NEW c \in Browser!Capture, NEW new \in Browser!Status,
           Browser!Transition(c, new)
    PROVE  /\ status' \in [Browser!Capture -> Browser!Status]
           /\ \A d \in Browser!Capture :
                 status'[d] = status[d] \/ (d = c /\ d = current /\ status'[d] = new)
BY DEF Browser!CaptureTypeOK, Browser!Transition

\* A thread that goes somewhere is the only one that moves.
LEMMA ThreadGoes ==
    ASSUME Browser!CaptureTypeOK, NEW c \in Browser!Capture, NEW place \in Browser!Place,
           Browser!Goto(c, place)
    PROVE  /\ thread' \in [Browser!Capture -> Browser!Place] /\ thread'[c] = place
           /\ \A d \in Browser!Capture \ {c} : thread'[d] = thread[d]
BY DEF Browser!CaptureTypeOK, Browser!Goto

\* A capture that runs is the newest one, and the manager shows it as active.
LEMMA RunsAlone ==
    ASSUME Browser!CaptureInvariant, NEW c \in Browser!Capture, thread[c] \notin {"none", "done"}
    PROVE  /\ c = current /\ current # 0
           /\ status[c] \in {"starting", "waiting_login", "verifying", "cancelling"}
           /\ \A d \in Browser!Capture \ {c} : thread[d] \in {"none", "done"}
BY DEF Browser!CaptureInvariant, Browser!CaptureAlone, Browser!Active

\* The thread moves on, and shows another active status or the same one.
LEMMA MovesOn ==
    ASSUME Browser!CaptureInvariant, NEW c \in Browser!Capture,
           NEW place \in Browser!Place \ {"none", "done"},
           thread[c] \notin {"none", "done"}, Browser!Goto(c, place),
           status' \in [Browser!Capture -> Browser!Status],
           \A d \in Browser!Capture : \/ status'[d] = status[d]
                              \/ status'[d] \in {"waiting_login", "verifying"},
           UNCHANGED <<current, cancelled>>,
           stored' \in {stored, stored \cup {c}},
           stored' = stored \/ place \in {"saved", "unsaved"},
           c \in stored => place \in {"saved", "unsaved"}
    PROVE  Browser!CaptureInvariant'
<1>1. /\ c = current /\ current # 0
      /\ status[c] \in {"starting", "waiting_login", "verifying", "cancelling"}
      /\ \A d \in Browser!Capture \ {c} : thread[d] \in {"none", "done"}
    BY RunsAlone
<1>2. /\ thread' \in [Browser!Capture -> Browser!Place] /\ thread'[c] = place
      /\ \A d \in Browser!Capture \ {c} : thread'[d] = thread[d]
    BY ThreadGoes DEF Browser!CaptureInvariant
<1>3. Browser!CaptureTypeOK'
    BY <1>2 DEF Browser!CaptureInvariant, Browser!CaptureTypeOK
<1>4. Browser!CaptureOrder'
    BY <1>1, <1>2
       DEF Browser!CaptureInvariant, Browser!CaptureOrder, Browser!CaptureTypeOK,
           Browser!Capture
<1>5. Browser!CaptureAlone'
    BY <1>1, <1>2 DEF Browser!CaptureInvariant, Browser!CaptureAlone, Browser!Active
<1> QED BY <1>3, <1>4, <1>5 DEF Browser!CaptureInvariant

LEMMA CaptureStartKeeps ==
    ASSUME Browser!CaptureInvariant, Browser!Start
    PROVE  Browser!CaptureInvariant'
<1>1. /\ ~Browser!Active /\ current' = current + 1 /\ current' \in Browser!Capture
      /\ UNCHANGED <<cancelled, stored>>
    BY PartsAssumption
       DEF Browser!Start, Browser!CaptureInvariant, Browser!CaptureTypeOK,
           Browser!Capture
<1>2. /\ status' \in [Browser!Capture -> Browser!Status] /\ status'[current'] = "starting"
      /\ \A d \in Browser!Capture \ {current'} : status'[d] = status[d]
    BY <1>1
       DEF Browser!Start, Browser!CaptureInvariant, Browser!CaptureTypeOK,
           Browser!Status
<1>3. /\ thread' \in [Browser!Capture -> Browser!Place] /\ thread'[current'] = "open"
      /\ \A d \in Browser!Capture \ {current'} : thread'[d] = thread[d]
    BY <1>1
       DEF Browser!Start, Browser!Goto, Browser!CaptureInvariant,
           Browser!CaptureTypeOK, Browser!Place
<1>4. \A d \in Browser!Capture : thread[d] \in {"none", "done"}
    BY <1>1 DEF Browser!CaptureInvariant, Browser!CaptureAlone
<1>5. current' \notin stored
    BY <1>1
       DEF Browser!CaptureInvariant, Browser!CaptureOrder, Browser!CaptureTypeOK,
           Browser!Capture
<1>6. Browser!CaptureTypeOK'
    BY <1>1, <1>2, <1>3 DEF Browser!CaptureInvariant, Browser!CaptureTypeOK
<1>7. Browser!CaptureOrder'
    BY <1>1, <1>3, <1>5
       DEF Browser!CaptureInvariant, Browser!CaptureOrder, Browser!CaptureTypeOK,
           Browser!Capture
<1>8. Browser!CaptureAlone'
    BY <1>1, <1>2, <1>3, <1>4, <1>5
       DEF Browser!CaptureInvariant, Browser!CaptureAlone, Browser!Active,
           Browser!Capture
<1> QED BY <1>6, <1>7, <1>8 DEF Browser!CaptureInvariant

LEMMA CaptureCancelKeeps ==
    ASSUME Browser!CaptureInvariant, Browser!Cancel \/ Browser!RequestStop
    PROVE  Browser!CaptureInvariant'
<1>1. /\ current \in Browser!Capture /\ cancelled' = cancelled \cup {current}
      /\ UNCHANGED <<current, thread, stored>>
    BY
       DEF Browser!Cancel, Browser!RequestStop, Browser!Active,
           Browser!CaptureInvariant, Browser!CaptureTypeOK
<1>2. /\ status' \in [Browser!Capture -> Browser!Status]
      /\ \A d \in Browser!Capture : status'[d] = status[d]
                            \/ (Browser!Active /\ d = current /\ status'[d] = "cancelling")
    BY <1>1
       DEF Browser!Cancel, Browser!RequestStop, Browser!CaptureInvariant,
           Browser!CaptureTypeOK, Browser!Status
<1> QED BY <1>1, <1>2
        DEF Browser!CaptureInvariant, Browser!CaptureTypeOK, Browser!CaptureOrder,
            Browser!CaptureAlone, Browser!Active


LEMMA CaptureOpenKeeps ==
    ASSUME Browser!CaptureInvariant, NEW c \in Browser!Capture, Browser!Open(c)
    PROVE  Browser!CaptureInvariant'
<1>1. /\ thread[c] = "open" /\ UNCHANGED <<current, cancelled, stored>> /\ c \notin stored
      /\ status \in [Browser!Capture -> Browser!Status]
    BY
       DEF Browser!Open, Browser!CaptureInvariant, Browser!CaptureOrder,
           Browser!CaptureTypeOK
<1>2. CASE \E place \in {"failing", "unsaved"} : Browser!Goto(c, place) /\ UNCHANGED status
    BY <1>1, <1>2, MovesOn DEF Browser!Place
<1>3. CASE Browser!Goto(c, "login") /\ Browser!Transition(c, "waiting_login")
    <2>1. /\ status' \in [Browser!Capture -> Browser!Status]
          /\ \A d \in Browser!Capture : status'[d] = status[d] \/ status'[d] = "waiting_login"
        BY <1>3, TransitionFacts DEF Browser!CaptureInvariant, Browser!Status
    <2> QED BY <1>1, <1>3, <2>1, MovesOn DEF Browser!Place
<1> QED BY <1>2, <1>3 DEF Browser!Open

LEMMA CaptureAuthenticatedKeeps ==
    ASSUME Browser!CaptureInvariant, NEW c \in Browser!Capture, Browser!Authenticated(c)
    PROVE  Browser!CaptureInvariant'
<1>1. thread[c] = "login" /\ UNCHANGED <<current, cancelled, thread, stored>>
    BY DEF Browser!Authenticated
<1>2. /\ status' \in [Browser!Capture -> Browser!Status]
      /\ \A d \in Browser!Capture : status'[d] = status[d]
                            \/ (d = c /\ d = current /\ status'[d] = "verifying")
    BY TransitionFacts
       DEF Browser!Authenticated, Browser!CaptureInvariant, Browser!Status
<1>3. c = current /\ current # 0
    BY <1>1, RunsAlone
<1> QED BY <1>1, <1>2, <1>3
        DEF Browser!CaptureInvariant, Browser!CaptureTypeOK, Browser!CaptureOrder,
            Browser!CaptureAlone, Browser!Active

LEMMA CaptureSearchKeeps ==
    ASSUME Browser!CaptureInvariant, NEW c \in Browser!Capture,
           Browser!Found(c) \/ Browser!Turn(c) \/ Browser!Save(c)
    PROVE  Browser!CaptureInvariant'
<1>1. UNCHANGED <<current, status, cancelled>> /\ status \in [Browser!Capture -> Browser!Status]
    BY
       DEF Browser!Found, Browser!Turn, Browser!Save, Browser!CaptureInvariant,
           Browser!CaptureTypeOK
<1>2. CASE Browser!Found(c) \/ Browser!Turn(c)
    <2>1. thread[c] \in {"login", "found"} /\ UNCHANGED stored /\ c \notin stored
        BY <1>2
           DEF Browser!Found, Browser!Turn, Browser!CaptureInvariant,
               Browser!CaptureOrder
    <2>2. PICK place \in {"found", "failing", "save"} : Browser!Goto(c, place)
        BY <1>2 DEF Browser!Found, Browser!Turn
    <2> QED BY <1>1, <2>1, <2>2, MovesOn DEF Browser!Place
<1>3. CASE Browser!Save(c)
    BY <1>1, <1>3, MovesOn DEF Browser!Save, Browser!Place
<1> QED BY <1>2, <1>3

\* _finish: a capture that is shown as cancelled came from "failing", where its
\* session cannot have been stored.
LEMMA CaptureFinishKeeps ==
    ASSUME Browser!CaptureInvariant, NEW c \in Browser!Capture, Browser!Finish(c)
    PROVE  Browser!CaptureInvariant'
<1>1. /\ thread[c] \in {"failing", "saved", "unsaved"} /\ Browser!Goto(c, "done")
      /\ UNCHANGED <<current, cancelled, stored>>
    BY DEF Browser!Finish
<1>2. PICK outcome \in Browser!Outcomes(c) :
          status' = IF current = c THEN [status EXCEPT ![c] = outcome] ELSE status
    BY DEF Browser!Finish
<1>3. /\ outcome \in Browser!Status
      /\ outcome = "cancelled" => thread[c] = "failing"
    BY <1>1, <1>2 DEF Browser!Outcomes, Browser!Status
<1>4. /\ c = current /\ \A d \in Browser!Capture \ {c} : thread[d] \in {"none", "done"}
    BY <1>1, RunsAlone
<1>5. /\ thread' \in [Browser!Capture -> Browser!Place] /\ thread'[c] = "done"
      /\ \A d \in Browser!Capture \ {c} : thread'[d] = thread[d]
    BY <1>1, ThreadGoes DEF Browser!CaptureInvariant, Browser!Place
<1>6. /\ status' \in [Browser!Capture -> Browser!Status] /\ status'[c] = outcome
      /\ \A d \in Browser!Capture \ {c} : status'[d] = status[d]
    BY <1>2, <1>3, <1>4 DEF Browser!CaptureInvariant, Browser!CaptureTypeOK
<1>7. Browser!CaptureTypeOK'
    BY <1>1, <1>5, <1>6 DEF Browser!CaptureInvariant, Browser!CaptureTypeOK
<1>8. Browser!CaptureOrder'
    BY <1>1, <1>4, <1>5
       DEF Browser!CaptureInvariant, Browser!CaptureOrder, Browser!CaptureTypeOK,
           Browser!Capture
<1>9. Browser!CaptureAlone'
    BY <1>1, <1>3, <1>4, <1>5, <1>6
       DEF Browser!CaptureInvariant, Browser!CaptureAlone, Browser!CaptureOrder
<1> QED BY <1>7, <1>8, <1>9 DEF Browser!CaptureInvariant

LEMMA InitCapture ==
    ASSUME Browser!Init
    PROVE  Browser!CaptureInvariant
BY DEF Browser!Init, Browser!CaptureInvariant, Browser!CaptureTypeOK,
       Browser!CaptureOrder, Browser!CaptureAlone, Browser!Status, Browser!Place

LEMMA StepCapture ==
    ASSUME Browser!CaptureInvariant, [Browser!Next]_(Browser!vars)
    PROVE  Browser!CaptureInvariant'
<1>1. CASE Browser!Next
    BY <1>1, CaptureStartKeeps, CaptureCancelKeeps, CaptureOpenKeeps,
       CaptureAuthenticatedKeeps, CaptureSearchKeeps, CaptureFinishKeeps
    DEF Browser!Next, Browser!Run
<1>2. CASE UNCHANGED Browser!vars
    BY <1>2
       DEF Browser!vars, Browser!CaptureInvariant, Browser!CaptureTypeOK,
           Browser!CaptureOrder, Browser!CaptureAlone, Browser!Active
<1> QED BY <1>1, <1>2

-----------------------------------------------------------------------------
(* Each part by itself.                                                    *)

\* Whatever the watcher does while a request listens, clears its event, reads the
\* index and waits (web.py:232-271): what it has not seen when it waits is
\* still to be announced, or was added by a cycle that broke.
THEOREM NoWakeupIsLost == Spec => []NoLostWakeup
<1>1. Init => LookupInvariant
    BY InitLookup
<1>2. LookupInvariant /\ [Next]_vars => LookupInvariant'
    BY StepLookup
<1>3. LookupInvariant => NoLostWakeup
    BY DEF LookupInvariant, Announced, Unannounced, NoLostWakeup
<1> QED BY <1>1, <1>2, <1>3, PTL DEF Spec

LEMMA LookupKeepsInvariants == Spec => [](LookupInvariant /\ IndexInvariant)
<1>1. Init => LookupInvariant /\ IndexInvariant
    BY InitLookup, InitIndex
<1>2. LookupInvariant /\ IndexInvariant /\ [Next]_vars => LookupInvariant' /\ IndexInvariant'
    BY StepLookup, StepIndex
<1> QED BY <1>1, <1>2, PTL DEF Spec

\* Across reconnections, new configurations, commands that fail and the limits of
\* a cycle and of the index (mailbox_watcher.py:324-456): a message that the
\* cursor has passed is in the index, has made room for newer ones, or was
\* skipped by the step that passed it.
THEOREM PassedIsIndexed == Spec => []SeenIsIndexed
<1>1. IndexInvariant => SeenIsIndexed
    BY DEF IndexInvariant
<1> QED BY <1>1, LookupKeepsInvariants, PTL

LEMMA CaptureKeepsInvariant == Browser!Spec => []Browser!CaptureInvariant
<1>1. Browser!Init => Browser!CaptureInvariant
    BY InitCapture
<1>2. Browser!CaptureInvariant /\ [Browser!Next]_(Browser!vars) => Browser!CaptureInvariant'
    BY StepCapture
<1> QED BY <1>1, <1>2, PTL DEF Browser!Spec

-----------------------------------------------------------------------------
(* A behaviour of all the parts is one of each.                            *)

\* A behaviour of the parts, without its fairness.
LEMMA PartsBehave == PartsSpec => PartsInit /\ [][PartsNext]_partsVars
BY PTL DEF PartsSpec

LEMMA PartsAreLookup == PartsSpec => Spec
<1>1. PartsInit => Init
    BY DEF PartsInit
<1>2. [PartsNext]_partsVars => [Next]_vars
    BY DEF PartsNext, partsVars, lookupVars
<1> QED BY <1>1, <1>2, PartsBehave, PTL DEF Spec

LEMMA PartsArePool == PartsSpec => Scans!Spec
<1>1. PartsInit => Scans!Init
    BY DEF PartsInit
<1>2. [PartsNext]_partsVars => [Scans!Next]_(Scans!vars)
    BY DEF PartsNext, partsVars, poolVars, Scans!vars
<1> QED BY <1>1, <1>2, PartsBehave, PTL DEF Scans!Spec

LEMMA PartsAreBridge == PartsSpec => Pusher!Spec
<1>1. PartsInit => Pusher!Init
    BY DEF PartsInit
<1>2. [PartsNext]_partsVars => [Pusher!Next]_(Pusher!vars)
    BY DEF PartsNext, partsVars, bridgeVars, Pusher!vars
<1> QED BY <1>1, <1>2, PartsBehave, PTL DEF Pusher!Spec

LEMMA PartsAreStore == PartsSpec => Worker!Spec
<1>1. PartsInit => Worker!Init
    BY DEF PartsInit
<1>2. [PartsNext]_partsVars => [Worker!Next]_(Worker!vars)
    BY DEF PartsNext, partsVars, storeVars, Worker!vars, Worker!stores, Worker!bounds, Worker!history
<1> QED BY <1>1, <1>2, PartsBehave, PTL DEF Worker!Spec

LEMMA PartsAreCapture == PartsSpec => Browser!Spec
<1>1. PartsInit => Browser!Init
    BY DEF PartsInit
<1>2. [PartsNext]_partsVars => [Browser!Next]_(Browser!vars)
    BY DEF PartsNext, partsVars, captureVars, Browser!vars
<1> QED BY <1>1, <1>2, PartsBehave, PTL DEF Browser!Spec

-----------------------------------------------------------------------------
(* What the run of MCParts checks.                                         *)

\* Everything that the properties of the five parts rest on: the inductive
\* invariant of each.
THEOREM PartsKeepInvariant == PartsSpec => []PartsInvariant
<1>1. PartsSpec => [](LookupInvariant /\ IndexInvariant)
    BY PartsAreLookup, LookupKeepsInvariants, PTL
<1>2. PartsSpec => []Scans!PoolInvariant
    <2>1. Scans!Spec => []Scans!PoolInvariant
        BY Scans!PoolKeepsInvariant, NoneAssumption, MailboxAssumption
    <2> QED BY <2>1, PartsArePool, PTL
<1>3. PartsSpec => []Pusher!BridgeInvariant
    <2>1. Pusher!Spec => []Pusher!BridgeInvariant
        BY Pusher!BridgeKeepsInvariant, NoneAssumption, MailboxAssumption
    <2> QED BY <2>1, PartsAreBridge, PTL
<1>4. PartsSpec => []Worker!StoreInvariant
    <2>1. Worker!Spec => []Worker!StoreInvariant
        BY Worker!StoreStaysInOrder, PartsAssumption
    <2> QED BY <2>1, PartsAreStore, PTL
<1>5. PartsSpec => []Browser!CaptureInvariant
    BY CaptureKeepsInvariant, PartsAreCapture, PTL
<1>6. /\ LookupInvariant /\ IndexInvariant /\ Scans!PoolInvariant
      /\ Pusher!BridgeInvariant /\ Worker!StoreInvariant /\ Browser!CaptureInvariant
      => PartsInvariant
    BY DEF PartsInvariant
<1> QED BY <1>1, <1>2, <1>3, <1>4, <1>5, <1>6, PTL

\* Whatever scans, checks and failures interleave: a scan's connection is logged
\* in to its mailbox and is its own, the pool's is nobody's, and no connection is
\* left open that nobody has (imap_otp.py:204-286).
THEOREM ConnectionsStayAccounted == PartsSpec => []ConnectionsAccounted
<1>1. PartsInvariant => ConnectionsAccounted
    BY DEF PartsInvariant, Scans!PoolInvariant, ConnectionsAccounted
<1> QED BY <1>1, PartsKeepInvariant, PTL

\* Whatever fails, and wherever the process dies between an upload and the write
\* of the cursors: a message below a cursor has been taken by the worker, or was
\* too large, or older than a first run looks (imap_bridge.py:72-192).
THEOREM PassedStaysTaken == PartsSpec => []PassedWasTaken
<1>1. PartsInvariant => PassedWasTaken
    BY DEF PartsInvariant, Pusher!BridgeInvariant, PassedWasTaken
<1> QED BY <1>1, PartsKeepInvariant, PTL

\* The bytes that a readable message's attachment names are there, at every
\* interleaving of deliveries, of the deletion of the alias, of scheduled runs
\* and of handlers and runs that stop half-way (messages/service.ts:242-310,
\* 525-581).
THEOREM BytesStayReadable == PartsSpec => []BytesReadable
<1>1. PartsInvariant => BytesReadable
    BY DEF PartsInvariant, Worker!StoreInvariant, BytesReadable
<1> QED BY <1>1, PartsKeepInvariant, PTL

\* Bytes that are to be kept have a row that names them or a handler that will
\* write it, except where a handler stopped or a run deleted in between.
THEOREM KeptBytesStayNamed == PartsSpec => []KeptBytesNamed
<1>1. PartsInvariant => KeptBytesNamed
    BY DEF PartsInvariant, Worker!StoreInvariant, KeptBytesNamed
<1> QED BY <1>1, PartsKeepInvariant, PTL

\* Whatever starts, cancellations, stops and ends interleave: the newest capture
\* alone has the browser and the profile, the manager shows it as active, and a
\* capture that is shown as cancelled has stored nothing (browser_capture.py).
THEOREM CapturesAreAlone == PartsSpec => []CaptureAlone
<1>1. PartsInvariant => CaptureAlone
    BY DEF PartsInvariant, Browser!CaptureInvariant, CaptureAlone
<1> QED BY <1>1, PartsKeepInvariant, PTL
=============================================================================
