------------------------------ MODULE CodeLookup ------------------------------
(***************************************************************************)
(* Verification codes, from the mailbox to the request that asks for one:  *)
(* the watcher thread of mailbox_watcher.py with its index and cursors,    *)
(* and the long poll of web.py that waits on it.                           *)
(*                                                                         *)
(* Simplifications: every message carries a code for the one alias that is *)
(* looked up, and is known by the mailbox it came to, its folder, its UID  *)
(* and the order of its arrival.  Messages grow old in that order          *)
(* (horizon), out of the read window and the retention window at once.     *)
(* UIDs count from 1 in every folder; no message leaves a folder.  The     *)
(* constants for the seed and for one cycle are equal in the code (60) and *)
(* one here.  A client's next request follows its last; what it was told   *)
(* (the code, waiting, refused) is not kept.  The on-demand scan is one    *)
(* step here and has its own in ImapPool; an event that the watcher's      *)
(* thread sets is set at once.  Audit rows, sender filters and parsing     *)
(* carry no control.                                                       *)
(***************************************************************************)
EXTENDS Mailbox

CONSTANTS
    Request,     \* the clients of the public interface
    FetchLimit,  \* SEED_LIMIT, CYCLE_FETCH_LIMIT (60)
    MaxCodes     \* MAX_CODES_PER_ALIAS (5)

ASSUME LimitsAssumption == FetchLimit \in Nat \ {0} /\ MaxCodes \in Nat \ {0}

Mail == [box : Box, folder : Folder, uid : 1 .. MaxMail, at : 1 .. MaxMail]

VARIABLES
    mail,      \* the messages in the mailboxes
    horizon,   \* the newest message that is too old to be served
    config,    \* database: the configured mailbox, None if there is none
    wat,       \* where the watcher stands in its cycle
    conn,      \* the mailbox the watcher is connected to, None if to none
    cursor,    \* _cursors: the highest UID asked for in each folder, 0 if none
    index,     \* _index: the entries of the alias
    fresh,     \* _last_success is recent enough for ready
    req,       \* where each request stands
    faults,    \* IMAP commands that failed
    changes,   \* configurations saved
    dropped,   \* history: entries came in by a cycle that failed before _notify
    skipped    \* history: messages the cursor passed that were not stored

mailbox == <<mail, horizon>>
setting == <<config, changes>>
watcher == <<wat, conn, cursor, index, fresh>>
history == <<dropped, skipped>>
vars == <<mailbox, setting, watcher, req, faults, history>>

\* folder, the folder whose turn it is; picked, the UIDs to fetch, as their
\* messages; added, an entry is new.
Asleep == [at |-> "top", folder |-> 1, picked |-> {}, added |-> FALSE]
WatcherStates ==
    [at : {"top", "select", "fetch", "finish", "notify"}, folder : Folder,
     picked : SUBSET Mail, added : BOOLEAN]

\* event, the asyncio.Event of its long poll; warmed, the watcher has succeeded
\* since the request began.
Stage == {"idle", "first", "warm", "clear", "look", "miss", "park", "scan"}
Idle == [at |-> "idle", event |-> FALSE, warmed |-> FALSE]
RequestStates == [at : Stage, event : BOOLEAN, warmed : BOOLEAN]

-----------------------------------------------------------------------------
Init ==
    /\ mail = {} /\ horizon = 0
    /\ config \in Box \cup {None}
    /\ wat = Asleep /\ conn = None /\ cursor = [f \in Folder |-> 0]
    /\ index = {} /\ fresh = FALSE
    /\ req = [r \in Request |-> Idle]
    /\ faults = 0 /\ changes = 0 /\ dropped = FALSE /\ skipped = {}

-----------------------------------------------------------------------------
(* Helpers.                                                                *)

Fault == faults < MaxFaults /\ faults' = faults + 1

Current(S) == {m \in S : m.at > horizon}

\* The newest few of a folder's messages, by UID.
Top(S, k) == {m \in S : Cardinality({n \in S : n.uid > m.uid}) < k}

\* What watcher.latest finds: entries inside the window.
Visible == Current(index)

Polling(r) == req[r].at \in {"clear", "look", "miss", "park"}
Looking(r) == Polling(r) \/ req[r].at \in {"first", "warm"}

Goto(r, s) == req' = [req EXCEPT ![r].at = s]

\* The request is answered, and the client may make another.
Answered(r) == req' = [req EXCEPT ![r] = Idle]

-----------------------------------------------------------------------------
(* Around the gateway: mail comes in and grows old.                        *)

Arrive ==
    \E b \in Box, f \in Folder :
        LET there == {m \in mail : m.box = b /\ m.folder = f}
        IN /\ Cardinality(mail) < MaxMail
           /\ mail' = mail \cup {[box |-> b, folder |-> f,
                                  uid |-> Cardinality(there) + 1,
                                  at |-> Cardinality(mail) + 1]}
           /\ UNCHANGED <<horizon, setting, watcher, req, faults, history>>

GrowOld ==
    /\ horizon < Cardinality(mail) /\ horizon' = horizon + 1
    /\ UNCHANGED <<mail, setting, watcher, req, faults, history>>

\* The last success is too long ago.  Once the watcher has succeeded during a
\* request it stays ready to its end: the request's budget (20 s) is shorter
\* than the time a success counts (39 s).
GrowStale ==
    /\ fresh /\ \A r \in Request : Looking(r) => ~req[r].warmed
    /\ fresh' = FALSE
    /\ UNCHANGED <<mailbox, setting, wat, conn, cursor, index, req, faults, history>>

-----------------------------------------------------------------------------
(* The watcher thread.                                                     *)

\* A mutant of NewConnection: the cursors of the old mailbox are kept.
NewConnectionKeepsCursors == conn' = config /\ UNCHANGED cursor

\* _ensure_connection, after a login: the cursors belonged to the old one.
NewConnection == conn' = config /\ cursor' = [f \in Folder |-> 0]

\* _run reads the configuration; the connection of another one is closed.
Begin ==
    /\ wat.at = "top" /\ config # None
    /\ \/ /\ conn = config /\ wat' = [Asleep EXCEPT !.at = "select"]
          /\ UNCHANGED <<conn, cursor, faults>>
       \/ /\ conn # config /\ NewConnection
          /\ wat' = [Asleep EXCEPT !.at = "select"] /\ UNCHANGED faults
       \/ /\ conn # config /\ conn' = None /\ Fault /\ UNCHANGED <<wat, cursor>>
    /\ UNCHANGED <<mailbox, setting, index, fresh, req, history>>

\* The folder is done with.
NextFolder(added) ==
    wat' = IF wat.folder < Folders
           THEN [wat EXCEPT !.at = "select", !.folder = @ + 1, !.picked = {},
                            !.added = added]
           ELSE [Asleep EXCEPT !.at = "finish", !.added = added]

\* _seed_uids and _new_uids, cut to the limit.
Unseen == {m \in mail : m.box = conn /\ m.folder = wat.folder /\ m.uid > cursor[wat.folder]}

\* SELECT and SEARCH.  A folder that is refused is passed over; a connection
\* that breaks ends the cycle, and what it had added is not announced.
Select ==
    /\ wat.at = "select"
    /\ \/ Unseen = {} /\ NextFolder(wat.added) /\ UNCHANGED <<conn, faults, dropped>>
       \/ /\ Unseen # {} /\ UNCHANGED <<conn, faults, dropped>>
          /\ wat' = [wat EXCEPT !.at = "fetch", !.picked = Top(Unseen, FetchLimit)]
       \/ Fault /\ NextFolder(wat.added) /\ UNCHANGED <<conn, dropped>>
       \/ /\ Fault /\ conn' = None /\ wat' = Asleep
          /\ dropped' = (dropped \/ wat.added)
    /\ UNCHANGED <<mailbox, setting, cursor, index, fresh, req, skipped>>

\* A mutant of Kept: the oldest entries stay.
KeptOldest(S) == {m \in S : Cardinality({n \in S : n.at < m.at}) < MaxCodes}

\* The newest entries stay.
Kept(S) == {m \in S : Cardinality({n \in S : n.at > m.at}) < MaxCodes}

\* _store knows an entry by its UID and folder only.
Known(m) == \E e \in index : e.folder = m.folder /\ e.uid = m.uid

\* A mutant of Raised: the cursor moves past what the cycle did not ask for.
RaisedTooFar ==
    [cursor EXCEPT ![wat.folder] =
        1 + Cardinality({m \in mail : m.box = conn /\ m.folder = wat.folder})]

\* The cursor after the picked messages.
Raised ==
    [cursor EXCEPT ![wat.folder] =
        CHOOSE u \in {m.uid : m \in wat.picked} : \A m \in wat.picked : m.uid <= u]

\* _index_messages: all of the batches are fetched, or some fail; the cursor
\* passes the messages in either case, and those the limit cut off.
Store ==
    /\ wat.at = "fetch"
    /\ \E got \in SUBSET wat.picked :
           LET new == {m \in got : ~Known(m)}
           IN /\ IF got = wat.picked THEN UNCHANGED faults ELSE Fault
              /\ index' = Kept(index \cup new)
              /\ cursor' = Raised
              /\ NextFolder(wat.added \/ new # {})
              /\ skipped' = (skipped \ new) \cup
                     {m \in Unseen \ (new \cup index) : m.uid <= cursor'[wat.folder]}
    /\ UNCHANGED <<mailbox, setting, conn, fresh, req, dropped>>

\* _prune, and _last_success.
Finish ==
    /\ wat.at = "finish"
    /\ index' = Visible /\ fresh' = TRUE
    /\ wat' = IF wat.added THEN [wat EXCEPT !.at = "notify"] ELSE Asleep
    /\ req' = [r \in Request |-> [req[r] EXCEPT !.warmed = @ \/ Looking(r)]]
    /\ UNCHANGED <<mailbox, setting, conn, cursor, faults, history>>

\* _notify: the listeners' callbacks set the events of the requests.
Notify ==
    /\ wat.at = "notify" /\ wat' = Asleep
    /\ req' = [r \in Request |-> [req[r] EXCEPT !.event = @ \/ Polling(r)]]
    /\ dropped' = FALSE
    /\ UNCHANGED <<mailbox, setting, conn, cursor, index, fresh, faults, skipped>>

-----------------------------------------------------------------------------
(* A request for a code: prepare_lookup and _wait_for_code.                *)

\* prepare_lookup refuses, or goes on.
Prepare(r) ==
    /\ req[r].at = "idle"
    /\ Answered(r) \/ (config # None /\ Goto(r, "first"))
    /\ UNCHANGED <<mailbox, setting, watcher, faults, history>>

\* read_indexed_code.
FirstLook(r) ==
    /\ req[r].at = "first"
    /\ IF fresh /\ Visible # {} THEN Answered(r) ELSE Goto(r, "warm")
    /\ UNCHANGED <<mailbox, setting, watcher, faults, history>>

\* Without a warm index the mailbox is scanned; else the request listens.
Listen(r) ==
    /\ req[r].at = "warm" /\ Goto(r, IF fresh THEN "clear" ELSE "scan")
    /\ UNCHANGED <<mailbox, setting, watcher, faults, history>>

\* The event is cleared before the index is read.
Clear(r) ==
    /\ req[r].at = "clear"
    /\ req' = [req EXCEPT ![r].at = "look", ![r].event = FALSE]
    /\ UNCHANGED <<mailbox, setting, watcher, faults, history>>

\* The index is read in a thread, beside the event loop.
Look(r) ==
    /\ req[r].at = "look"
    /\ IF fresh /\ Visible # {} THEN Answered(r) ELSE Goto(r, "miss")
    /\ UNCHANGED <<mailbox, setting, watcher, faults, history>>

\* A mutant of Park: the event is cleared when the wait begins.
ParkClears(r) ==
    /\ req[r].at = "miss"
    /\ req' = [req EXCEPT ![r].at = "park", ![r].event = FALSE]
    /\ UNCHANGED <<mailbox, setting, watcher, faults, history>>

\* It found nothing, and the request waits for the event.
Park(r) ==
    /\ req[r].at = "miss" /\ Goto(r, "park")
    /\ UNCHANGED <<mailbox, setting, watcher, faults, history>>

Wake(r) ==
    /\ req[r].at = "park" /\ req[r].event /\ Goto(r, "clear")
    /\ UNCHANGED <<mailbox, setting, watcher, faults, history>>

\* A mutant of TimeUp: the wait for the event has no time-out.
TimeUpAtTop(r) ==
    /\ req[r].at = "clear" /\ Answered(r)
    /\ UNCHANGED <<mailbox, setting, watcher, faults, history>>

\* The deadline, looked at before each reading and kept by wait_for.
TimeUp(r) ==
    /\ req[r].at \in {"clear", "park"} /\ Answered(r)
    /\ UNCHANGED <<mailbox, setting, watcher, faults, history>>

-----------------------------------------------------------------------------
(* Scans and the console: ImapPool has their steps.                        *)

\* read_scanned_code answers, whatever the watcher does meanwhile.
Scan(r) ==
    /\ req[r].at = "scan" /\ Answered(r)
    /\ UNCHANGED <<mailbox, setting, watcher, faults, history>>

\* configure_imap saves a mailbox; refresh_soon only shortens the wait.
Configure ==
    /\ changes < MaxChanges /\ changes' = changes + 1
    /\ config' \in Box \ {config}
    /\ UNCHANGED <<mailbox, watcher, req, faults, history>>

-----------------------------------------------------------------------------
Watch == Begin \/ Select \/ Store \/ Finish \/ Notify
Poll(r) ==
    Prepare(r) \/ FirstLook(r) \/ Listen(r) \/ Clear(r) \/ Look(r) \/ Park(r)
    \/ Wake(r) \/ TimeUp(r) \/ Scan(r)

Next ==
    \/ Arrive \/ GrowOld \/ GrowStale
    \/ Watch
    \/ Configure
    \/ \E r \in Request : Poll(r)

Spec == Init /\ [][Next]_vars

\* The watcher thread and the handlers go on; nothing else has to happen.  A
\* request's deadline comes, however often it is woken before; so does a scan's.
Fairness ==
    /\ WF_vars(Watch)
    /\ \A r \in Request : WF_vars(Poll(r) /\ req[r].at # "idle") /\ SF_vars(TimeUp(r))

FairSpec == Spec /\ Fairness
-----------------------------------------------------------------------------
(* Properties.                                                             *)

TypeOK ==
    /\ mail \subseteq Mail /\ IsFiniteSet(mail) /\ Cardinality(mail) <= MaxMail
    /\ horizon \in 0 .. MaxMail
    /\ config \in Box \cup {None} /\ conn \in Box \cup {None}
    /\ wat \in WatcherStates /\ (wat.at = "fetch" => wat.picked # {})
    /\ cursor \in [Folder -> 0 .. MaxMail]
    /\ index \subseteq Mail /\ fresh \in BOOLEAN
    /\ req \in [Request -> RequestStates]
    /\ faults \in 0 .. MaxFaults /\ changes \in 0 .. MaxChanges
    /\ dropped \in BOOLEAN /\ skipped \subseteq Mail

\* A parked request whose event is not set has nothing to read in the index,
\* except what the cycle under way has still to announce, and what a cycle added
\* that broke before it came to _notify: web.py's order (listen, clear, read,
\* wait) loses no wake-up, whatever the watcher does in between.
NoLostWakeup ==
    \A r \in Request :
        req[r].at = "park" /\ ~req[r].event /\ Visible # {} => wat.added \/ dropped

\* What that rests on: a request that has seen the watcher succeed finds the
\* index warm, ...
WarmStays ==
    \A r \in Request :
        /\ req[r].at = "idle" => ~req[r].warmed
        /\ Looking(r) /\ req[r].warmed => fresh

\* ... entries that are not announced yet, or were dropped, ...
Unannounced == wat.added \/ dropped

\* ... are all that a request can still find which has seen no cycle end, or
\* has read the index and not been woken.
Announced ==
    /\ wat.at = "top" => ~wat.added
    /\ \A r \in Request :
           /\ ~req[r].warmed /\ (Polling(r) \/ (req[r].at = "warm" /\ fresh)) =>
                  Visible = {} \/ (wat.at # "notify" /\ Unannounced)
           /\ req[r].at \in {"miss", "park"} /\ ~req[r].event => Visible = {} \/ Unannounced

LookupInvariant == TypeOK /\ WarmStays /\ Announced

\* The messages of the watcher's mailbox at or below its cursors.
Seen == {m \in Current(mail) : m.box = conn /\ m.uid <= cursor[m.folder]}

\* Newer entries have taken all of the alias's places.
Evicted(m) == Cardinality({n \in index : n.at > m.at}) >= MaxCodes

\* A message the cursor has passed is in the index, was pushed out by newer
\* ones, or was skipped by the step that passed it: across reconnections, new
\* configurations and failed commands nothing else is ever lost.
SeenIsIndexed == \A m \in Seen : m \in index \/ Evicted(m) \/ m \in skipped

\* What that rests on: UIDs count the messages of a folder, and neither a cursor
\* nor the messages to fetch are ahead of the watcher's mailbox.
There(b, f) == {m \in mail : m.box = b /\ m.folder = f}
UidsCount == \A m \in mail : m.uid <= Cardinality(There(m.box, m.folder))
CursorsBehind ==
    /\ index \subseteq mail
    /\ conn # None => \A f \in Folder : cursor[f] <= Cardinality(There(conn, f))
    /\ wat.at = "fetch" => wat.picked \subseteq There(conn, wat.folder)

IndexInvariant == UidsCount /\ CursorsBehind /\ SeenIsIndexed

\* Every request that has begun is answered, whatever the watcher, the mailbox
\* and the other requests do.
LookupsEnd == \A r \in Request : req[r].at # "idle" ~> req[r].at = "idle"

\* Messages of the configured mailbox that still have to come into the index.
Pending ==
    {m \in Current(mail) : m.box = config /\ m \notin index /\ ~Evicted(m) /\ m \notin skipped}

\* Once commands cease to fail and the configuration to change, the watcher
\* catches up with the mailbox, again and again: also after a failed login, a
\* broken cycle or another mailbox.
MailReachesIndex == []<>(Pending = {})
=============================================================================
