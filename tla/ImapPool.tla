------------------------------- MODULE ImapPool -------------------------------
(***************************************************************************)
(* The on-demand scans of the mailbox and the connection they share:       *)
(* read_scanned_code, admin_recent_codes and configure_imap of service.py  *)
(* with their semaphores, the reader and ImapConnectionPool of             *)
(* imap_otp.py.                                                            *)
(*                                                                         *)
(* Simplifications: what a scan finds is left out (CodeLookup has what is  *)
(* in the mailbox); so is the console's cache, which only lets a request   *)
(* end without a scan.  A connection too old to be reused, and one that    *)
(* does not answer to NOOP, is any pooled connection.                      *)
(***************************************************************************)
EXTENDS Mailbox

CONSTANTS
    Scanner,      \* threads that scan: one for each request under way
    Slots,        \* slots of _imap_slots (4)
    ConsoleSlots  \* slots of _admin_imap_slots (2)

VARIABLES
    config,   \* database: the configured mailbox, None if there is none
    job,      \* where each scan stands
    open,     \* the mailbox each connection is logged in to, None if closed
    pooled,   \* the pool's connection, None if it keeps none
    faults    \* IMAP commands that failed

vars == <<config, job, open, pooled, faults>>

\* task, a buyer's request, the console's for one alias or for all of them, or a
\* new configuration; box, the mailbox it reads; conn, its connection; ok, that
\* is healthy.
Task == {"buy", "console", "list", "configure"}
Stage == {"idle", "slot", "take", "connect", "search", "fetch", "check", "release"}
Idle == [at |-> "idle", task |-> "buy", box |-> None, conn |-> None, ok |-> FALSE]
JobStates ==
    [at : Stage, task : Task, box : Box \cup {None}, conn : Conn \cup {None}, ok : BOOLEAN]

Init ==
    /\ config \in Box \cup {None} /\ job = [s \in Scanner |-> Idle]
    /\ open = [c \in Conn |-> None] /\ pooled = None /\ faults = 0

-----------------------------------------------------------------------------
Fault == faults < MaxFaults /\ faults' = faults + 1
Goto(s, stage) == job' = [job EXCEPT ![s].at = stage]
Ends(s) == job' = [job EXCEPT ![s] = Idle]

\* Logs out of some connections.
Closed(C) == open' = [c \in Conn |-> IF c \in C THEN None ELSE open[c]]

\* read_scanned_code: the index was not warm.
Begin(s) ==
    /\ job[s].at = "idle" /\ job' = [job EXCEPT ![s].at = "slot", ![s].task = "buy"]
    /\ UNCHANGED <<config, open, pooled, faults>>

\* admin_recent_codes: neither the index nor the cache has the answer.
BeginConsole(s) ==
    /\ job[s].at = "idle"
    /\ \E t \in {"console", "list"} :
           job' = [job EXCEPT ![s].at = "slot", ![s].task = t]
    /\ UNCHANGED <<config, open, pooled, faults>>

\* configure_imap: the new values are checked first, without a slot.
Configure(s) ==
    /\ job[s].at = "idle"
    /\ \E b \in Box :
           job' = [job EXCEPT ![s].at = "take", ![s].task = "configure", ![s].box = b]
    /\ UNCHANGED <<config, open, pooled, faults>>

\* Those that hold a slot of the same semaphore.
Beside(s) ==
    {q \in Scanner : (job[q].task = "buy") = (job[s].task = "buy")
                     /\ job[q].task # "configure" /\ job[q].at \notin {"idle", "slot"}}
Free(s) == Cardinality(Beside(s)) < (IF job[s].task = "buy" THEN Slots ELSE ConsoleSlots)

\* The configuration is read, and a slot taken or the request refused.
TakeSlot(s) ==
    /\ job[s].at = "slot"
    /\ \/ (config = None \/ ~Free(s)) /\ Ends(s)
       \/ /\ config # None /\ Free(s)
          /\ job' = [job EXCEPT ![s].at = "take", ![s].box = config]
    /\ UNCHANGED <<config, open, pooled, faults>>

\* A mutant of Fits: the pool's key is not compared.
FitsAny(s) == pooled # None
Fits(s) == pooled # None /\ open[pooled] = job[s].box

\* What it does with the connection.
First(s) == IF job[s].task = "configure" THEN "check" ELSE "search"

\* ImapConnectionPool.acquire, under its lock: the pooled connection if it fits,
\* is recent and answers, else it is logged out, for whichever mailbox it was.
Take(s) ==
    /\ job[s].at = "take" /\ pooled' = None
    /\ \/ /\ Fits(s) /\ UNCHANGED open
          /\ job' = [job EXCEPT ![s].at = First(s), ![s].conn = pooled]
       \/ Closed({pooled}) /\ Goto(s, "connect")
    /\ UNCHANGED <<config, faults>>

Unused == {c \in Conn : open[c] = None}

\* A new connection, outside the lock; the scan ends when it is refused.
Connect(s) ==
    /\ job[s].at = "connect"
    /\ \/ /\ Unused # {} /\ UNCHANGED faults
          /\ LET c == CHOOSE c \in Unused : TRUE
             IN /\ open' = [open EXCEPT ![c] = job[s].box]
                /\ job' = [job EXCEPT ![s].at = First(s), ![s].conn = c]
       \/ Fault /\ Ends(s) /\ UNCHANGED open
    /\ UNCHANGED <<config, pooled>>

\* A pass over the folders goes on if one of them, at least, was not refused.
FolderPass(s, next) ==
    \E done \in SUBSET Folder :
        /\ IF done = Folder THEN UNCHANGED faults ELSE Fault
        /\ job' = [job EXCEPT ![s].at = IF done = {} THEN "release" ELSE next,
                              ![s].ok = next = "release" /\ done # {}]

\* find_latest_code searches every folder for the alias and then fetches what
\* was found.  A batch that cannot be fetched is left out, and its folder done.
SearchAlias(s) ==
    /\ job[s].at = "search" /\ job[s].task # "list" /\ FolderPass(s, "fetch")
    /\ UNCHANGED <<config, open, pooled>>

FetchAlias(s) ==
    /\ job[s].at = "fetch" /\ job[s].task # "list" /\ FolderPass(s, "release")
    /\ UNCHANGED <<config, open, pooled>>

\* find_recent_codes does so for the window, whichever the aliases.
SearchWindow(s) ==
    /\ job[s].at = "search" /\ job[s].task = "list" /\ FolderPass(s, "fetch")
    /\ UNCHANGED <<config, open, pooled>>

FetchWindow(s) ==
    /\ job[s].at = "fetch" /\ job[s].task = "list" /\ FolderPass(s, "release")
    /\ UNCHANGED <<config, open, pooled>>

\* check: the first folder that is refused ends it.
Check(s) ==
    /\ job[s].at = "check"
    /\ \/ UNCHANGED faults /\ job' = [job EXCEPT ![s].at = "release", ![s].ok = TRUE]
       \/ Fault /\ Goto(s, "release")
    /\ UNCHANGED <<config, open, pooled>>

\* A mutant of Returned: a connection is put over the one in the pool.
ReturnedOver(s) ==
    IF job[s].ok THEN pooled' = job[s].conn /\ UNCHANGED open
    ELSE pooled' = None /\ Closed({job[s].conn, pooled})

\* ImapConnectionPool.release, under its lock: a healthy connection is kept if
\* there is none; one that failed takes the pooled one with it.
Returned(s) ==
    \/ job[s].ok /\ pooled = None /\ pooled' = job[s].conn /\ UNCHANGED open
    \/ job[s].ok /\ pooled # None /\ UNCHANGED pooled /\ Closed({job[s].conn})
    \/ ~job[s].ok /\ pooled' = None /\ Closed({job[s].conn, pooled})

\* The finally blocks give back the connection, and then the slot.  A
\* configuration that passed its check is saved.
Release(s) ==
    /\ job[s].at = "release" /\ Returned(s) /\ Ends(s)
    /\ config' = IF job[s].task = "configure" /\ job[s].ok THEN job[s].box ELSE config
    /\ UNCHANGED faults

-----------------------------------------------------------------------------
Next ==
    \E s \in Scanner :
        \/ Begin(s) \/ BeginConsole(s) \/ Configure(s)
        \/ TakeSlot(s) \/ Take(s) \/ Connect(s)
        \/ SearchAlias(s) \/ FetchAlias(s) \/ SearchWindow(s) \/ FetchWindow(s) \/ Check(s)
        \/ Release(s)

Spec == Init /\ [][Next]_vars

PoolTypeOK ==
    /\ config \in Box \cup {None} /\ job \in [Scanner -> JobStates]
    /\ open \in [Conn -> Box \cup {None}] /\ pooled \in Conn \cup {None}
    /\ faults \in 0 .. MaxFaults

Holds(s) == job[s].at \in {"search", "fetch", "check", "release"}

\* Whatever scans, checks and failures interleave: the connection a scan uses
\* is logged in to the mailbox it was asked for, no two scans share one, the
\* pool's is nobody's, and none is left open that nobody has.
ConnectionsAccounted ==
    /\ \A s \in Scanner :
           Holds(s) => /\ job[s].conn # None /\ job[s].conn # pooled
                       /\ open[job[s].conn] = job[s].box
    /\ \A q, s \in Scanner : Holds(q) /\ Holds(s) /\ job[q].conn = job[s].conn => q = s
    /\ \A c \in Conn : open[c] # None => c = pooled \/ \E s \in Scanner : Holds(s) /\ job[s].conn = c
    /\ pooled # None => open[pooled] # None

\* A scan that took its slot knows its mailbox.
BoxKnown == \A s \in Scanner : job[s].at \notin {"idle", "slot"} => job[s].box # None

PoolInvariant == PoolTypeOK /\ BoxKnown /\ ConnectionsAccounted
=============================================================================
