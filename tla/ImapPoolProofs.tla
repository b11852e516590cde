---------------------------- MODULE ImapPoolProofs ----------------------------
(***************************************************************************)
(* For every set of mailboxes, connections and scans, and any number of    *)
(* slots: the connections of the on-demand scans are accounted for.        *)
(***************************************************************************)
EXTENDS ImapPool, TLAPS

\* A scan changes its own state only.
LEMMA GotoFacts ==
    ASSUME PoolTypeOK, NEW s \in Scanner, NEW stage \in Stage, Goto(s, stage)
    PROVE  /\ job' \in [Scanner -> JobStates]
           /\ job'[s].at = stage /\ job'[s].box = job[s].box /\ job'[s].conn = job[s].conn
           /\ \A q \in Scanner \ {s} : job'[q] = job[q]
<1> DEFINE next == [job[s] EXCEPT !.at = stage]
<1>1. job[s] \in JobStates
    BY DEF PoolTypeOK
<1>2. next \in JobStates /\ next.at = stage /\ next.box = job[s].box /\ next.conn = job[s].conn
    BY <1>1 DEF JobStates
<1>3. job' = [job EXCEPT ![s] = next]
    BY DEF Goto
<1> HIDE DEF next
<1> QED BY <1>2, <1>3 DEF PoolTypeOK

LEMMA EndsFacts ==
    ASSUME PoolTypeOK, NEW s \in Scanner, Ends(s)
    PROVE  /\ job' \in [Scanner -> JobStates] /\ job'[s].at = "idle"
           /\ \A q \in Scanner \ {s} : job'[q] = job[q]
<1>1. Idle \in JobStates /\ Idle.at = "idle"
    BY DEF Idle, JobStates, Stage, Task
<1>2. job' = [job EXCEPT ![s] = Idle]
    BY DEF Ends
<1> HIDE DEF Idle
<1> QED BY <1>1, <1>2 DEF PoolTypeOK

\* A scan that takes no connection up and gives none back.
LEMMA ElsewhereKeeps ==
    ASSUME PoolInvariant, NEW s \in Scanner,
           config' \in Box \cup {None}, faults' \in 0 .. MaxFaults,
           job' \in [Scanner -> JobStates], \A q \in Scanner \ {s} : job'[q] = job[q],
           job'[s].at \notin {"idle", "slot"} => job'[s].box # None,
           \/ ~Holds(s) /\ ~Holds(s)'
           \/ /\ Holds(s) /\ Holds(s)'
              /\ job'[s].conn = job[s].conn /\ job'[s].box = job[s].box,
           UNCHANGED <<open, pooled>>
    PROVE  PoolInvariant'
<1>1. PoolTypeOK'
    BY DEF PoolInvariant, PoolTypeOK
<1>2. BoxKnown'
    BY DEF PoolInvariant, BoxKnown
<1>3. \A q \in Scanner : /\ Holds(q)' <=> Holds(q)
                         /\ Holds(q) => job'[q].conn = job[q].conn /\ job'[q].box = job[q].box
    BY DEF Holds
<1>4. ConnectionsAccounted'
    BY <1>3 DEF PoolInvariant, ConnectionsAccounted
<1> QED BY <1>1, <1>2, <1>4 DEF PoolInvariant

-----------------------------------------------------------------------------
(* Before a scan has a connection.                                         *)

LEMMA BeginKeeps ==
    ASSUME PoolInvariant, NEW s \in Scanner, Begin(s) \/ BeginConsole(s) \/ Configure(s)
    PROVE  PoolInvariant'
<1>1. /\ job[s].at = "idle" /\ job[s] \in JobStates
      /\ UNCHANGED <<config, open, pooled, faults>>
      /\ config \in Box \cup {None} /\ faults \in 0 .. MaxFaults
    BY DEF Begin, BeginConsole, Configure, PoolInvariant, PoolTypeOK
<1>2. PICK at \in {"slot", "take"}, t \in Task, b \in Box \cup {None} :
          /\ job' = [job EXCEPT ![s] = [job[s] EXCEPT !.at = at, !.task = t, !.box = b]]
          /\ at = "take" => b # None
    <2>1. CASE Begin(s)
        <3>1. job' = [job EXCEPT ![s] = [job[s] EXCEPT !.at = "slot", !.task = "buy",
                                                     !.box = job[s].box]]
            BY <1>1, <2>1 DEF Begin, JobStates, PoolInvariant, PoolTypeOK
        <3> QED BY <1>1, <3>1 DEF JobStates, Task
    <2>2. CASE BeginConsole(s)
        <3>1. PICK t \in {"console", "list"} :
                  job' = [job EXCEPT ![s] = [job[s] EXCEPT !.at = "slot", !.task = t,
                                                         !.box = job[s].box]]
            BY <1>1, <2>2 DEF BeginConsole, JobStates, PoolInvariant, PoolTypeOK
        <3> QED BY <1>1, <3>1 DEF JobStates, Task
    <2>3. CASE Configure(s)
        <3>1. PICK b \in Box :
                  job' = [job EXCEPT ![s] = [job[s] EXCEPT !.at = "take", !.task = "configure",
                                                         !.box = b]]
            BY <2>3 DEF Configure
        <3> QED BY <3>1, NoneAssumption DEF Task
    <2> QED BY <2>1, <2>2, <2>3
<1> DEFINE next == [job[s] EXCEPT !.at = at, !.task = t, !.box = b]
<1>3. next \in JobStates /\ next.at = at /\ next.box = b
    BY <1>1 DEF JobStates, Stage
<1>4. job' = [job EXCEPT ![s] = next]
    BY <1>2
<1> HIDE DEF next
<1>5. /\ job' \in [Scanner -> JobStates] /\ job'[s] = next
      /\ \A q \in Scanner \ {s} : job'[q] = job[q]
    BY <1>3, <1>4 DEF PoolInvariant, PoolTypeOK
<1>6. ~Holds(s) /\ ~Holds(s)'
    BY <1>1, <1>3, <1>5 DEF Holds
<1> QED BY <1>1, <1>2, <1>3, <1>5, <1>6, ElsewhereKeeps

LEMMA TakeSlotKeeps ==
    ASSUME PoolInvariant, NEW s \in Scanner, TakeSlot(s)
    PROVE  PoolInvariant'
<1>1. /\ job[s].at = "slot" /\ job[s] \in JobStates /\ PoolTypeOK
      /\ UNCHANGED <<config, open, pooled, faults>>
      /\ config \in Box \cup {None} /\ faults \in 0 .. MaxFaults
    BY DEF TakeSlot, PoolInvariant, PoolTypeOK
<1>2. CASE Ends(s)
    <2>1. /\ job' \in [Scanner -> JobStates] /\ job'[s].at = "idle"
          /\ \A q \in Scanner \ {s} : job'[q] = job[q]
        BY <1>1, <1>2, EndsFacts
    <2>2. ~Holds(s) /\ ~Holds(s)'
        BY <1>1, <2>1 DEF Holds
    <2> QED BY <1>1, <2>1, <2>2, ElsewhereKeeps
<1>3. CASE config # None /\ job' = [job EXCEPT ![s].at = "take", ![s].box = config]
    <2> DEFINE next == [job[s] EXCEPT !.at = "take", !.box = config]
    <2>1. next \in JobStates /\ next.at = "take" /\ next.box = config
        BY <1>1 DEF JobStates, Stage
    <2>2. job' = [job EXCEPT ![s] = next]
        BY <1>3
    <2> HIDE DEF next
    <2>3. /\ job' \in [Scanner -> JobStates] /\ job'[s] = next
          /\ \A q \in Scanner \ {s} : job'[q] = job[q]
        BY <2>1, <2>2 DEF PoolInvariant, PoolTypeOK
    <2>4. ~Holds(s) /\ ~Holds(s)'
        BY <1>1, <2>1, <2>3 DEF Holds
    <2> QED BY <1>1, <1>3, <2>1, <2>3, <2>4, ElsewhereKeeps
<1> QED BY <1>2, <1>3 DEF TakeSlot

-----------------------------------------------------------------------------
(* With a connection.                                                      *)

\* A scan takes up a connection that is open to its mailbox and nobody's.
LEMMA TakesUpKeeps ==
    ASSUME PoolInvariant, NEW s \in Scanner, NEW c \in Conn,
           job[s].at \in {"take", "connect"},
           job' = [job EXCEPT ![s].at = First(s), ![s].conn = c],
           \A q \in Scanner : Holds(q) => job[q].conn # c,
           open' \in [Conn -> Box \cup {None}], open'[c] = job[s].box,
           \A d \in Conn \ {c} : open'[d] = open[d],
           pooled' \in {None, pooled}, pooled' # c, pooled # c => pooled' = pooled,
           UNCHANGED <<config, faults>>
    PROVE  PoolInvariant'
<1> USE DEF PoolInvariant
<1>1. job[s] \in JobStates /\ job[s].box # None
    BY DEF PoolTypeOK, BoxKnown
<1> DEFINE next == [job[s] EXCEPT !.at = First(s), !.conn = c]
<1>2. next \in JobStates /\ next.at \in {"check", "search"} /\ next.conn = c /\ next.box = job[s].box
    BY <1>1 DEF JobStates, Stage, First
<1>3. job' = [job EXCEPT ![s] = next]
    OBVIOUS
<1> HIDE DEF next
<1>4. /\ job' \in [Scanner -> JobStates] /\ job'[s] = next
      /\ \A q \in Scanner \ {s} : job'[q] = job[q]
    BY <1>2, <1>3 DEF PoolTypeOK
<1>5. PoolTypeOK'
    BY <1>4 DEF PoolTypeOK
<1>6. BoxKnown'
    BY <1>1, <1>2, <1>4 DEF BoxKnown
<1>7. /\ Holds(s)' /\ ~Holds(s) /\ job'[s].conn = c /\ job'[s].box = job[s].box
      /\ \A q \in Scanner \ {s} :
             (Holds(q)' <=> Holds(q)) /\ job'[q].conn = job[q].conn /\ job'[q].box = job[q].box
    BY <1>2, <1>4 DEF Holds
<1>8. /\ c # None /\ pooled' # c
      /\ \A q \in Scanner : Holds(q) => job[q].conn \in Conn
    BY NoneAssumption DEF ConnectionsAccounted, PoolTypeOK, JobStates
<1>9. ASSUME NEW q \in Scanner, Holds(q)'
      PROVE  job'[q].conn # None /\ job'[q].conn # pooled' /\ open'[job'[q].conn] = job'[q].box
    <2>1. CASE q = s
        BY <1>7, <1>8, <2>1
    <2>2. CASE q # s
        <3>1. Holds(q) /\ job'[q].conn = job[q].conn /\ job'[q].box = job[q].box
            BY <1>7, <1>9, <2>2
        <3>2. /\ job[q].conn # None /\ job[q].conn # pooled
              /\ open[job[q].conn] = job[q].box
            BY <3>1 DEF ConnectionsAccounted
        <3>3. job[q].conn \in Conn \ {c}
            BY <1>8, <3>1
        <3> QED BY <3>1, <3>2, <3>3
    <2> QED BY <2>1, <2>2
<1>10. ASSUME NEW p \in Scanner, NEW q \in Scanner,
              Holds(p)', Holds(q)', job'[p].conn = job'[q].conn
       PROVE  p = q
    <2>1. CASE p = s \/ q = s
        BY <1>7, <1>10, <2>1
    <2>2. CASE p # s /\ q # s
        <3>1. Holds(p) /\ Holds(q) /\ job[p].conn = job[q].conn
            BY <1>7, <1>10, <2>2
        <3> QED BY <3>1 DEF ConnectionsAccounted
    <2> QED BY <2>1, <2>2
<1>11. ASSUME NEW d \in Conn, open'[d] # None
       PROVE  d = pooled' \/ \E q \in Scanner : Holds(q)' /\ job'[q].conn = d
    <2>1. CASE d = c
        BY <1>7, <2>1
    <2>2. CASE d # c
        <3>1. d = pooled \/ \E q \in Scanner : Holds(q) /\ job[q].conn = d
            BY <1>11, <2>2 DEF ConnectionsAccounted
        <3> QED BY <1>7, <2>2, <3>1
    <2> QED BY <2>1, <2>2
<1>12. pooled' # None => open'[pooled'] # None
    BY DEF ConnectionsAccounted, PoolTypeOK
<1> QED BY <1>5, <1>6, <1>9, <1>10, <1>11, <1>12 DEF ConnectionsAccounted

LEMMA ClosedFacts ==
    ASSUME PoolTypeOK, NEW C, Closed(C)
    PROVE  /\ open' \in [Conn -> Box \cup {None}]
           /\ \A c \in Conn : open'[c] = IF c \in C THEN None ELSE open[c]
BY DEF PoolTypeOK, Closed

LEMMA TakeKeeps ==
    ASSUME PoolInvariant, NEW s \in Scanner, Take(s)
    PROVE  PoolInvariant'
<1> USE DEF PoolInvariant
<1>1. job[s].at = "take" /\ pooled' = None /\ UNCHANGED <<config, faults>>
    BY DEF Take
<1>2. CASE Fits(s) /\ UNCHANGED open /\ job' = [job EXCEPT ![s].at = First(s), ![s].conn = pooled]
    <2>1. pooled \in Conn /\ pooled # None /\ open[pooled] = job[s].box
        BY <1>2 DEF Fits, PoolTypeOK
    <2>2. \A q \in Scanner : Holds(q) => job[q].conn # pooled
        BY DEF ConnectionsAccounted
    <2> QED BY <1>1, <1>2, <2>1, <2>2, TakesUpKeeps DEF PoolTypeOK
<1>3. CASE Closed({pooled}) /\ Goto(s, "connect")
    <2>1. /\ job' \in [Scanner -> JobStates]
          /\ job'[s].at = "connect" /\ job'[s].box = job[s].box
          /\ \A q \in Scanner \ {s} : job'[q] = job[q]
        BY <1>3, GotoFacts DEF Stage
    <2>2. /\ open' \in [Conn -> Box \cup {None}]
          /\ \A c \in Conn : open'[c] = IF c = pooled THEN None ELSE open[c]
        BY <1>3, ClosedFacts
    <2>3. \A q \in Scanner : /\ Holds(q)' <=> Holds(q)
                             /\ Holds(q) => job'[q] = job[q]
        BY <1>1, <2>1 DEF Holds
    <2>4. PoolTypeOK'
        BY <1>1, <2>1, <2>2 DEF PoolTypeOK
    <2>5. BoxKnown'
        BY <1>1, <2>1 DEF BoxKnown
    <2>6. \A q \in Scanner : Holds(q) => job[q].conn \in Conn
        BY DEF ConnectionsAccounted, PoolTypeOK, JobStates
    <2>7. ConnectionsAccounted'
        BY <1>1, <2>2, <2>3, <2>6 DEF ConnectionsAccounted
    <2> QED BY <2>4, <2>5, <2>7
<1> QED BY <1>2, <1>3 DEF Take

LEMMA ConnectKeeps ==
    ASSUME PoolInvariant, NEW s \in Scanner, Connect(s)
    PROVE  PoolInvariant'
<1> USE DEF PoolInvariant
<1>1. job[s].at = "connect" /\ UNCHANGED <<config, pooled>>
    BY DEF Connect
<1>2. CASE /\ Unused # {} /\ UNCHANGED faults
           /\ LET c == CHOOSE c \in Unused : TRUE
              IN /\ open' = [open EXCEPT ![c] = job[s].box]
                 /\ job' = [job EXCEPT ![s].at = First(s), ![s].conn = c]
    <2>1. PICK c \in Unused : /\ open' = [open EXCEPT ![c] = job[s].box]
                              /\ job' = [job EXCEPT ![s].at = First(s), ![s].conn = c]
        BY <1>2
    <2>2. c \in Conn /\ open[c] = None /\ job[s].box \in Box \cup {None}
        BY DEF Unused, PoolTypeOK, JobStates
    <2>3. /\ open' \in [Conn -> Box \cup {None}] /\ open'[c] = job[s].box
          /\ \A d \in Conn \ {c} : open'[d] = open[d]
        BY <2>1, <2>2 DEF PoolTypeOK
    <2>4. pooled # c
        BY <2>2, NoneAssumption DEF ConnectionsAccounted
    <2>5. \A q \in Scanner : Holds(q) => job[q].conn # c
        BY <2>2 DEF ConnectionsAccounted, BoxKnown, Holds
    <2> QED BY <1>1, <1>2, <2>1, <2>2, <2>3, <2>4, <2>5, TakesUpKeeps
<1>3. CASE Fault /\ Ends(s) /\ UNCHANGED open
    <2>1. /\ job' \in [Scanner -> JobStates] /\ job'[s].at = "idle"
          /\ \A q \in Scanner \ {s} : job'[q] = job[q]
        BY <1>3, EndsFacts
    <2>2. faults' \in 0 .. MaxFaults
        BY <1>3, MailboxAssumption DEF Fault, PoolTypeOK
    <2>3. ~Holds(s) /\ ~Holds(s)'
        BY <1>1, <2>1 DEF Holds
    <2> QED BY <1>1, <1>3, <2>1, <2>2, <2>3, ElsewhereKeeps DEF PoolTypeOK
<1> QED BY <1>2, <1>3 DEF Connect

\* The commands of a scan: only its stage and its health change.
LEMMA PassKeeps ==
    ASSUME PoolInvariant, NEW s \in Scanner, Holds(s),
           NEW at \in {"search", "fetch", "check", "release"}, NEW ok \in BOOLEAN,
           job' = [job EXCEPT ![s].at = at, ![s].ok = ok],
           faults' = faults \/ Fault, UNCHANGED <<config, open, pooled>>
    PROVE  PoolInvariant'
<1>1. job[s] \in JobStates /\ PoolTypeOK
    BY DEF PoolInvariant, PoolTypeOK
<1> DEFINE next == [job[s] EXCEPT !.at = at, !.ok = ok]
<1>2. next \in JobStates /\ next.at = at /\ next.conn = job[s].conn /\ next.box = job[s].box
    BY <1>1 DEF JobStates, Stage
<1>3. job' = [job EXCEPT ![s] = next]
    OBVIOUS
<1> HIDE DEF next
<1>4. /\ job' \in [Scanner -> JobStates] /\ job'[s] = next
      /\ \A q \in Scanner \ {s} : job'[q] = job[q]
    BY <1>1, <1>2, <1>3 DEF PoolTypeOK
<1>5. faults' \in 0 .. MaxFaults
    BY <1>1, MailboxAssumption DEF Fault, PoolTypeOK
<1>6. Holds(s)' /\ job'[s].conn = job[s].conn /\ job'[s].box = job[s].box /\ job[s].box # None
    BY <1>2, <1>4 DEF Holds, PoolInvariant, BoxKnown
<1> QED BY <1>1, <1>4, <1>5, <1>6, ElsewhereKeeps DEF PoolTypeOK

LEMMA FolderPassKeeps ==
    ASSUME PoolInvariant, NEW s \in Scanner, Holds(s), NEW next \in {"fetch", "release"},
           FolderPass(s, next), UNCHANGED <<config, open, pooled>>
    PROVE  PoolInvariant'
<1>1. PICK done \in SUBSET Folder :
          /\ IF done = Folder THEN UNCHANGED faults ELSE Fault
          /\ job' = [job EXCEPT ![s].at = IF done = {} THEN "release" ELSE next,
                                ![s].ok = next = "release" /\ done # {}]
    BY DEF FolderPass
<1> DEFINE at == IF done = {} THEN "release" ELSE next
           ok == next = "release" /\ done # {}
<1>2. at \in {"search", "fetch", "check", "release"} /\ ok \in BOOLEAN
    OBVIOUS
<1>3. job' = [job EXCEPT ![s].at = at, ![s].ok = ok] /\ (faults' = faults \/ Fault)
    BY <1>1
<1> HIDE DEF at, ok
<1> QED BY <1>2, <1>3, PassKeeps

LEMMA CommandsKeep ==
    ASSUME PoolInvariant, NEW s \in Scanner,
           \/ SearchAlias(s) \/ FetchAlias(s) \/ SearchWindow(s) \/ FetchWindow(s) \/ Check(s)
    PROVE  PoolInvariant'
<1>1. Holds(s) /\ UNCHANGED <<config, open, pooled>>
    BY DEF SearchAlias, FetchAlias, SearchWindow, FetchWindow, Check, Holds
<1>2. CASE \E next \in {"fetch", "release"} : FolderPass(s, next)
    BY <1>1, <1>2, FolderPassKeeps
<1>3. CASE UNCHANGED faults /\ job' = [job EXCEPT ![s].at = "release", ![s].ok = TRUE]
    BY <1>1, <1>3, PassKeeps
<1>4. CASE Fault /\ Goto(s, "release")
    <2>1. PoolTypeOK /\ job[s].box # None /\ faults' \in 0 .. MaxFaults
        BY <1>1, <1>4, MailboxAssumption DEF PoolInvariant, PoolTypeOK, BoxKnown, Holds, Fault
    <2>2. /\ job' \in [Scanner -> JobStates]
          /\ job'[s].at = "release" /\ job'[s].box = job[s].box /\ job'[s].conn = job[s].conn
          /\ \A q \in Scanner \ {s} : job'[q] = job[q]
        BY <1>4, <2>1, GotoFacts DEF Stage
    <2>3. Holds(s)'
        BY <2>2 DEF Holds
    <2> QED BY <1>1, <2>1, <2>2, <2>3, ElsewhereKeeps DEF PoolTypeOK
<1> QED BY <1>2, <1>3, <1>4 DEF SearchAlias, FetchAlias, SearchWindow, FetchWindow, Check

LEMMA ReleaseKeeps ==
    ASSUME PoolInvariant, NEW s \in Scanner, Release(s)
    PROVE  PoolInvariant'
<1> USE DEF PoolInvariant
<1>1. job[s].at = "release" /\ Returned(s) /\ UNCHANGED faults
    BY DEF Release
<1>2. /\ job' \in [Scanner -> JobStates] /\ job'[s].at = "idle"
      /\ \A q \in Scanner \ {s} : job'[q] = job[q]
    BY EndsFacts DEF Release
<1>3. Holds(s) /\ ~Holds(s)' /\ job[s].conn \in Conn /\ job[s].box # None
    BY <1>1, <1>2 DEF Holds, BoxKnown, ConnectionsAccounted, PoolTypeOK, JobStates
<1>4. config' \in Box \cup {None}
    BY DEF Release, PoolTypeOK, JobStates
<1>5. BoxKnown'
    BY <1>2 DEF BoxKnown
<1>6. \A q \in Scanner : Holds(q)' <=> (Holds(q) /\ q # s)
    BY <1>2, <1>3 DEF Holds
<1>7. \A q \in Scanner \ {s} : Holds(q) => /\ job[q].conn \in Conn /\ job[q].conn # job[s].conn
                                         /\ job[q].conn # pooled /\ job[q].conn # None
                                         /\ open[job[q].conn] = job[q].box
    BY <1>3 DEF ConnectionsAccounted, PoolTypeOK, JobStates
<1>8. \A c \in Conn : open[c] # None =>
          \/ c = pooled \/ c = job[s].conn
          \/ \E q \in Scanner \ {s} : Holds(q) /\ job[q].conn = c
    BY DEF ConnectionsAccounted
<1>9. /\ open' \in [Conn -> Box \cup {None}] /\ pooled' \in Conn \cup {None}
      /\ \A q \in Scanner \ {s} : Holds(q) => /\ job[q].conn # pooled'
                                            /\ open'[job[q].conn] = job[q].box
      /\ \A c \in Conn : open'[c] # None =>
             c = pooled' \/ \E q \in Scanner \ {s} : Holds(q) /\ job[q].conn = c
      /\ pooled' # None => open'[pooled'] # None
    <2>1. CASE pooled = None /\ pooled' = job[s].conn /\ UNCHANGED open
        <3>1. open[job[s].conn] # None
            BY <1>3 DEF ConnectionsAccounted
        <3> QED BY <1>3, <1>7, <1>8, <2>1, <3>1, NoneAssumption DEF PoolTypeOK
    <2>2. CASE pooled # None /\ UNCHANGED pooled /\ Closed({job[s].conn})
        <3>1. /\ open' \in [Conn -> Box \cup {None}]
              /\ \A c \in Conn : open'[c] = IF c = job[s].conn THEN None ELSE open[c]
            BY <2>2, ClosedFacts
        <3>2. pooled \in Conn /\ pooled # job[s].conn /\ open[pooled] # None
            BY <1>3, <2>2 DEF ConnectionsAccounted, PoolTypeOK
        <3> QED BY <1>7, <1>8, <2>2, <3>1, <3>2
    <2>3. CASE pooled' = None /\ Closed({job[s].conn, pooled})
        <3>1. /\ open' \in [Conn -> Box \cup {None}]
              /\ \A c \in Conn : open'[c] = IF c \in {job[s].conn, pooled} THEN None ELSE open[c]
            BY <2>3, ClosedFacts
        <3> QED BY <1>7, <1>8, <2>3, <3>1
    <2> QED BY <1>1, <2>1, <2>2, <2>3 DEF Returned
<1>10. ConnectionsAccounted'
    <2>1. \A q \in Scanner : Holds(q)' => q # s /\ Holds(q) /\ job'[q] = job[q]
        BY <1>2, <1>6
    <2>2. \A q \in Scanner \ {s} : Holds(q) => Holds(q)' /\ job'[q] = job[q]
        BY <1>2, <1>6
    <2>3. \A q, p \in Scanner : Holds(q)' /\ Holds(p)' /\ job'[q].conn = job'[p].conn => q = p
        BY <2>1 DEF ConnectionsAccounted
    <2> QED BY <1>7, <1>9, <2>1, <2>2, <2>3 DEF ConnectionsAccounted
<1> QED BY <1>1, <1>2, <1>4, <1>5, <1>9, <1>10 DEF PoolTypeOK

-----------------------------------------------------------------------------
LEMMA InitPool ==
    ASSUME Init
    PROVE  PoolInvariant
<1>1. Idle \in JobStates /\ Idle.at = "idle"
    BY DEF Idle, JobStates, Stage, Task
<1>2. /\ config \in Box \cup {None} /\ job = [s \in Scanner |-> Idle]
      /\ open = [c \in Conn |-> None] /\ pooled = None /\ faults = 0
    BY DEF Init
<1> HIDE DEF Idle
<1> QED BY <1>1, <1>2, MailboxAssumption
        DEF PoolInvariant, PoolTypeOK, BoxKnown, ConnectionsAccounted, Holds

LEMMA StepPool ==
    ASSUME PoolInvariant, [Next]_vars
    PROVE  PoolInvariant'
<1>1. CASE Next
    BY <1>1, BeginKeeps, TakeSlotKeeps, TakeKeeps, ConnectKeeps, CommandsKeep, ReleaseKeeps
    DEF Next
<1>2. CASE UNCHANGED vars
    BY <1>2 DEF vars, PoolInvariant, PoolTypeOK, BoxKnown, ConnectionsAccounted, Holds
<1> QED BY <1>1, <1>2

LEMMA PoolKeepsInvariant == Spec => []PoolInvariant
<1>1. Init => PoolInvariant
    BY InitPool
<1>2. PoolInvariant /\ [Next]_vars => PoolInvariant'
    BY StepPool
<1> QED BY <1>1, <1>2, PTL DEF Spec

\* Whatever scans, checks and failures interleave: a scan's connection is logged
\* in to its mailbox and is its own, the pool's is nobody's, and no connection is
\* left open that nobody has (imap_otp.py:204-286).
THEOREM PoolAccounts == Spec => []ConnectionsAccounted
<1>1. PoolInvariant => ConnectionsAccounted
    BY DEF PoolInvariant
<1> QED BY <1>1, PoolKeepsInvariant, PTL
=============================================================================
