------------------------------ MODULE MailBridge ------------------------------
(***************************************************************************)
(* The loop that pushes mail from IMAP to the mailbox worker               *)
(* (imap_bridge.py), with its cursors on disk.                             *)
(*                                                                         *)
(* Simplifications: what the worker does with a message is MailStore's;    *)
(* here it takes it and answers 200, or does not.  The seed window is as   *)
(* long as the history; UIDs count from 1 in every folder of a mailbox.    *)
(* A message that is always refused, or never read, would stop its folder: *)
(* Fault is bounded and a message is refused only by a fault.              *)
(***************************************************************************)
EXTENDS Mailbox

Mail == [box : Box, folder : Folder, uid : 1 .. BridgeMail]

VARIABLES
    mail,     \* the messages in the mailboxes
    config,   \* the configured mailbox, None if there is none
    saved,    \* imap-bridge-cursors.json
    cycle,    \* the run under way: its place, mailbox, folder and cursors
    taken,    \* the worker: messages it answered, or would have answered, 200
    cut,      \* history: messages left out, too large or cut off in a first run
    switched, \* history: the cursors come from another mailbox
    faults, changes

vars == <<mail, config, saved, cycle, taken, cut, switched, faults, changes>>

Cursors == [Folder -> 0 .. BridgeMail]
NoCursors == [f \in Folder |-> 0]

\* left, the messages of this folder still to be uploaded; reached, `highest`.
Resting ==
    [at |-> "rest", box |-> None, folder |-> 1, cursors |-> NoCursors, left |-> {}, reached |-> 0]
CycleStates ==
    [at : {"rest", "select", "upload", "write"}, box : Box \cup {None}, folder : Folder,
     cursors : Cursors, left : SUBSET Mail, reached : 0 .. BridgeMail]

Init ==
    /\ mail = {} /\ config \in Box \cup {None} /\ saved = NoCursors /\ cycle = Resting
    /\ taken = {} /\ cut = {} /\ switched = FALSE /\ faults = 0 /\ changes = 0

-----------------------------------------------------------------------------
Fault == faults < MaxFaults /\ faults' = faults + 1

Arrive ==
    /\ Cardinality(mail) < BridgeMail
    /\ \E b \in Box, f \in Folder :
           LET uid == 1 + Cardinality({m \in mail : m.box = b /\ m.folder = f})
           IN mail' = mail \cup {[box |-> b, folder |-> f, uid |-> uid]}
    /\ UNCHANGED <<config, saved, cycle, taken, cut, switched, faults, changes>>

Configure ==
    /\ changes < MaxChanges /\ changes' = changes + 1
    /\ config' \in Box \ {config} /\ switched' = (switched \/ config # None)
    /\ UNCHANGED <<mail, saved, cycle, taken, cut, faults>>

\* run_once: the mailbox is opened and the cursors are read.
Begin ==
    /\ cycle.at = "rest" /\ config # None
    /\ cycle' = [Resting EXCEPT !.at = "select", !.box = config, !.cursors = saved]
    /\ UNCHANGED <<mail, config, saved, taken, cut, switched, faults, changes>>

MoreFolders == cycle.folder < Folders

\* The folder ends: a cursor that was raised is kept in memory.
NextFolder ==
    LET raised == [cycle.cursors EXCEPT ![cycle.folder] = IF cycle.reached > @ THEN cycle.reached ELSE @]
    IN cycle' = [cycle EXCEPT
           !.at = IF MoreFolders THEN "select" ELSE "write",
           !.folder = IF MoreFolders THEN @ + 1 ELSE @,
           !.cursors = raised, !.left = {}, !.reached = 0]

Cursor == cycle.cursors[cycle.folder]
New == {m \in mail : m.box = cycle.box /\ m.folder = cycle.folder /\ m.uid > Cursor}

\* A mutant of Picked: the newest ones of every run.
PickedNewest == {m \in New : Cardinality({n \in New : n.uid > m.uid}) < CycleLimit}

\* The newest ones of a first run, the oldest ones of any other.
Picked ==
    IF Cursor = 0
    THEN {m \in New : Cardinality({n \in New : n.uid > m.uid}) < CycleLimit}
    ELSE {m \in New : Cardinality({n \in New : n.uid < m.uid}) < CycleLimit}

\* _sync_folder up to its loop; a folder that is refused is passed over.
Select ==
    /\ cycle.at = "select"
    /\ \/ /\ cycle' = [cycle EXCEPT !.at = "upload", !.left = Picked, !.reached = Cursor]
          /\ cut' = IF Cursor = 0 THEN cut \cup (New \ Picked) ELSE cut
          /\ UNCHANGED faults
       \/ Fault /\ NextFolder /\ UNCHANGED cut
    /\ UNCHANGED <<mail, config, saved, taken, switched, changes>>

Oldest == CHOOSE m \in cycle.left : \A n \in cycle.left : m.uid <= n.uid
Passed == cycle' = [cycle EXCEPT !.left = @ \ {Oldest}, !.reached = Oldest.uid]

\* A mutant of Broken: the loop goes on with the next message.
BrokenPasses == Passed

\* The loop breaks, what is left is for the next run.
Broken == NextFolder

\* One message: too large, taken, or not read, not taken, or not answered.
Upload ==
    /\ cycle.at = "upload" /\ cycle.left # {}
    /\ \/ Passed /\ cut' = cut \cup {Oldest} /\ UNCHANGED <<taken, faults>>
       \/ Passed /\ taken' = taken \cup {Oldest} /\ UNCHANGED <<cut, faults>>
       \/ Fault /\ Broken /\ taken' \in {taken, taken \cup {Oldest}} /\ UNCHANGED cut
    /\ UNCHANGED <<mail, config, saved, switched, changes>>

EndFolder ==
    /\ cycle.at = "upload" /\ cycle.left = {} /\ NextFolder
    /\ UNCHANGED <<mail, config, saved, taken, cut, switched, faults, changes>>

\* _write_cursors: the file is replaced as a whole.
Write ==
    /\ cycle.at = "write" /\ saved' = cycle.cursors /\ cycle' = Resting
    /\ UNCHANGED <<mail, config, taken, cut, switched, faults, changes>>

\* The run ends with an exception, the write of the cursors too, or the process
\* dies: the cursors of the run are forgotten.
Crash ==
    /\ cycle.at # "rest" /\ Fault /\ cycle' = Resting
    /\ UNCHANGED <<mail, config, saved, taken, cut, switched, changes>>

-----------------------------------------------------------------------------
Bridge == Begin \/ Select \/ Upload \/ EndFolder \/ Write

Next == Arrive \/ Configure \/ Bridge \/ Crash

Spec == Init /\ [][Next]_vars
FairSpec == Spec /\ WF_vars(Bridge)

-----------------------------------------------------------------------------
BridgeTypeOK ==
    /\ mail \subseteq Mail /\ config \in Box \cup {None} /\ saved \in Cursors
    /\ cycle \in CycleStates /\ taken \subseteq Mail /\ cut \subseteq Mail
    /\ switched \in BOOLEAN /\ faults \in Nat /\ changes \in Nat

Below(cursors) == {m \in mail : m.uid <= cursors[m.folder]}

\* The cursors, on disk and of the run under way, pass a message of the mailbox
\* only when the worker has it, it is too large, or a first run left it out;
\* whatever failed, and however often the process died between an upload and
\* the write.  With cursors of another mailbox this is not so.
PassedWasTaken ==
    ~switched =>
        \A m \in Below(saved) \cup Below(cycle.cursors) :
            m.box = config => m \in taken \/ m \in cut

\* What that rests on: a run is at the configured mailbox, ...
There(b, f) == {m \in mail : m.box = b /\ m.folder = f}

RunIsHere ==
    /\ cycle.at = "rest" => cycle = Resting
    /\ cycle.at # "rest" => cycle.box # None /\ config # None /\ (~switched => cycle.box = config)
    /\ config = None => saved = NoCursors

\* ... no cursor is ahead of its folder, so that what arrives is beyond it, ...
CursorsBehind ==
    /\ IsFiniteSet(mail) /\ \A m \in mail : m.uid <= Cardinality(There(m.box, m.folder))
    /\ config # None /\ ~switched =>
           \A f \in Folder :
               /\ saved[f] <= Cardinality(There(config, f))
               /\ cycle.cursors[f] <= Cardinality(There(config, f))

\* ... and the folder under way is taken or left out from below.
FromBelow ==
    /\ cycle.at = "select" => cycle.reached = 0
    /\ cycle.at = "upload" /\ ~switched =>
           /\ cycle.reached <= Cardinality(There(config, cycle.folder))
           /\ cycle.left \subseteq There(config, cycle.folder)
           /\ \A m \in cycle.left : cycle.reached < m.uid
           /\ \A m \in There(config, cycle.folder) \ cycle.left :
                  \/ m \in taken \/ m \in cut
                  \/ cycle.reached < m.uid /\ \A n \in cycle.left : n.uid < m.uid

BridgeInvariant == BridgeTypeOK /\ RunIsHere /\ CursorsBehind /\ FromBelow /\ PassedWasTaken

\* Messages the worker has still to get.
Waiting == {m \in mail : m.box = config /\ m \notin taken /\ m \notin cut}

\* Once nothing fails any more, the worker gets every message.
BridgeDrains == []<>(Waiting = {} \/ switched)
=============================================================================
