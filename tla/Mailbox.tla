------------------------------- MODULE Mailbox -------------------------------
(***************************************************************************)
(* What the modules about mail share: the IMAP mailboxes an operator may   *)
(* configure, the folders that are scanned, the connections, and bounds.   *)
(***************************************************************************)
EXTENDS Integers, FiniteSets

CONSTANTS
    Box,         \* mailboxes that may be configured
    Conn,        \* connections to them
    None,        \* neither a mailbox nor a connection
    Folders,     \* number of scan_folders
    CycleLimit,  \* messages of one run of the bridge, _CYCLE_LIMIT (20)
    MaxMail,     \* bound: messages that arrive for the watcher ...
    BridgeMail,  \* ... and for the bridge
    MaxFaults,   \* bound: commands, uploads and writes that fail, and crashes
    MaxChanges   \* bound: configurations the operator saves

ASSUME NoneAssumption == None \notin Box /\ None \notin Conn
ASSUME MailboxAssumption ==
    /\ Folders \in Nat \ {0} /\ CycleLimit \in Nat
    /\ MaxMail \in Nat /\ BridgeMail \in Nat /\ MaxFaults \in Nat /\ MaxChanges \in Nat

Folder == 1 .. Folders
=============================================================================
