------------------------------- MODULE MCParts -------------------------------
(***************************************************************************)
(* The modules about mail, and the browser capture, on small instances, in *)
(* one run.  They share no step: a behaviour is one of the lookup, of the  *)
(* pool of connections, of the bridge, of the worker's store or of the     *)
(* capture, and the variables of the other parts stay as they are.         *)
(***************************************************************************)
EXTENDS CodeLookup

CONSTANTS
    Scanner, Slots, ConsoleSlots,            \* ImapPool
    Message, Handler, Cron, Page,            \* MailStore
    MaxRows, Deliveries,
    MaxCaptures                              \* BrowserCapture

VARIABLES
    part,
    scanConfig, job, open, pooled, scanFaults,
    inbox, bridgeConfig, saved, cycle, taken, cut, switched, bridgeFaults, bridgeChanges,
    alias, row, perm, old, att, blob, handler, cron, used, mails, storeFaults, storeChanges,
    leaked, retimed,
    current, status, cancelled, thread, stored

lookupVars == vars
poolVars == <<scanConfig, job, open, pooled, scanFaults>>
bridgeVars ==
    <<inbox, bridgeConfig, saved, cycle, taken, cut, switched, bridgeFaults, bridgeChanges>>
storeVars ==
    <<alias, row, perm, old, att, blob, handler, cron, used, mails, storeFaults, storeChanges,
      leaked, retimed>>
captureVars == <<current, status, cancelled, thread, stored>>
partsVars == <<part, lookupVars, poolVars, bridgeVars, storeVars, captureVars>>

\* The modules of the proofs are instantiated, so that their theorems hold here.
Scans == INSTANCE ImapPoolProofs WITH config <- scanConfig, faults <- scanFaults

Pusher ==
    INSTANCE MailBridgeProofs WITH
        mail <- inbox, config <- bridgeConfig,
        faults <- bridgeFaults, changes <- bridgeChanges

Worker ==
    INSTANCE MailStoreProofs WITH
        MaxMail <- Deliveries, req <- handler, run <- cron,
        faults <- storeFaults, changes <- storeChanges

Browser == INSTANCE BrowserCapture

ASSUME PartsAssumption == MaxCaptures \in Nat /\ Worker!StoreConstants

-----------------------------------------------------------------------------
\* The mailboxes are interchangeable: one of them stands for any that is
\* configured at first.  Without one, or without an active alias, the first change
\* would have to bring it, and leave the rest of the behaviour without a change.
FirstBox == CHOOSE b \in Box : TRUE

\* The parts a behaviour is not about begin in one of their initial states.
PartsInit ==
    /\ part \in {"lookup", "pool", "bridge", "store", "capture"}
    /\ Init /\ Scans!Init /\ Pusher!Init /\ Worker!Init /\ Browser!Init
    /\ config = IF part = "lookup" THEN FirstBox ELSE None
    /\ scanConfig \in IF part = "pool" THEN {None, FirstBox} ELSE {None}
    /\ bridgeConfig \in IF part = "bridge" THEN {None, FirstBox} ELSE {None}
    /\ alias = IF part = "store" THEN "active" ELSE "absent"

PartsNext ==
    /\ UNCHANGED part
    /\ \/ part = "lookup" /\ Next
          /\ UNCHANGED <<poolVars, bridgeVars, storeVars, captureVars>>
       \/ part = "pool" /\ Scans!Next
          /\ UNCHANGED <<lookupVars, bridgeVars, storeVars, captureVars>>
       \/ part = "bridge" /\ Pusher!Next
          /\ UNCHANGED <<lookupVars, poolVars, storeVars, captureVars>>
       \/ part = "store" /\ Worker!Next
          /\ UNCHANGED <<lookupVars, poolVars, bridgeVars, captureVars>>
       \/ part = "capture" /\ Browser!Next
          /\ UNCHANGED <<lookupVars, poolVars, bridgeVars, storeVars>>

\* The fairness of each part (the pool's has none).
PartsSpec ==
    /\ PartsInit /\ [][PartsNext]_partsVars
    /\ Fairness
    /\ WF_bridgeVars(part = "bridge" /\ Pusher!Bridge)
    /\ \A h \in Handler : WF_storeVars(part = "store" /\ Worker!Ingest(h))
    /\ \A c \in Cron : WF_storeVars(part = "store" /\ Worker!Cleanup(c))
    /\ \A c \in 1 .. MaxCaptures : WF_captureVars(part = "capture" /\ Browser!Run(c))

-----------------------------------------------------------------------------
\* What each part relies on.
PartsInvariant ==
    /\ LookupInvariant /\ IndexInvariant /\ Scans!PoolInvariant /\ Pusher!BridgeInvariant
    /\ Worker!StoreInvariant /\ Browser!CaptureInvariant

\* Properties of the other modules, stated there.
ConnectionsAccounted == Scans!ConnectionsAccounted
PassedWasTaken == Pusher!PassedWasTaken
BridgeDrains == Pusher!BridgeDrains
BytesReadable == Worker!BytesReadable
KeptBytesNamed == Worker!KeptBytesNamed
NothingStays == Worker!NothingStays
CaptureAlone == Browser!CaptureAlone
CapturesEnd == Browser!CapturesEnd
=============================================================================
