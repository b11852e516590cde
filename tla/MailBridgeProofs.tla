--------------------------- MODULE MailBridgeProofs ---------------------------
(***************************************************************************)
(* For every set of mailboxes, number of folders, length of a run and      *)
(* number of failures: a cursor of the bridge passes a message only when   *)
(* the worker has it or a run left it out on purpose.                      *)
(***************************************************************************)
EXTENDS MailBridge, FiniteSetTheorems, WellFoundedInduction, TLAPS

-----------------------------------------------------------------------------
(* Counting the messages of a folder.                                      *)

LEMMA Counts ==
    ASSUME IsFiniteSet(mail), NEW b, NEW f
    PROVE  /\ There(b, f) \subseteq mail
           /\ IsFiniteSet(There(b, f)) /\ Cardinality(There(b, f)) \in Nat
           /\ Cardinality(There(b, f)) <= Cardinality(mail)
<1>1. There(b, f) \in SUBSET mail
    BY DEF There
<1> QED BY <1>1, FS_Subset, FS_CardinalityType

\* Some message of a set has the lowest UID.
LEMMA Lowest ==
    ASSUME NEW S \in SUBSET Mail, S # {}
    PROVE  \E m \in S : \A n \in S : m.uid <= n.uid
<1> DEFINE lower == {p \in Nat \X Nat : p[1] < p[2]}
           uids == {m.uid : m \in S}
<1>1. \A m \in S : m.uid \in Nat
    BY MailboxAssumption DEF Mail
<1>2. uids \subseteq Nat /\ uids # {}
    BY <1>1
<1>3. IsWellFoundedOn(lower, Nat)
    BY NatLessThanWellFounded DEF OpToRel
<1>4. PICK x \in uids : \A y \in uids : ~(<<y, x>> \in lower)
    <2> HIDE DEF uids, lower
    <2> QED BY <1>2, <1>3, WFMin
<1>5. PICK m \in S : x = m.uid
    OBVIOUS
<1>6. ASSUME NEW n \in S
      PROVE  m.uid <= n.uid
    <2>1. n.uid \in uids /\ n.uid \in Nat /\ x \in Nat
        BY <1>1, <1>5
    <2>2. ~(n.uid < x)
        BY <1>4, <2>1
    <2> QED BY <1>5, <2>1, <2>2
<1> QED BY <1>6

-----------------------------------------------------------------------------
(* What comes in is beyond every cursor.                                   *)

LEMMA ArriveKeeps ==
    ASSUME BridgeInvariant, Arrive
    PROVE  BridgeInvariant'
<1> USE DEF BridgeInvariant
<1>1. PICK b \in Box, f \in Folder :
          mail' = mail \cup {[box |-> b, folder |-> f, uid |-> 1 + Cardinality(There(b, f))]}
    BY DEF Arrive, There
<1>2. /\ Cardinality(mail) < BridgeMail
      /\ UNCHANGED <<config, saved, cycle, taken, cut, switched, faults, changes>>
    BY DEF Arrive
<1>3. /\ IsFiniteSet(mail) /\ Cardinality(mail) \in Nat
      /\ \A c, g : /\ Cardinality(There(c, g)) \in Nat /\ IsFiniteSet(There(c, g))
                   /\ Cardinality(There(c, g)) <= Cardinality(mail)
    BY Counts, FS_CardinalityType DEF CursorsBehind
<1> DEFINE new == [box |-> b, folder |-> f, uid |-> 1 + Cardinality(There(b, f))]
<1>4. mail' = mail \cup {new}
    BY <1>1
<1>5. /\ new \in Mail /\ new.box = b /\ new.folder = f
      /\ new.uid = 1 + Cardinality(There(b, f))
    <2>1. 1 + Cardinality(There(b, f)) \in 1 .. BridgeMail
        BY <1>2, <1>3, MailboxAssumption
    <2> QED BY <2>1 DEF Mail
<1> HIDE DEF new
<1>6. IsFiniteSet(mail')
    BY <1>3, <1>4, FS_AddElement
<1>7. new \notin There(b, f)
    BY <1>3, <1>5 DEF CursorsBehind, There
<1>8. There(b, f)' = There(b, f) \cup {new}
    BY <1>4, <1>5 DEF There
<1>9. Cardinality(There(b, f))' = Cardinality(There(b, f)) + 1
    BY <1>3, <1>7, <1>8, FS_AddElement
<1>10. ASSUME NEW c, NEW g, c # b \/ g # f
       PROVE  There(c, g)' = There(c, g)
    BY <1>4, <1>5, <1>10 DEF There
<1>11. \A c, g : Cardinality(There(c, g)) <= Cardinality(There(c, g))'
    BY <1>3, <1>9, <1>10
<1>12. BridgeTypeOK'
    BY <1>2, <1>4, <1>5 DEF BridgeTypeOK
<1>13. RunIsHere'
    BY <1>2 DEF RunIsHere
<1>14. CursorsBehind'
    <2>1. ASSUME NEW m \in mail'
          PROVE  m.uid <= Cardinality(There(m.box, m.folder))'
        <3>1. CASE m = new
            BY <1>3, <1>5, <1>9, <3>1
        <3>2. CASE m \in mail
            <4>1. m.uid \in Nat /\ m.uid <= Cardinality(There(m.box, m.folder))
                BY <3>2, MailboxAssumption DEF CursorsBehind, BridgeTypeOK, Mail
            <4>2. Cardinality(There(m.box, m.folder)) <= Cardinality(There(m.box, m.folder))'
                BY <1>11
            <4>3. Cardinality(There(m.box, m.folder))' \in Nat
                BY <1>6, Counts, FS_CardinalityType, FS_Subset DEF There
            <4> QED BY <1>3, <4>1, <4>2, <4>3
        <3> QED BY <1>4, <3>1, <3>2
    <2>2. ASSUME config # None, ~switched, NEW g \in Folder
          PROVE  /\ saved[g] <= Cardinality(There(config, g)')
                 /\ cycle.cursors[g] <= Cardinality(There(config, g)')
        <3> PICK here : here = config
            OBVIOUS
        <3>4. There(config, g) = There(here, g) /\ There(config, g)' = There(here, g)'
            BY <1>2 DEF There
        <3>1. /\ saved[g] <= Cardinality(There(config, g))
              /\ cycle.cursors[g] <= Cardinality(There(config, g))
              /\ saved[g] \in Nat /\ cycle.cursors[g] \in Nat
            BY <2>2, MailboxAssumption DEF CursorsBehind, BridgeTypeOK, Cursors, CycleStates
        <3>2. CASE here = b /\ g = f
            BY <1>3, <1>9, <3>1, <3>2, <3>4
        <3>3. CASE here # b \/ g # f
            BY <1>10, <3>1, <3>3, <3>4
        <3> QED BY <3>2, <3>3
    <2> QED BY <1>2, <1>6, <2>1, <2>2 DEF CursorsBehind
<1>15. FromBelow'
    <2> SUFFICES ASSUME cycle.at = "upload", ~switched
                 PROVE  /\ cycle.reached <= Cardinality(There(config, cycle.folder))'
                        /\ cycle.left \subseteq There(config, cycle.folder)'
                        /\ \A m \in There(config, cycle.folder)' \ cycle.left :
                               \/ m \in taken \/ m \in cut
                               \/ cycle.reached < m.uid /\ \A n \in cycle.left : n.uid < m.uid
        BY <1>2 DEF FromBelow
    <2>1. /\ cycle.reached <= Cardinality(There(config, cycle.folder)) /\ cycle.reached \in Nat
          /\ cycle.left \subseteq There(config, cycle.folder)
          /\ \A m \in There(config, cycle.folder) \ cycle.left :
                 \/ m \in taken \/ m \in cut
                 \/ cycle.reached < m.uid /\ \A n \in cycle.left : n.uid < m.uid
        BY MailboxAssumption DEF FromBelow, BridgeTypeOK, CycleStates
    <2> PICK here, g : here = config /\ g = cycle.folder
        OBVIOUS
    <2>4. /\ There(config, cycle.folder) = There(here, g)
          /\ There(config, cycle.folder)' = There(here, g)'
        BY <1>2 DEF There
    <2>2. CASE here = b /\ g = f
        <3>1. \A n \in cycle.left : n.uid <= Cardinality(There(b, f)) /\ n.uid \in Nat
            BY <2>1, <2>2, <2>4, MailboxAssumption DEF There, CursorsBehind, BridgeTypeOK, Mail
        <3>2. cycle.reached < new.uid /\ \A n \in cycle.left : n.uid < new.uid
            BY <1>3, <1>5, <2>1, <2>2, <2>4, <3>1
        <3> QED BY <1>3, <1>8, <1>9, <2>1, <2>2, <2>4, <3>2
    <2>3. CASE here # b \/ g # f
        BY <1>10, <2>1, <2>3, <2>4
    <2> QED BY <2>2, <2>3
<1>16. PassedWasTaken'
    <2> SUFFICES ASSUME ~switched, NEW m \in mail', m.box = config,
                        m.uid <= saved[m.folder] \/ m.uid <= cycle.cursors[m.folder]
                 PROVE  m \in taken \/ m \in cut
        BY <1>2 DEF PassedWasTaken, Below
    <2>1. CASE m \in mail
        BY <2>1 DEF PassedWasTaken, Below
    <2>2. CASE m = new
        <3>1. config # None /\ config = b /\ m.folder = f
            BY <1>5, <2>2, NoneAssumption
        <3>2. saved[f] <= Cardinality(There(b, f)) /\ cycle.cursors[f] <= Cardinality(There(b, f))
            BY <3>1 DEF CursorsBehind
        <3>3. saved[f] \in Nat /\ cycle.cursors[f] \in Nat
            BY MailboxAssumption DEF BridgeTypeOK, Cursors, CycleStates
        <3> QED BY <1>3, <1>5, <2>2, <3>1, <3>2, <3>3
    <2> QED BY <1>4, <2>1, <2>2
<1> QED BY <1>12, <1>13, <1>14, <1>15, <1>16

-----------------------------------------------------------------------------
(* The mailbox, and the runs.                                              *)

LEMMA CursorTypes ==
    ASSUME BridgeTypeOK
    PROVE  /\ NoCursors \in Cursors /\ Resting \in CycleStates
           /\ Resting.at = "rest" /\ Resting.cursors = NoCursors
           /\ \A f \in Folder : NoCursors[f] = 0
           /\ \A m \in mail : m.uid > 0 /\ m.folder \in Folder /\ m.uid \in Nat
<1>1. 0 \in 0 .. BridgeMail /\ 1 \in Folder
    BY MailboxAssumption DEF Folder
<1> QED BY <1>1, MailboxAssumption DEF BridgeTypeOK, NoCursors, Cursors, Resting, CycleStates, Mail

LEMMA ConfigureKeeps ==
    ASSUME BridgeInvariant, Configure
    PROVE  BridgeInvariant'
<1> USE DEF BridgeInvariant
<1>1. /\ config' \in Box /\ config' # None /\ changes' \in Nat
      /\ switched' = (switched \/ config # None)
      /\ UNCHANGED <<mail, saved, cycle, taken, cut, faults>>
    BY NoneAssumption DEF Configure, BridgeTypeOK
<1>2. BridgeTypeOK'
    BY <1>1 DEF BridgeTypeOK
<1>3. config = None => saved = NoCursors /\ cycle = Resting
    BY DEF RunIsHere
<1>4. RunIsHere'
    BY <1>1, <1>3 DEF RunIsHere, Resting
<1>5. CursorsBehind'
    <2>1. ASSUME config = None, NEW f \in Folder
          PROVE  0 <= Cardinality(There(config, f)') /\ saved[f] = 0 /\ cycle.cursors[f] = 0
        <3>1. PICK here : here = config'
            OBVIOUS
        <3>2. There(config, f)' = There(here, f)
            BY <1>1, <3>1 DEF There
        <3>3. Cardinality(There(here, f)) \in Nat
            BY Counts DEF CursorsBehind
        <3> QED BY <1>3, <2>1, <3>2, <3>3, CursorTypes
    <2>2. \A b, f : There(b, f)' = There(b, f)
        BY <1>1 DEF There
    <2>3. \A m \in mail : m.uid <= Cardinality(There(m.box, m.folder))'
        BY <2>2 DEF CursorsBehind
    <2> QED BY <1>1, <2>1, <2>3 DEF CursorsBehind
<1>8. ~switched' => cycle = Resting /\ saved = NoCursors
    BY <1>1, <1>3
<1>6. FromBelow'
    BY <1>1, <1>8 DEF FromBelow, Resting
<1>7. PassedWasTaken'
    <2> SUFFICES ASSUME ~switched', NEW m \in mail,
                        m.uid <= saved[m.folder] \/ m.uid <= cycle.cursors[m.folder]
                 PROVE  m \in taken \/ m \in cut
        BY <1>1 DEF PassedWasTaken, Below
    <2>1. m.uid <= NoCursors[m.folder]
        BY <1>8, CursorTypes
    <2>2. NoCursors[m.folder] = 0 /\ m.uid > 0 /\ m.uid \in Nat
        BY CursorTypes
    <2> QED BY <2>1, <2>2
<1> QED BY <1>2, <1>4, <1>5, <1>6, <1>7

\* A run begins, is written or is forgotten: its cursors are those on disk, or
\* none.
LEMMA RestKeeps ==
    ASSUME BridgeInvariant, Begin \/ Write \/ Crash
    PROVE  BridgeInvariant'
<1> USE DEF BridgeInvariant
<1>1. UNCHANGED <<mail, config, taken, cut, switched, changes>> /\ config # None
    BY DEF Begin, Write, Crash, RunIsHere
<1>2. /\ saved' \in {saved, cycle.cursors} /\ faults' \in Nat
      /\ saved \in Cursors /\ cycle.cursors \in Cursors
    BY DEF Begin, Write, Crash, Fault, BridgeTypeOK, CycleStates
<1>3. /\ cycle' \in CycleStates /\ cycle'.cursors \in {saved, NoCursors}
      /\ cycle' = Resting \/ (cycle'.at = "select" /\ cycle'.box = config /\ cycle'.reached = 0)
    <2>1. CASE Begin
        <3>1. cycle' = [at |-> "select", box |-> config, folder |-> 1, cursors |-> saved,
                        left |-> {}, reached |-> 0]
            BY <2>1 DEF Begin, Resting
        <3>2. 1 \in Folder /\ 0 \in 0 .. BridgeMail
            BY MailboxAssumption DEF Folder
        <3> QED BY <3>1, <3>2 DEF BridgeTypeOK, CycleStates
    <2>2. CASE Write \/ Crash
        BY <2>2, CursorTypes DEF Write, Crash
    <2> QED BY <2>1, <2>2
<1>4. BridgeTypeOK'
    BY <1>1, <1>2, <1>3 DEF BridgeTypeOK
<1>5. RunIsHere' /\ FromBelow'
    BY <1>1, <1>3 DEF RunIsHere, FromBelow, Resting
<1>6. ASSUME NEW f \in Folder
      PROVE  /\ saved'[f] \in {saved[f], cycle.cursors[f]}
             /\ cycle'.cursors[f] \in {saved[f], 0}
    BY <1>2, <1>3, CursorTypes
<1>7. CursorsBehind'
    <2>1. \A b, f : There(b, f)' = There(b, f)
        BY <1>1 DEF There
    <2>2. \A m \in mail : m.uid <= Cardinality(There(m.box, m.folder))'
        BY <2>1 DEF CursorsBehind
    <2>3. ASSUME ~switched, NEW f \in Folder
          PROVE  /\ saved'[f] <= Cardinality(There(config, f)')
                 /\ cycle'.cursors[f] <= Cardinality(There(config, f)')
        <3>1. There(config, f)' = There(config, f)
            BY <1>1 DEF There
        <3>2. Cardinality(There(config, f)) \in Nat
            BY Counts DEF CursorsBehind
        <3>3. /\ saved[f] <= Cardinality(There(config, f))
              /\ cycle.cursors[f] <= Cardinality(There(config, f))
            BY <1>1, <2>3 DEF CursorsBehind
        <3> QED BY <1>6, <3>1, <3>2, <3>3
    <2> QED BY <1>1, <2>2, <2>3 DEF CursorsBehind
<1>8. PassedWasTaken'
    <2> SUFFICES ASSUME ~switched, NEW m \in mail, m.box = config,
                        m.uid <= saved'[m.folder] \/ m.uid <= cycle'.cursors[m.folder]
                 PROVE  m \in taken \/ m \in cut
        BY <1>1 DEF PassedWasTaken, Below
    <2>1. m.folder \in Folder /\ m.uid > 0 /\ m.uid \in Nat
        BY CursorTypes
    <2>2. m.uid <= saved[m.folder] \/ m.uid <= cycle.cursors[m.folder]
        BY <1>6, <2>1
    <2> QED BY <2>2 DEF PassedWasTaken, Below
<1> QED BY <1>4, <1>5, <1>7, <1>8

-----------------------------------------------------------------------------
(* The steps of a run.                                                     *)

\* The folder ends: what its raised cursor passes is taken or left out.
LEMMA NextFolderKeeps ==
    ASSUME BridgeInvariant, cycle.at \in {"select", "upload"}, NextFolder,
           UNCHANGED <<mail, config, saved, switched, changes>>, faults' \in Nat,
           taken \subseteq taken', taken' \subseteq Mail, cut \subseteq cut', cut' \subseteq Mail
    PROVE  BridgeInvariant'
<1> USE DEF BridgeInvariant
<1>1. /\ cycle \in CycleStates /\ cycle.folder \in Folder /\ cycle.cursors \in Cursors
      /\ cycle.reached \in 0 .. BridgeMail
      /\ cycle.box # None /\ config # None /\ (~switched => cycle.box = config)
    BY DEF BridgeTypeOK, CycleStates, RunIsHere
<1> DEFINE top == IF cycle.reached > cycle.cursors[cycle.folder] THEN cycle.reached
                  ELSE cycle.cursors[cycle.folder]
           raised == [cycle.cursors EXCEPT ![cycle.folder] = top]
<1>2. raised \in Cursors
    BY <1>1 DEF Cursors
<1>3. \A f \in Folder : raised[f] = cycle.cursors[f]
                        \/ (f = cycle.folder /\ raised[f] = cycle.reached)
    BY <1>1 DEF Cursors
<1>4. /\ cycle' \in CycleStates /\ cycle'.cursors = raised /\ cycle'.reached = 0
      /\ cycle'.at \in {"select", "write"} /\ cycle'.box = cycle.box
    <2>1. 0 \in 0 .. BridgeMail /\ (MoreFolders => cycle.folder + 1 \in Folder)
        BY <1>1, MailboxAssumption DEF MoreFolders, Folder
    <2>2. CASE MoreFolders
        <3>1. cycle' = [cycle EXCEPT !.at = "select", !.folder = cycle.folder + 1,
                                     !.cursors = raised, !.left = {}, !.reached = 0]
            BY <2>2 DEF NextFolder
        <3> HIDE DEF raised
        <3> QED BY <1>1, <1>2, <2>1, <2>2, <3>1 DEF CycleStates
    <2>3. CASE ~MoreFolders
        <3>1. cycle' = [cycle EXCEPT !.at = "write", !.folder = cycle.folder,
                                     !.cursors = raised, !.left = {}, !.reached = 0]
            BY <2>3 DEF NextFolder
        <3> HIDE DEF raised
        <3> QED BY <1>1, <1>2, <2>1, <2>3, <3>1 DEF CycleStates
    <2> QED BY <2>2, <2>3
<1> HIDE DEF top, raised
<1>5. BridgeTypeOK'
    BY <1>4 DEF BridgeTypeOK
<1>6. RunIsHere'
    BY <1>1, <1>4 DEF RunIsHere
<1>7. FromBelow'
    BY <1>4 DEF FromBelow
<1>8. CursorsBehind'
    <2>1. \A b, f : There(b, f)' = There(b, f)
        BY DEF There
    <2>2. \A m \in mail : m.uid <= Cardinality(There(m.box, m.folder))'
        BY <2>1 DEF CursorsBehind
    <2>3. ASSUME ~switched, NEW f \in Folder
          PROVE  /\ saved[f] <= Cardinality(There(config, f)')
                 /\ raised[f] <= Cardinality(There(config, f)')
        <3>1. There(config, f)' = There(config, f)
            BY DEF There
        <3>2. Cardinality(There(config, f)) \in Nat
            BY Counts DEF CursorsBehind
        <3>3. /\ saved[f] <= Cardinality(There(config, f))
              /\ cycle.cursors[f] <= Cardinality(There(config, f))
            BY <1>1, <2>3 DEF CursorsBehind
        <3>4. f = cycle.folder => cycle.reached <= Cardinality(There(config, f))
            BY <2>3, <3>2 DEF FromBelow
        <3> QED BY <1>3, <3>1, <3>3, <3>4
    <2> QED BY <1>1, <1>4, <2>2, <2>3 DEF CursorsBehind
<1>9. PassedWasTaken'
    <2> SUFFICES ASSUME ~switched, NEW m \in mail, m.box = config,
                        m.uid <= saved[m.folder] \/ m.uid <= raised[m.folder]
                 PROVE  m \in taken \/ m \in cut
        BY <1>4 DEF PassedWasTaken, Below
    <2>1. m.folder \in Folder /\ m.uid > 0 /\ m.uid \in Nat
        BY CursorTypes
    <2>2. CASE m.uid <= saved[m.folder] \/ m.uid <= cycle.cursors[m.folder]
        BY <2>2 DEF PassedWasTaken, Below
    <2>3. CASE m.folder = cycle.folder /\ m.uid <= cycle.reached
        <3>1. cycle.at = "upload"
            BY <2>1, <2>3 DEF FromBelow
        <3>2. m \in There(config, cycle.folder)
            BY <2>3 DEF There
        <3>3. ~(cycle.reached < m.uid)
            BY <1>1, <2>1, <2>3
        <3> QED BY <3>1, <3>2, <3>3 DEF FromBelow
    <2> QED BY <1>3, <2>1, <2>2, <2>3
<1> QED BY <1>5, <1>6, <1>7, <1>8, <1>9

\* A step within the folder: the cursors stay as they are.
LEMMA WithinKeeps ==
    ASSUME BridgeInvariant, cycle.at \in {"select", "upload"},
           UNCHANGED <<mail, config, saved, switched, changes>>, faults' \in Nat,
           taken \subseteq taken', taken' \subseteq Mail, cut \subseteq cut', cut' \subseteq Mail,
           cycle' \in CycleStates, cycle'.at = "upload",
           cycle'.box = cycle.box, cycle'.cursors = cycle.cursors,
           FromBelow'
    PROVE  BridgeInvariant'
<1> USE DEF BridgeInvariant
<1>1. BridgeTypeOK'
    BY DEF BridgeTypeOK
<1>2. RunIsHere'
    BY DEF RunIsHere
<1>3. CursorsBehind'
    <2>1. \A b, f : There(b, f)' = There(b, f)
        BY DEF There
    <2>2. \A m \in mail : m.uid <= Cardinality(There(m.box, m.folder))'
        BY <2>1 DEF CursorsBehind
    <2>3. \A f : There(config, f)' = There(config, f)
        BY DEF There
    <2> QED BY <2>2, <2>3 DEF CursorsBehind
<1>4. PassedWasTaken'
    BY DEF PassedWasTaken, Below
<1> QED BY <1>1, <1>2, <1>3, <1>4

LEMMA SelectKeeps ==
    ASSUME BridgeInvariant, Select
    PROVE  BridgeInvariant'
<1> USE DEF BridgeInvariant
<1>1. /\ cycle.at = "select" /\ cycle \in CycleStates /\ cycle.folder \in Folder
      /\ Cursor \in 0 .. BridgeMail
      /\ UNCHANGED <<mail, config, saved, taken, switched, changes>> /\ faults' \in Nat
    BY DEF Select, BridgeTypeOK, CycleStates, Cursors, Cursor, Fault
<1>2. CASE NextFolder /\ UNCHANGED cut
    BY <1>1, <1>2, NextFolderKeeps DEF BridgeTypeOK
<1>3. CASE /\ cycle' = [cycle EXCEPT !.at = "upload", !.left = Picked, !.reached = Cursor]
           /\ cut' = IF Cursor = 0 THEN cut \cup (New \ Picked) ELSE cut
    <2>1. /\ New \in SUBSET mail /\ New \in SUBSET Mail /\ Picked \in SUBSET New
          /\ IsFiniteSet(New)
        <3>1. New \in SUBSET mail /\ Picked \in SUBSET New
            BY DEF New, Picked
        <3> QED BY <3>1, FS_Subset DEF CursorsBehind, BridgeTypeOK
    <2>2. /\ cycle' \in CycleStates /\ cycle'.at = "upload" /\ cycle'.left = Picked
          /\ cycle'.reached = Cursor /\ cycle'.box = cycle.box
          /\ cycle'.cursors = cycle.cursors /\ cycle'.folder = cycle.folder
        BY <1>1, <1>3, <2>1 DEF CycleStates
    <2>3. cut \subseteq cut' /\ cut' \subseteq Mail
        BY <1>3, <2>1 DEF BridgeTypeOK
    <2>4. ASSUME ~switched
          PROVE  New = {m \in There(config, cycle.folder) : m.uid > Cursor}
        BY <1>1, <2>4 DEF New, There, RunIsHere
    <2>5. ASSUME ~switched
          PROVE  Cursor <= Cardinality(There(config, cycle.folder))
        BY <1>1, <2>5 DEF CursorsBehind, RunIsHere, Cursor
    <2>6. ASSUME Cursor # 0, NEW m \in New \ Picked, NEW p \in Picked
          PROVE  p.uid < m.uid
        <3> DEFINE below(x) == {n \in New : n.uid < x.uid}
        <3>1. ~(Cardinality(below(m)) < CycleLimit) /\ Cardinality(below(p)) < CycleLimit
            BY <2>6 DEF Picked
        <3>2. m.uid \in Nat /\ p.uid \in Nat /\ p \in New /\ \A n \in New : n.uid \in Nat
            BY <2>1, CursorTypes
        <3>3. CASE m.uid <= p.uid
            <4>1. below(m) \in SUBSET below(p)
                BY <3>2, <3>3
            <4>2. below(p) \in SUBSET New
                OBVIOUS
            <4> HIDE DEF below
            <4>3. IsFiniteSet(below(p)) /\ IsFiniteSet(below(m))
                BY <2>1, <4>1, <4>2, FS_Subset
            <4>4. /\ Cardinality(below(m)) <= Cardinality(below(p))
                  /\ Cardinality(below(m)) \in Nat /\ Cardinality(below(p)) \in Nat
                BY <4>1, <4>3, FS_Subset, FS_CardinalityType
            <4> QED BY <3>1, <4>4, MailboxAssumption
        <3> QED BY <3>2, <3>3
    <2>7. ASSUME ~switched, NEW m \in There(config, cycle.folder) \ Picked
          PROVE  \/ m \in taken \/ m \in cut'
                 \/ Cursor < m.uid /\ \A n \in Picked : n.uid < m.uid
        <3>1. m \in mail /\ m.uid \in Nat /\ m.box = config /\ m.folder = cycle.folder
            BY CursorTypes DEF There
        <3>2. CASE m.uid <= Cursor
            <4>1. m \in taken \/ m \in cut
                BY <2>7, <3>1, <3>2 DEF PassedWasTaken, Below, Cursor
            <4> QED BY <2>3, <4>1
        <3>3. CASE m.uid > Cursor
            <4>1. m \in New \ Picked
                BY <2>4, <2>7, <3>3
            <4> QED BY <1>3, <2>6, <3>1, <3>3, <4>1
        <3> QED BY <1>1, <3>1, <3>2, <3>3
    <2>8. FromBelow'
        <3> SUFFICES ASSUME ~switched
                     PROVE  /\ Cursor <= Cardinality(There(config, cycle.folder))
                            /\ Picked \subseteq There(config, cycle.folder)
                            /\ \A m \in Picked : Cursor < m.uid
                            /\ \A m \in There(config, cycle.folder) \ Picked :
                                   \/ m \in taken \/ m \in cut'
                                   \/ Cursor < m.uid /\ \A n \in Picked : n.uid < m.uid
            BY <1>1, <2>2 DEF FromBelow, There
        <3>1. \A m \in New : Cursor < m.uid /\ m \in There(config, cycle.folder)
            BY <1>1, <2>4, CursorTypes DEF There
        <3> QED BY <2>1, <2>5, <2>7, <3>1
    <2> QED BY <1>1, <2>2, <2>3, <2>8, WithinKeeps DEF BridgeTypeOK
<1> QED BY <1>2, <1>3 DEF Select

\* One message of the folder is passed: the lowest of those that are left.
LEMMA UploadKeeps ==
    ASSUME BridgeInvariant, Upload
    PROVE  BridgeInvariant'
<1> USE DEF BridgeInvariant
<1>1. /\ cycle.at = "upload" /\ cycle \in CycleStates /\ cycle.left \in SUBSET Mail
      /\ cycle.left # {} /\ cycle.reached \in 0 .. BridgeMail
      /\ UNCHANGED <<mail, config, saved, switched, changes>> /\ faults' \in Nat
    BY DEF Upload, BridgeTypeOK, CycleStates, Fault
<1>2. Oldest \in cycle.left /\ \A n \in cycle.left : Oldest.uid <= n.uid
    <2>1. \E m \in cycle.left : \A n \in cycle.left : m.uid <= n.uid
        BY <1>1, Lowest
    <2> QED BY <2>1 DEF Oldest
<1>3. /\ taken \subseteq taken' /\ taken' \subseteq Mail
      /\ cut \subseteq cut' /\ cut' \subseteq Mail
    BY <1>1, <1>2 DEF Upload, BridgeTypeOK
<1>4. CASE Broken
    BY <1>1, <1>3, <1>4, NextFolderKeeps DEF Broken
<1>5. CASE Passed /\ Oldest \in taken' \cup cut'
    <2>1. Oldest.uid \in 0 .. BridgeMail /\ Oldest \in Mail /\ \A n \in cycle.left : n.uid \in Nat
        BY <1>1, <1>2, MailboxAssumption DEF Mail
    <2>2. /\ cycle' \in CycleStates /\ cycle'.at = "upload" /\ cycle'.left = cycle.left \ {Oldest}
          /\ cycle'.reached = Oldest.uid /\ cycle'.box = cycle.box
          /\ cycle'.cursors = cycle.cursors /\ cycle'.folder = cycle.folder
        BY <1>1, <1>5, <2>1 DEF Passed, CycleStates
    <2>3. FromBelow'
        <3> SUFFICES ASSUME ~switched
                     PROVE  /\ Oldest.uid <= Cardinality(There(config, cycle.folder))
                            /\ cycle'.left \subseteq There(config, cycle.folder)
                            /\ \A m \in cycle'.left : Oldest.uid < m.uid
                            /\ \A m \in There(config, cycle.folder) \ cycle'.left :
                                   \/ m \in taken' \/ m \in cut'
                                   \/ Oldest.uid < m.uid /\ \A n \in cycle'.left : n.uid < m.uid
            BY <1>1, <2>2 DEF FromBelow, There
        <3>1. /\ cycle.left \subseteq There(config, cycle.folder)
              /\ \A m \in There(config, cycle.folder) \ cycle.left :
                     \/ m \in taken \/ m \in cut
                     \/ cycle.reached < m.uid /\ \A n \in cycle.left : n.uid < m.uid
            BY <1>1 DEF FromBelow
        <3>2. /\ Oldest \in mail /\ Oldest.box = config /\ Oldest.folder = cycle.folder
            BY <1>2, <3>1 DEF There
        <3>3. Oldest.uid <= Cardinality(There(config, cycle.folder))
            BY <3>2 DEF CursorsBehind
        <3>4. ASSUME NEW m \in cycle.left \ {Oldest}
              PROVE  Oldest.uid < m.uid
            <4>1. m \in Mail /\ m.box = Oldest.box /\ m.folder = Oldest.folder
                BY <1>1, <3>1, <3>2, <3>4 DEF There
            <4>2. m.uid # Oldest.uid
                BY <2>1, <3>4, <4>1 DEF Mail
            <4> QED BY <1>2, <2>1, <4>2
        <3>5. ASSUME NEW m \in There(config, cycle.folder) \ cycle'.left
              PROVE  \/ m \in taken' \/ m \in cut'
                     \/ Oldest.uid < m.uid /\ \A n \in cycle'.left : n.uid < m.uid
            <4>1. CASE m = Oldest
                BY <1>5, <4>1
            <4>2. CASE m # Oldest
                BY <1>2, <1>3, <2>2, <3>1, <3>5, <4>2
            <4> QED BY <4>1, <4>2
        <3> QED BY <2>2, <3>1, <3>3, <3>4, <3>5
    <2> QED BY <1>1, <1>3, <2>2, <2>3, WithinKeeps
<1> QED BY <1>4, <1>5 DEF Upload

LEMMA EndFolderKeeps ==
    ASSUME BridgeInvariant, EndFolder
    PROVE  BridgeInvariant'
BY NextFolderKeeps DEF EndFolder, BridgeInvariant, BridgeTypeOK

-----------------------------------------------------------------------------
LEMMA InitBridge ==
    ASSUME Init
    PROVE  BridgeInvariant
<1>1. /\ mail = {} /\ config \in Box \cup {None} /\ saved = NoCursors /\ cycle = Resting
      /\ taken = {} /\ cut = {} /\ switched = FALSE /\ faults = 0 /\ changes = 0
    BY DEF Init
<1>2. BridgeTypeOK
    <2>1. 0 \in 0 .. BridgeMail /\ 1 \in Folder
        BY MailboxAssumption DEF Folder
    <2>2. NoCursors \in Cursors
        BY <2>1 DEF NoCursors, Cursors
    <2>3. Resting \in CycleStates
        BY <2>1, <2>2 DEF Resting, CycleStates
    <2> QED BY <1>1, <2>2, <2>3 DEF BridgeTypeOK
<1>3. RunIsHere /\ FromBelow
    BY <1>1 DEF RunIsHere, FromBelow, Resting
<1>4. IsFiniteSet(mail)
    BY <1>1, FS_EmptySet
<1>5. CursorsBehind
    <2>1. ASSUME NEW f \in Folder
          PROVE  /\ saved[f] <= Cardinality(There(config, f))
                 /\ cycle.cursors[f] <= Cardinality(There(config, f))
        <3>1. saved[f] = 0 /\ cycle.cursors[f] = 0
            BY <1>1, <1>2, CursorTypes
        <3>2. Cardinality(There(config, f)) \in Nat
            BY <1>4, Counts
        <3> QED BY <3>1, <3>2
    <2> QED BY <1>1, <1>4, <2>1 DEF CursorsBehind
<1>6. PassedWasTaken
    BY <1>1 DEF PassedWasTaken, Below
<1> QED BY <1>2, <1>3, <1>5, <1>6 DEF BridgeInvariant

LEMMA StepBridge ==
    ASSUME BridgeInvariant, [Next]_vars
    PROVE  BridgeInvariant'
<1>1. CASE Next
    BY <1>1, ArriveKeeps, ConfigureKeeps, RestKeeps, SelectKeeps, UploadKeeps, EndFolderKeeps
    DEF Next, Bridge
<1>2. CASE UNCHANGED vars
    BY <1>2 DEF vars, BridgeInvariant, BridgeTypeOK, RunIsHere, CursorsBehind, FromBelow,
                PassedWasTaken, There, Below
<1> QED BY <1>1, <1>2

LEMMA BridgeKeepsInvariant == Spec => []BridgeInvariant
<1>1. Init => BridgeInvariant
    BY InitBridge
<1>2. BridgeInvariant /\ [Next]_vars => BridgeInvariant'
    BY StepBridge
<1> QED BY <1>1, <1>2, PTL DEF Spec

\* Whatever fails, and wherever the process dies between an upload and the write
\* of the cursors: a message below a cursor has been taken by the worker, or was
\* too large, or older than a first run looks (imap_bridge.py:72-192).
THEOREM CursorsPassTakenMail == Spec => []PassedWasTaken
<1>1. BridgeInvariant => PassedWasTaken
    BY DEF BridgeInvariant
<1> QED BY <1>1, BridgeKeepsInvariant, PTL
=============================================================================
