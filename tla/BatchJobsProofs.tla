--------------------------- MODULE BatchJobsProofs ---------------------------
(***************************************************************************)
(* Theorems about BatchJobs, for every number of jobs, items, addresses,   *)
(* faults and restarts.  IInv is inductive: one lemma for each of its      *)
(* parts shows that every action preserves it.  LoopInv and AliasInv are   *)
(* inductive on top of it: nearly every action is an InStep, and every     *)
(* action is Tracked, and these two shapes of a step preserve them.  The   *)
(* theorems at the end read the properties off the three invariants.       *)
(***************************************************************************)
EXTENDS BatchJobs, TLAPS

-----------------------------------------------------------------------------
(* Slots, and what the constructors of item rows return.                   *)

LEMMA SlotFacts ==
    /\ NoSlot \notin Slot
    /\ \A j \in Job, i \in Index : <<j, i>> \in Slot
    /\ \A s \in Slot : s \in Job \X (1 .. NumItems + 1) /\ s[1] \in Job
                       /\ <<s[1], s[2] + 1>> \in Job \X (1 .. NumItems + 1)
    /\ \A s \in Job \X (1 .. NumItems + 1) :
          s # NoSlot /\ s[1] \in Job /\ (s[2] <= NumItems => s \in Slot)
BY BoundsAssumption DEF NoSlot, Slot, Job, Index

LEMMA CandidateItemFacts ==
    ASSUME NEW r \in ItemRow, NEW c \in Addr \cup {NoAddr}, NEW f \in BOOLEAN
    PROVE  LET x == CandidateItem(r, c, f)
           IN  /\ x \in ItemRow
               /\ x.status = "queued"
               /\ x.cand = c
               /\ x.flag = f
               /\ x.alias = r.alias
BY DEF CandidateItem, StageOf, ItemRow, ItemStatus, Stage, Wait

LEMMA RetryItemFacts ==
    ASSUME NEW r \in ItemRow, NEW c \in Addr \cup {NoAddr}, NEW f \in BOOLEAN
    PROVE  LET x == RetryItem(r, c, f)
           IN  /\ x \in ItemRow
               /\ x.status = "queued"
               /\ x.cand = c
               /\ x.flag = f
               /\ x.alias = r.alias
<1> DEFINE y == CandidateItem(r, c, f)
           x == [y EXCEPT !.stage = IF f THEN "waiting_reconcile" ELSE "waiting_retry"]
<1>1. y \in ItemRow /\ y.status = "queued" /\ y.cand = c /\ y.flag = f /\ y.alias = r.alias
    BY CandidateItemFacts
<1> HIDE DEF y
<1>2. RetryItem(r, c, f) = [x EXCEPT !.wait = "transient_error"]
    BY DEF RetryItem, y
<1>3. x \in ItemRow /\ x.status = "queued" /\ x.cand = c /\ x.flag = f /\ x.alias = r.alias
    BY <1>1 DEF ItemRow, Stage
<1> HIDE DEF x
<1>4. QED BY <1>2, <1>3 DEF ItemRow, Wait

LEMMA LimitedItemFacts ==
    ASSUME NEW r \in ItemRow
    PROVE  /\ LimitedItem(r) \in ItemRow
           /\ LimitedItem(r).status = "queued"
           /\ LimitedItem(r).cand = NoAddr
<1> DEFINE y == CandidateItem(r, NoAddr, FALSE)
<1>1. y \in ItemRow /\ y.status = "queued" /\ y.cand = NoAddr
    BY CandidateItemFacts
<1> HIDE DEF y
<1>2. LimitedItem(r) = [y EXCEPT !.stage = "waiting_quota", !.wait = "rate_limited"]
    BY DEF LimitedItem, y
<1> QED BY <1>1, <1>2 DEF ItemRow, Stage, Wait

LEMMA CapacityItemFacts ==
    ASSUME NEW r \in ItemRow
    PROVE  /\ CapacityItem(r) \in ItemRow
           /\ CapacityItem(r).status = "queued"
           /\ CapacityItem(r).cand = NoAddr
<1> DEFINE y == CandidateItem(r, NoAddr, FALSE)
<1>1. y \in ItemRow /\ y.status = "queued" /\ y.cand = NoAddr
    BY CandidateItemFacts
<1> HIDE DEF y
<1>2. CapacityItem(r) = [y EXCEPT !.stage = "waiting_capacity", !.wait = "capacity_reached"]
    BY DEF CapacityItem, y
<1> QED BY <1>1, <1>2 DEF ItemRow, Stage, Wait

LEMMA ClearedItemFacts ==
    ASSUME NEW r \in ItemRow
    PROVE  /\ ClearedItem(r) \in ItemRow
           /\ ClearedItem(r).status = "queued"
           /\ ClearedItem(r).cand \in {r.cand, NoAddr}
           /\ ClearedItem(r).cand # NoAddr => ClearedItem(r).flag = r.flag
<1>1. r.cand \in Addr \cup {NoAddr} /\ r.flag \in BOOLEAN
    BY DEF ItemRow
<1>2. CASE r.wait = "rate_limited"
    BY <1>2, CandidateItemFacts DEF ClearedItem
<1>3. CASE r.wait # "rate_limited"
    BY <1>1, <1>3, CandidateItemFacts DEF ClearedItem
<1> QED BY <1>2, <1>3

LEMMA SettledFacts ==
    ASSUME NEW r \in ItemRow, NEW t \in {"failed", "unknown"}
    PROVE  /\ Settled(r, t) \in ItemRow
           /\ Settled(r, t).status = t
           /\ Settled(r, t).cand = r.cand
BY DEF Settled, ItemRow, ItemStatus, Stage

LEMMA InFlightFacts ==
    ASSUME NEW r \in ItemRow, NEW g \in {"generating", "reserving"}
    PROVE  /\ InFlight(r, g) \in ItemRow
           /\ InFlight(r, g).status = "running"
           /\ InFlight(r, g).stage = g
           /\ InFlight(r, g).cand = r.cand
BY DEF InFlight, ItemRow, ItemStatus, Stage

LEMMA ReconcilingFacts ==
    ASSUME NEW r \in ItemRow
    PROVE  /\ Reconciling(r) \in ItemRow
           /\ Reconciling(r).status = "queued"
           /\ Reconciling(r).cand = r.cand
           /\ Reconciling(r).flag = TRUE
BY DEF Reconciling, ItemRow, ItemStatus, Stage

LEMMA SucceededFacts ==
    ASSUME NEW a \in Addr
    PROVE  /\ Succeeded(a) \in ItemRow
           /\ Succeeded(a).status = "success"
           /\ Succeeded(a).cand = NoAddr
           /\ Succeeded(a).alias = a
BY DEF Succeeded, ItemRow, ItemStatus, Stage, Wait

LEMMA RecoveredItemFacts ==
    ASSUME NEW r \in ItemRow
    PROVE  LET x == RecoveredItem(r)
           IN  /\ x \in ItemRow
               /\ x.cand = r.cand
               /\ x.status # "running"
               /\ x.status = "success" => x = r
               /\ x.status = "queued" /\ ~x.flag /\ r.status = "running"
                    => r.stage = "generating"
               /\ x.status = "queued" /\ ~x.flag /\ r.status # "running" => x = r
<1>1. CASE r.status # "running"
    BY <1>1 DEF RecoveredItem
<1>2. CASE r.status = "running" /\ r.stage = "generating"
  <2>1. RecoveredItem(r) = [r EXCEPT !.status = "queued", !.stage = "queued"]
    BY <1>2 DEF RecoveredItem
  <2> QED BY <1>2, <2>1 DEF ItemRow, ItemStatus, Stage
<1>3. CASE r.status = "running" /\ r.stage # "generating" /\ r.cand # NoAddr
  <2>1. RecoveredItem(r) = Reconciling(r)
    BY <1>3 DEF RecoveredItem
  <2> QED BY <2>1, ReconcilingFacts
<1>4. CASE r.status = "running" /\ r.stage # "generating" /\ r.cand = NoAddr
  <2>1. RecoveredItem(r) = Settled(r, "unknown")
    BY <1>4 DEF RecoveredItem
  <2> QED BY <2>1, SettledFacts
<1> QED BY <1>1, <1>2, <1>3, <1>4

-----------------------------------------------------------------------------
(* Writing one row, and writing none.                                      *)

USE DEF Goto, SetJob, Write, Row, InRange, kept, apple, locals, rest, durable, volatile,
        history

\* A transaction that replaces the row the worker is at, without recording a
\* success and without introducing a candidate, keeps every row consistent if
\* the row it writes is.
LEMMA RowWrite ==
    ASSUME TypeOK, RowsOK, cur \in Slot, NEW x \in ItemRow,
           Write(x), UNCHANGED apple,
           x.status # "success",
           x.cand \in {Row.cand, NoAddr},
           x.status = "running" /\ x.stage = "generating" => x.cand = NoAddr,
           ~ListMayTruncate /\ x.status = "queued" /\ x.cand # NoAddr /\ ~x.flag
               => remote[x.cand] = NoSlot
    PROVE  RowsOK'
<1>1. /\ item \in [Slot -> ItemRow]
      /\ item' = [item EXCEPT ![cur] = x]
      /\ remote' = remote /\ local' = local /\ keyed' = keyed
    BY DEF TypeOK, DurableTypeOK
<1>2. item'[cur] = x /\ \A s \in Slot : s # cur => item'[s] = item[s]
    BY <1>1
<1>3. CandidatesOwned'
    BY <1>1, <1>2 DEF RowsOK, CandidatesOwned
<1>4. GeneratingHasNoCandidate'
    BY <1>1, <1>2 DEF RowsOK, GeneratingHasNoCandidate
<1>5. SuccessBacked'
    BY <1>1, <1>2 DEF RowsOK, SuccessBacked
<1>6. ~ListMayTruncate => UnflaggedIsFree'
    BY <1>1, <1>2 DEF RowsOK, UnflaggedIsFree
<1> QED BY <1>3, <1>4, <1>5, <1>6 DEF RowsOK

LEMMA RowsKept ==
    ASSUME RowsOK, UNCHANGED <<item, remote>>, local \subseteq local', keyed \subseteq keyed'
    PROVE  RowsOK'
BY DEF RowsOK, CandidatesOwned, GeneratingHasNoCandidate, SuccessBacked, UnflaggedIsFree

\* Apple may carry out the reserve request that is in flight: the row it is for
\* is running, so nobody takes its candidate for a free one.
LEMMA CreateKeepsRows ==
    ASSUME TypeOK, WorkerAt, RowsOK, pc = "reserve", AppleMayCreate,
           UNCHANGED <<item, local, keyed>>
    PROVE  RowsOK'
<1>1. /\ cur \in Slot /\ item \in [Slot -> ItemRow]
      /\ remote \in [Addr -> Slot \cup {NoSlot}]
      /\ item[cur].cand = cand /\ cand \in Addr /\ item[cur].status = "running"
    BY AddrAssumption DEF TypeOK, DurableTypeOK, VolatileTypeOK, WorkerAt,
       WorkerPlace, WorkerStatus, WorkerCandidate, HoldsCandidate
<1>2. /\ \A a \in Addr : a # cand => remote'[a] = remote[a]
      /\ remote[cand] # NoSlot => remote'[cand] = remote[cand]
      /\ remote'[cand] \in {remote[cand], cur}
    BY <1>1 DEF AppleMayCreate, AppleCreates
<1>3. \A s \in Slot : item[s].cand = cand => s = cur
    BY <1>1, AddrAssumption DEF RowsOK, CandidatesOwned
<1>4. \A s \in Slot : item[s].cand \in Addr \cup {NoAddr}
    BY <1>1 DEF ItemRow
<1>5. CandidatesOwned'
    BY <1>1, <1>2, <1>3, <1>4 DEF RowsOK, CandidatesOwned
<1>6. GeneratingHasNoCandidate'
    BY DEF RowsOK, GeneratingHasNoCandidate
<1>7. SuccessBacked'
  <2> SUFFICES ASSUME NEW s \in Slot, item[s].status = "success"
               PROVE  LET a == item[s].alias
                      IN  a \in local /\ a \in keyed /\ remote'[a] = s
      BY DEF SuccessBacked
  <2>1. item[s].alias \in local /\ item[s].alias \in keyed /\ remote[item[s].alias] = s
      BY DEF RowsOK, SuccessBacked
  <2>2. item[s].alias \in Addr
      BY <2>1 DEF TypeOK, DurableTypeOK
  <2> QED BY <1>2, <2>1, <2>2, SlotFacts
<1>8. ~ListMayTruncate => UnflaggedIsFree'
    BY <1>1, <1>2, <1>3, <1>4 DEF RowsOK, UnflaggedIsFree
<1> QED BY <1>5, <1>6, <1>7, <1>8 DEF RowsOK

\* Parking the row for a retry, with its candidate flagged or dropped.
LEMMA RetryRows ==
    ASSUME TypeOK, RowsOK, cur \in Slot, NEW c, c \in {Row.cand, NoAddr},
           NEW f \in BOOLEAN, NEW l, Retry(c, f, l), c # NoAddr => f
    PROVE  RowsOK'
<1>1. Row \in ItemRow /\ c \in Addr \cup {NoAddr}
    BY DEF TypeOK, DurableTypeOK, ItemRow
<1> DEFINE x == RetryItem(Row, c, f)
<1>2. x \in ItemRow /\ x.status = "queued" /\ x.cand = c /\ x.flag = f
    BY <1>1, RetryItemFacts
<1>3. item' = [item EXCEPT ![cur] = x] /\ UNCHANGED apple
    BY DEF Retry, Pause
<1> HIDE DEF x
<1> QED BY <1>2, <1>3, RowWrite

\* The stop handler flags every candidate for which a reserve may have been
\* sent; in the prelude it drops the candidate, which leaves the row consistent
\* although the alias it may have created is forgotten.
LEMMA StopRows ==
    ASSUME TypeOK, WorkerAt, RowsOK, StopItem,
           pc \in {"prelude", "snapshot", "fence", "resnap"}
    PROVE  RowsOK'
<1> DEFINE f == cand # NoAddr /\ (attempted \/ Row.flag)
           x == CandidateItem(Row, cand, f)
<1>1. cur \in Slot /\ Row \in ItemRow /\ cand \in Addr \cup {NoAddr} /\ f \in BOOLEAN
    BY DEF TypeOK, DurableTypeOK, VolatileTypeOK, FlagTypeOK, WorkerAt, WorkerPlace
<1>2. item' = [item EXCEPT ![cur] = x] /\ UNCHANGED apple
    BY DEF StopItem, StopKept
<1>3. x \in ItemRow /\ x.status = "queued" /\ x.cand = cand /\ x.flag = f
    BY <1>1, CandidateItemFacts
<1>4. cand \in {Row.cand, NoAddr}
    BY DEF WorkerAt, WorkerCandidate, HoldsCandidate
<1>5. ~ListMayTruncate /\ cand # NoAddr /\ ~f => remote[cand] = NoSlot
  <2>1. CASE pc \in {"prelude", "snapshot", "resnap"}
      BY <2>1 DEF WorkerAt, WorkerCandidate, WorkerFlag, HoldsCandidate
  <2>2. CASE pc = "fence"
    <3>1. Row.status = "queued" /\ ~Row.flag /\ Row.cand = cand
        BY <2>2 DEF WorkerAt, WorkerStatus, WorkerCandidate, WorkerFlag, HoldsCandidate
    <3> QED BY <1>1, <3>1 DEF RowsOK, UnflaggedIsFree
  <2> QED BY <2>1, <2>2
<1> HIDE DEF x, f
<1> QED BY <1>1, <1>2, <1>3, <1>4, <1>5, RowWrite

LEMMA ClearWaitRows ==
    ASSUME TypeOK, WorkerAt, RowsOK, ClearWait
    PROVE  RowsOK'
<1> DEFINE x == ClearedItem(Row)
<1>1. cur \in Slot /\ Row \in ItemRow /\ Row.status = "queued"
    BY DEF ClearWait, TypeOK, DurableTypeOK, WorkerAt, WorkerPlace, WorkerStatus
<1>2. item' = [item EXCEPT ![cur] = x] /\ UNCHANGED apple
    BY DEF ClearWait
<1>3. /\ x \in ItemRow /\ x.status = "queued" /\ x.cand \in {Row.cand, NoAddr}
      /\ x.cand # NoAddr => x.flag = Row.flag
    BY <1>1, ClearedItemFacts
<1>4. ~ListMayTruncate /\ x.cand # NoAddr /\ ~x.flag => remote[x.cand] = NoSlot
    BY <1>1, <1>3 DEF RowsOK, UnflaggedIsFree
<1> HIDE DEF x
<1> QED BY <1>1, <1>2, <1>3, <1>4, RowWrite

LEMMA BeginGenerateRows ==
    ASSUME TypeOK, WorkerAt, RowsOK, BeginGenerate
    PROVE  RowsOK'
<1> DEFINE x == InFlight(Row, "generating")
<1>1. cur \in Slot /\ Row \in ItemRow /\ Row.cand = NoAddr
    BY DEF BeginGenerate, TypeOK, DurableTypeOK, WorkerAt, WorkerPlace, WorkerCandidate
<1>2. item' = [item EXCEPT ![cur] = x] /\ UNCHANGED apple
    BY DEF BeginGenerate
<1>3. x \in ItemRow /\ x.status = "running" /\ x.cand = NoAddr
    BY <1>1, InFlightFacts
<1> HIDE DEF x
<1> QED BY <1>1, <1>2, <1>3, RowWrite

\* Apple only suggests an address that is nobody's, so ownership is kept.
LEMMA GenerateOkRows ==
    ASSUME TypeOK, WorkerAt, RowsOK, NEW a \in Addr, GenerateOk(a)
    PROVE  RowsOK'
<1> DEFINE x == CandidateItem(Row, a, FALSE)
<1>1. cur \in Slot /\ item \in [Slot -> ItemRow] /\ Row \in ItemRow
    BY DEF GenerateOk, TypeOK, DurableTypeOK, WorkerAt, WorkerPlace
<1>2. item' = [item EXCEPT ![cur] = x] /\ UNCHANGED apple
    BY DEF GenerateOk
<1>3. x \in ItemRow /\ x.status = "queued" /\ x.cand = a
    BY <1>1, CandidateItemFacts
<1>4. item'[cur] = x /\ \A s \in Slot : s # cur => item'[s] = item[s]
    BY <1>1, <1>2
<1>5. remote[a] = NoSlot /\ \A s \in Slot : item[s].cand # a
    BY DEF GenerateOk, Fresh
<1> HIDE DEF x
<1>6. CandidatesOwned'
    BY <1>2, <1>3, <1>4, <1>5 DEF RowsOK, CandidatesOwned
<1>7. GeneratingHasNoCandidate'
    BY <1>3, <1>4 DEF RowsOK, GeneratingHasNoCandidate
<1>8. SuccessBacked'
    BY <1>2, <1>3, <1>4 DEF RowsOK, SuccessBacked
<1>9. ~ListMayTruncate => UnflaggedIsFree'
    BY <1>2, <1>3, <1>4, <1>5 DEF RowsOK, UnflaggedIsFree
<1> QED BY <1>6, <1>7, <1>8, <1>9 DEF RowsOK

\* A complete list that misses the candidate proves that it is free.
LEMMA SnapshotAbsentRows ==
    ASSUME TypeOK, WorkerAt, RowsOK, NEW listed \in AppleLists, SnapshotAbsent(listed)
    PROVE  RowsOK'
<1> DEFINE x == CandidateItem(Row, cand, FALSE)
<1>1. cur \in Slot /\ Row \in ItemRow /\ cand \in Addr /\ Row.cand = cand
    BY DEF SnapshotAbsent, TypeOK, DurableTypeOK, VolatileTypeOK, WorkerAt,
       WorkerPlace, WorkerCandidate, HoldsCandidate
<1>2. item' = [item EXCEPT ![cur] = x] /\ UNCHANGED apple
    BY DEF SnapshotAbsent
<1>3. x \in ItemRow /\ x.status = "queued" /\ x.cand = cand
    BY <1>1, CandidateItemFacts
<1>4. ~ListMayTruncate => remote[cand] = NoSlot
    BY <1>1 DEF SnapshotAbsent, Absent, AppleLists
<1> HIDE DEF x
<1> QED BY <1>1, <1>2, <1>3, <1>4, RowWrite

LEMMA RecordSuccessRows ==
    ASSUME TypeOK, WorkerAt, RowsOK, RecordSuccess
    PROVE  RowsOK'
<1> DEFINE x == Succeeded(cand)
<1>1. /\ cur \in Slot /\ item \in [Slot -> ItemRow] /\ cand \in Addr
      /\ remote[cand] = cur /\ cand \in local /\ cand \in keyed
    BY DEF RecordSuccess, TypeOK, DurableTypeOK, VolatileTypeOK, WorkerAt,
       WorkerPlace, WorkerCandidate, WorkerAlias, HoldsCandidate
<1>2. item' = [item EXCEPT ![cur] = x] /\ UNCHANGED apple
    BY DEF RecordSuccess
<1>3. x.status = "success" /\ x.cand = NoAddr /\ x.alias = cand
    BY <1>1, SucceededFacts
<1>4. item'[cur] = x /\ \A s \in Slot : s # cur => item'[s] = item[s]
    BY <1>1, <1>2
<1> HIDE DEF x
<1>5. CandidatesOwned'
    BY <1>2, <1>3, <1>4 DEF RowsOK, CandidatesOwned
<1>6. GeneratingHasNoCandidate'
    BY <1>3, <1>4 DEF RowsOK, GeneratingHasNoCandidate
<1>7. SuccessBacked'
    BY <1>1, <1>2, <1>3, <1>4 DEF RowsOK, SuccessBacked
<1>8. ~ListMayTruncate => UnflaggedIsFree'
    BY <1>2, <1>3, <1>4 DEF RowsOK, UnflaggedIsFree
<1> QED BY <1>5, <1>6, <1>7, <1>8 DEF RowsOK

\* Recovery requeues an interrupted row unflagged only if it was generating, and
\* such a row has no candidate.
LEMMA StartRows ==
    ASSUME TypeOK, RowsOK, Start
    PROVE  RowsOK'
<1>1. item \in [Slot -> ItemRow] /\ UNCHANGED apple
    BY DEF Start, TypeOK, DurableTypeOK
<1>2. \A s \in Slot : item[s] \in ItemRow /\ item'[s] = RecoveredItem(item[s])
    BY <1>1 DEF Start
<1>3. \A s \in Slot : item'[s].cand = item[s].cand
    BY <1>2, RecoveredItemFacts
<1>4. CandidatesOwned'
    BY <1>1, <1>3 DEF RowsOK, CandidatesOwned
<1>5. GeneratingHasNoCandidate'
    BY <1>2, RecoveredItemFacts DEF GeneratingHasNoCandidate
<1>6. SuccessBacked'
    BY <1>1, <1>2, RecoveredItemFacts DEF RowsOK, SuccessBacked
<1>7. ~ListMayTruncate => UnflaggedIsFree'
  <2> SUFFICES ASSUME ~ListMayTruncate, NEW s \in Slot, item'[s].status = "queued",
                      item'[s].cand # NoAddr, ~item'[s].flag
               PROVE  remote[item'[s].cand] = NoSlot
      BY <1>1 DEF UnflaggedIsFree
  <2>1. item[s].status # "running"
      BY <1>2, <1>3, RecoveredItemFacts DEF RowsOK, GeneratingHasNoCandidate
  <2>2. item'[s] = item[s]
      BY <1>2, <2>1 DEF RecoveredItem
  <2> QED BY <2>2 DEF RowsOK, UnflaggedIsFree
<1> QED BY <1>4, <1>5, <1>6, <1>7 DEF RowsOK

LEMMA ResumeRows ==
    ASSUME TypeOK, RowsOK, NEW j \in Job, Resume(j)
    PROVE  RowsOK'
<1>1. item \in [Slot -> ItemRow] /\ UNCHANGED apple
    BY DEF Resume, TypeOK, DurableTypeOK
<1>2. \A s \in Slot : /\ item[s] \in ItemRow
                      /\ item'[s] \in {item[s], Reconciling(item[s])}
    BY <1>1 DEF Resume
<1>3. \A s \in Slot : item'[s].cand = item[s].cand
    BY <1>2, ReconcilingFacts
<1>4. CandidatesOwned'
    BY <1>1, <1>3 DEF RowsOK, CandidatesOwned
<1>5. GeneratingHasNoCandidate'
    BY <1>2, ReconcilingFacts DEF RowsOK, GeneratingHasNoCandidate
<1>6. SuccessBacked'
    BY <1>1, <1>2, ReconcilingFacts DEF RowsOK, SuccessBacked
<1>7. ~ListMayTruncate => UnflaggedIsFree'
    BY <1>1, <1>2, ReconcilingFacts DEF RowsOK, UnflaggedIsFree
<1> QED BY <1>4, <1>5, <1>6, <1>7 DEF RowsOK

-----------------------------------------------------------------------------
(* Types.                                                                  *)

LEMMA RowWriteTypes ==
    ASSUME DurableTypeOK, NEW x \in ItemRow, Write(x), UNCHANGED <<job, apple>>
    PROVE  DurableTypeOK'
BY DEF DurableTypeOK

LEMMA RetryTypes ==
    ASSUME DurableTypeOK, cur \in Slot, NEW c \in Addr \cup {NoAddr},
           NEW f \in BOOLEAN, NEW l, Retry(c, f, l)
    PROVE  DurableTypeOK'
<1>1. Row \in ItemRow
    BY DEF DurableTypeOK
<1> QED BY <1>1, RetryItemFacts, RowWriteTypes DEF Retry, Pause

LEMMA StopTypes ==
    ASSUME TypeOK, cur \in Slot, StopItem
    PROVE  DurableTypeOK'
<1> DEFINE f == cand # NoAddr /\ (attempted \/ Row.flag)
<1>1. Row \in ItemRow /\ cand \in Addr \cup {NoAddr} /\ f \in BOOLEAN
    BY DEF TypeOK, DurableTypeOK, VolatileTypeOK, FlagTypeOK
<1>2. Write(CandidateItem(Row, cand, f)) /\ UNCHANGED <<job, apple>>
    BY DEF StopItem, StopKept
<1> HIDE DEF f
<1> QED BY <1>1, <1>2, CandidateItemFacts, RowWriteTypes DEF TypeOK

LEMMA GenerateOkTypes ==
    ASSUME TypeOK, cur \in Slot, NEW a \in Addr, GenerateOk(a)
    PROVE  DurableTypeOK'
<1>1. Row \in ItemRow
    BY DEF TypeOK, DurableTypeOK
<1> QED BY <1>1, CandidateItemFacts, RowWriteTypes DEF GenerateOk, TypeOK

LEMMA SnapshotAbsentTypes ==
    ASSUME TypeOK, cur \in Slot, NEW listed, SnapshotAbsent(listed)
    PROVE  DurableTypeOK'
<1>1. Row \in ItemRow /\ cand \in Addr \cup {NoAddr}
    BY DEF TypeOK, DurableTypeOK, VolatileTypeOK
<1> QED BY <1>1, CandidateItemFacts, RowWriteTypes DEF SnapshotAbsent, TypeOK

LEMMA ResumeTypes ==
    ASSUME DurableTypeOK, NEW j \in Job, Resume(j)
    PROVE  DurableTypeOK'
<1>1. item' \in [Slot -> ItemRow]
  <2>1. \A s \in Slot : item[s] \in ItemRow /\ Reconciling(item[s]) \in ItemRow
      BY ReconcilingFacts DEF DurableTypeOK
  <2> QED BY <2>1 DEF Resume
<1>2. job' \in [Job -> JobStatus]
    BY DEF DurableTypeOK, Resume, JobStatus
<1> QED BY <1>1, <1>2 DEF DurableTypeOK, Resume

-----------------------------------------------------------------------------
(* Where the worker stands: the steps that need more than their own text.  *)

LEMMA GenerateOkPlace ==
    ASSUME TypeOK, WorkerAt, NEW a \in Addr, GenerateOk(a)
    PROVE  WorkerAt'
<1> DEFINE x == CandidateItem(Row, a, FALSE)
<1>1. cur \in Slot /\ item \in [Slot -> ItemRow] /\ Row \in ItemRow
    BY DEF GenerateOk, TypeOK, DurableTypeOK, WorkerAt, WorkerPlace
<1>2. x.status = "queued" /\ x.cand = a /\ x.flag = FALSE
    BY <1>1, CandidateItemFacts
<1>3. item'[cur] = x /\ cur' = cur /\ cand' = a /\ pc' = "fence"
    BY <1>1 DEF GenerateOk
<1> HIDE DEF x
<1> QED BY <1>1, <1>2, <1>3, SlotFacts, AddrAssumption
        DEF WorkerAt, WorkerPlace, WorkerStatus, WorkerCandidate, WorkerFlag,
            WorkerAlias, HoldsCandidate

LEMMA SnapshotAbsentPlace ==
    ASSUME TypeOK, WorkerAt, NEW listed, SnapshotAbsent(listed)
    PROVE  WorkerAt'
<1> DEFINE x == CandidateItem(Row, cand, FALSE)
<1>1. /\ cur \in Slot /\ item \in [Slot -> ItemRow] /\ Row \in ItemRow
      /\ cand \in Addr /\ cand # NoAddr
    BY DEF SnapshotAbsent, TypeOK, DurableTypeOK, VolatileTypeOK, WorkerAt,
       WorkerPlace, WorkerCandidate, HoldsCandidate
<1>2. x.status = "queued" /\ x.cand = cand /\ x.flag = FALSE
    BY <1>1, CandidateItemFacts
<1>3. item'[cur] = x /\ cur' = cur /\ cand' = cand /\ pc' = "fence"
    BY <1>1 DEF SnapshotAbsent
<1> HIDE DEF x
<1> QED BY <1>1, <1>2, <1>3, SlotFacts
        DEF WorkerAt, WorkerPlace, WorkerStatus, WorkerCandidate, WorkerFlag,
            WorkerAlias, HoldsCandidate

\* A listed candidate was created by the row that holds it.
LEMMA FoundPlace ==
    ASSUME TypeOK, WorkerAt, RowsOK, pc \in {"snapshot", "resnap"},
           NEW listed \in AppleLists, Found(listed), Complete
    PROVE  WorkerAt'
<1>1. cur \in Slot /\ Row.cand = cand /\ cand # NoAddr
    BY DEF WorkerAt, WorkerPlace, WorkerCandidate, HoldsCandidate
<1>2. remote[cand] # NoSlot
  <2>1. listed \subseteq {a \in Addr : remote[a] # NoSlot}
      BY DEF AppleLists
  <2> QED BY <2>1 DEF Found
<1>3. remote[cand] = cur
    BY <1>1, <1>2 DEF RowsOK, CandidatesOwned
<1> QED BY <1>1, <1>3, SlotFacts
        DEF Complete, WorkerAt, WorkerPlace, WorkerStatus, WorkerCandidate,
            WorkerFlag, WorkerAlias, HoldsCandidate

\* Resume flags unknown rows; it neither moves the worker nor drops a candidate.
LEMMA ResumePlace ==
    ASSUME TypeOK, WorkerAt, NEW j \in Job, Resume(j)
    PROVE  WorkerAt'
<1>1. UNCHANGED <<pc, cur, cand, attempted, remote, local, keyed>>
    BY DEF Resume
<1>2. CASE cur \in Slot
  <2>1. item \in [Slot -> ItemRow] /\ item[cur] \in ItemRow
      BY <1>2 DEF TypeOK, DurableTypeOK
  <2>2. \/ item'[cur] = item[cur]
        \/ item[cur].status = "unknown" /\ item'[cur] = Reconciling(item[cur])
      BY <1>2 DEF Resume
  <2>3. CASE item'[cur] = item[cur]
      BY <1>1, <2>3 DEF WorkerAt, WorkerPlace, WorkerStatus, WorkerCandidate,
         WorkerFlag, WorkerAlias, HoldsCandidate
  <2>4. CASE item[cur].status = "unknown" /\ item'[cur] = Reconciling(item[cur])
    <3>1. item'[cur].cand = item[cur].cand /\ item'[cur].flag = TRUE
        BY <2>1, <2>4, ReconcilingFacts
    <3>2. pc \notin {"expired", "waiting", "prelude", "fence", "reserve"}
        BY <2>4 DEF WorkerAt, WorkerStatus
    <3> QED BY <1>1, <3>1, <3>2 DEF WorkerAt, WorkerPlace, WorkerStatus,
            WorkerCandidate, WorkerFlag, WorkerAlias, HoldsCandidate
  <2> QED BY <2>2, <2>3, <2>4
<1>3. CASE cur \notin Slot
    BY <1>1, <1>3 DEF WorkerAt, WorkerPlace, WorkerStatus, WorkerCandidate,
       WorkerFlag, WorkerAlias, HoldsCandidate
<1> QED BY <1>2, <1>3

LEMMA FirstSlot == \A j \in Job : <<j, 1>> \in Slot
BY BoundsAssumption DEF Slot, Job, Index

LEMMA PreludeDoneTypes ==
    ASSUME TypeOK, WorkerAt, PreludeDone
    PROVE  VolatileTypeOK'
<1>1. cur \in Slot /\ Row \in ItemRow
    BY DEF PreludeDone, TypeOK, DurableTypeOK, WorkerAt, WorkerPlace
<1>2. cand' \in Addr \cup {NoAddr}
    BY <1>1 DEF PreludeDone, ItemRow
<1>3. pc' \in PcState
    BY DEF PreludeDone, PcState
<1>4. UNCHANGED <<cur, faults, restarts>>
    BY DEF PreludeDone
<1> QED BY <1>2, <1>3, <1>4 DEF TypeOK, VolatileTypeOK

LEMMA FailTypes ==
    ASSUME DurableTypeOK, cur \in Slot, FailItem
    PROVE  DurableTypeOK'
<1>1. Row \in ItemRow
    BY DEF DurableTypeOK
<1>2. CASE UNCHANGED item
    BY <1>2 DEF FailItem, DurableTypeOK
<1>3. CASE Write(Settled(Row, "failed"))
    BY <1>1, <1>3, SettledFacts, RowWriteTypes DEF FailItem
<1> QED BY <1>2, <1>3 DEF FailItem

\* Giving a row up as failed keeps its candidate, and the row is never retried.
LEMMA FailRows ==
    ASSUME TypeOK, RowsOK, cur \in Slot, FailItem
    PROVE  RowsOK'
<1>1. Row \in ItemRow
    BY DEF TypeOK, DurableTypeOK
<1>2. CASE UNCHANGED item
    BY <1>2, RowsKept DEF FailItem
<1>3. CASE Write(Settled(Row, "failed"))
    BY <1>1, <1>3, SettledFacts, RowWrite DEF FailItem
<1> QED BY <1>2, <1>3 DEF FailItem

\* In the prelude no candidate is loaded yet, so none is flagged.
LEMMA PreludeUnreachableRetry ==
    ASSUME WorkerAt, PreludeUnreachable
    PROVE  Retry(NoAddr, FALSE, "parkJob") /\ pc = "prelude"
<1>1. pc = "prelude" /\ cand = NoAddr
    BY DEF PreludeUnreachable, PreludeDrops, WorkerAt, WorkerCandidate
<1>2. (cand # NoAddr /\ Row.flag) = FALSE
    BY <1>1
<1>3. Retry(cand, cand # NoAddr /\ Row.flag, "parkJob")
    BY DEF PreludeUnreachable, PreludeDrops
<1> QED BY <1>1, <1>2, <1>3

-----------------------------------------------------------------------------
(* Every step preserves every part of IInv.                               *)

LEMMA FlagTypeStep ==
    ASSUME TypeOK, Next
    PROVE  FlagTypeOK'
<1>1. CASE Start
    BY <1>1, RecoveredItemFacts DEF Start, RecoveredJob, TypeOK, FlagTypeOK
<1>2. CASE Loop
    BY <1>2, ClearedItemFacts DEF Loop, Claim, Exit, StopAtScan, Requeue, SkipSettled,
       Advance, WaitForResume, WaitExpired, WaitStopped, WaitOver, ClearWait, RunItem,
       Finish, Successes, PauseJob, PauseAudit, PauseFull, ParkJob, Halt, NextItem, TypeOK, FlagTypeOK
<1>3. CASE Prelude
    BY <1>3, CandidateItemFacts, RetryItemFacts, SettledFacts, InFlightFacts DEF
       Prelude, PreludeDone, PreludeStopped, PreludeDrops, StopItem, StopKept, PreludeUnreachable, Adverse,
       Retry, Pause, PreludeBusy, FailItem, BeginGenerate, TypeOK, FlagTypeOK
<1>4. CASE Generate
    BY <1>4, CandidateItemFacts, RetryItemFacts, LimitedItemFacts, CapacityItemFacts,
       SettledFacts DEF Generate, GenerateOk, Fresh, GenerateFull, Adverse,
       PauseForCapacity, GenerateLimited, PauseForRateLimit, GenerateUnreachable, Retry, Pause,
       GenerateFails, FailItem, TypeOK, FlagTypeOK
<1>5. CASE Snapshot
    BY <1>5, CandidateItemFacts, RetryItemFacts DEF Snapshot, AppleLists, SnapshotFound,
       Found, Complete, SnapshotAbsent, Absent, ResnapFound, ResnapAbsent, Retry, Pause,
       SnapshotUnavailable, Adverse, SnapshotStopped, StopItem, StopKept, ResnapUnavailable,
       ResnapStopped, TypeOK, FlagTypeOK
<1>6. CASE Reserve
    BY <1>6, CandidateItemFacts, LimitedItemFacts, CapacityItemFacts, InFlightFacts DEF
       Reserve, FenceStopped, StopItem, StopKept, BeginReserve, ReserveOk, AppleCreates,
       ReserveLost, ReserveFails, Adverse, AppleMayCreate, ReserveRejected, ReserveFull,
       PauseForCapacity, ReserveLimited, PauseForRateLimit, TypeOK, FlagTypeOK
<1>7. CASE Completion
    BY <1>7, SettledFacts, SucceededFacts DEF Completion, UpsertAlias, IssueKey,
       RecordSuccess, Audit, UnexpectedError, Adverse, AppleMayCreate, AppleCreates,
       MarkUnknown, MarkFailed, FailItem, WorkerFailsSafely, TypeOK, FlagTypeOK
<1>8. CASE Environment
    BY <1>8, ReconcilingFacts DEF Environment, RequestStop, Interrupt, Crash,
       AppleMayCreate, AppleCreates, AppleLists, SyncAliases, Fenced, Submit, Resume,
       Reconcilable, UnknownItems, TypeOK, FlagTypeOK
<1> QED BY <1>1, <1>2, <1>3, <1>4, <1>5, <1>6, <1>7, <1>8 DEF Next, Worker

LEMMA HistoryTypeStep ==
    ASSUME TypeOK, Next
    PROVE  HistoryTypeOK'
<1>1. CASE Start \/ Environment
    BY <1>1 DEF Start, Environment, RequestStop, Crash, SyncAliases, Submit, Resume,
       TypeOK, HistoryTypeOK
<1>2. CASE Loop
    BY <1>2 DEF Loop, Claim, Exit, StopAtScan, Requeue, SkipSettled, Advance,
       WaitForResume, WaitExpired, WaitStopped, WaitOver, ClearWait, RunItem, Finish,
       PauseJob, PauseAudit, PauseFull, ParkJob, Halt, NextItem, TypeOK, HistoryTypeOK
<1>3. CASE Prelude
    BY <1>3 DEF Prelude, PreludeDone, PreludeStopped, PreludeDrops, StopItem,
       PreludeUnreachable, Retry, PreludeBusy, FailItem, BeginGenerate, TypeOK,
       HistoryTypeOK
<1>4. CASE Generate
    BY <1>4 DEF Generate, GenerateOk, GenerateFull, PauseForCapacity, GenerateLimited,
       PauseForRateLimit, GenerateUnreachable, Retry, GenerateFails, FailItem, TypeOK,
       HistoryTypeOK
<1>5. CASE Snapshot
    BY <1>5 DEF Snapshot, SnapshotFound, Complete, SnapshotAbsent, ResnapFound,
       ResnapAbsent, Retry, Pause, SnapshotUnavailable, SnapshotStopped, StopItem,
       StopKept, ResnapUnavailable, ResnapStopped, TypeOK, HistoryTypeOK
<1>6. CASE Reserve
    BY <1>6 DEF Reserve, FenceStopped, StopItem, StopKept, BeginReserve, ReserveOk,
       ReserveLost, ReserveFails, ReserveRejected, ReserveFull, PauseForCapacity,
       ReserveLimited, PauseForRateLimit, TypeOK, HistoryTypeOK
<1>7. CASE Completion
    BY <1>7 DEF Completion, UpsertAlias, IssueKey, RecordSuccess, Audit,
       UnexpectedError, MarkUnknown, MarkFailed, FailItem, WorkerFailsSafely, TypeOK,
       HistoryTypeOK
<1> QED BY <1>1, <1>2, <1>3, <1>4, <1>5, <1>6, <1>7 DEF Next, Worker

LEMMA VolatileTypeStep ==
    ASSUME TypeOK, WorkerAt, Next
    PROVE  VolatileTypeOK'
<1>1. CASE Start
    BY <1>1 DEF Start, TypeOK, VolatileTypeOK, PcState
<1>2. CASE Loop
  <2>1. ASSUME NEW j \in Job, Claim(j) PROVE VolatileTypeOK'
      BY <2>1, SlotFacts, FirstSlot DEF Claim, TypeOK, VolatileTypeOK, PcState
  <2>2. CASE Exit
      BY <2>2, SlotFacts DEF Exit, TypeOK, VolatileTypeOK, DurableTypeOK, PcState,
         WorkerAt, WorkerPlace
  <2>3. CASE StopAtScan
      BY <2>3, SlotFacts DEF StopAtScan, Requeue, TypeOK, VolatileTypeOK, DurableTypeOK,
         PcState, WorkerAt, WorkerPlace
  <2>4. CASE SkipSettled
      BY <2>4, SlotFacts DEF SkipSettled, Advance, TypeOK, VolatileTypeOK,
         DurableTypeOK, PcState, WorkerAt, WorkerPlace
  <2>5. CASE WaitForResume
      BY <2>5, SlotFacts DEF WaitForResume, TypeOK, VolatileTypeOK, DurableTypeOK,
         PcState, WorkerAt, WorkerPlace
  <2>6. CASE WaitExpired
      BY <2>6, SlotFacts DEF WaitExpired, TypeOK, VolatileTypeOK, DurableTypeOK,
         PcState, WorkerAt, WorkerPlace
  <2>7. CASE WaitStopped
      BY <2>7, SlotFacts DEF WaitStopped, Requeue, TypeOK, VolatileTypeOK,
         DurableTypeOK, PcState, WorkerAt, WorkerPlace
  <2>8. CASE WaitOver
      BY <2>8, SlotFacts DEF WaitOver, TypeOK, VolatileTypeOK, DurableTypeOK, PcState,
         WorkerAt, WorkerPlace
  <2>9. CASE ClearWait
      BY <2>9, SlotFacts, ClearedItemFacts DEF ClearWait, TypeOK, VolatileTypeOK,
         DurableTypeOK, PcState, WorkerAt, WorkerPlace
  <2>10. CASE RunItem
      BY <2>10, SlotFacts DEF RunItem, TypeOK, VolatileTypeOK, DurableTypeOK, PcState,
         WorkerAt, WorkerPlace
  <2>11. CASE Finish
      BY <2>11, SlotFacts DEF Finish, Successes, TypeOK, VolatileTypeOK, DurableTypeOK,
         PcState, WorkerAt, WorkerPlace
  <2>12. CASE PauseJob \/ PauseAudit \/ PauseFull \/ ParkJob
      BY <2>12, SlotFacts DEF PauseJob, PauseAudit, PauseFull, ParkJob, TypeOK, VolatileTypeOK, DurableTypeOK, PcState,
         WorkerAt, WorkerPlace
  <2>13. CASE Halt
      BY <2>13, SlotFacts DEF Halt, TypeOK, VolatileTypeOK, DurableTypeOK, PcState,
         WorkerAt, WorkerPlace
  <2>14. CASE NextItem
      BY <2>14, SlotFacts DEF NextItem, Requeue, Advance, TypeOK, VolatileTypeOK,
         DurableTypeOK, PcState, WorkerAt, WorkerPlace
  <2> QED BY <1>2, <2>1, <2>2, <2>3, <2>4, <2>5, <2>6, <2>7, <2>8, <2>9, <2>10, <2>11,
     <2>12, <2>13, <2>14 DEF Loop
<1>3. CASE Prelude
  <2>1. CASE PreludeDone
      BY <2>1, PreludeDoneTypes
  <2>2. CASE PreludeStopped
      BY <2>2, SlotFacts, CandidateItemFacts DEF PreludeStopped, PreludeDrops, StopItem, StopKept, TypeOK,
         VolatileTypeOK, DurableTypeOK, PcState, WorkerAt, WorkerPlace
  <2>3. CASE PreludeUnreachable
      BY <2>3, SlotFacts, RetryItemFacts DEF PreludeUnreachable, PreludeDrops, Adverse, Retry, Pause, TypeOK,
         VolatileTypeOK, DurableTypeOK, PcState, WorkerAt, WorkerPlace
  <2>4. CASE PreludeBusy
      BY <2>4, SlotFacts, SettledFacts DEF PreludeBusy, Adverse, FailItem, TypeOK,
         VolatileTypeOK, DurableTypeOK, PcState, WorkerAt, WorkerPlace
  <2>5. CASE BeginGenerate
      BY <2>5, SlotFacts, InFlightFacts DEF BeginGenerate, TypeOK, VolatileTypeOK,
         DurableTypeOK, PcState, WorkerAt, WorkerPlace
  <2> QED BY <1>3, <2>1, <2>2, <2>3, <2>4, <2>5 DEF Prelude
<1>4. CASE Generate
  <2>1. ASSUME NEW a \in Addr, GenerateOk(a) PROVE VolatileTypeOK'
      BY <2>1, SlotFacts, CandidateItemFacts DEF GenerateOk, Fresh, TypeOK,
         VolatileTypeOK, DurableTypeOK, PcState, WorkerAt, WorkerPlace
  <2>2. CASE GenerateFull
      BY <2>2, SlotFacts, CapacityItemFacts DEF GenerateFull, Adverse, PauseForCapacity,
         TypeOK, VolatileTypeOK, DurableTypeOK, PcState, WorkerAt, WorkerPlace
  <2>3. CASE GenerateLimited
      BY <2>3, SlotFacts, LimitedItemFacts DEF GenerateLimited, Adverse,
         PauseForRateLimit, TypeOK, VolatileTypeOK, DurableTypeOK, PcState, WorkerAt,
         WorkerPlace
  <2>4. CASE GenerateUnreachable
      BY <2>4, SlotFacts, RetryItemFacts DEF GenerateUnreachable, Adverse, Retry, Pause,
         TypeOK, VolatileTypeOK, DurableTypeOK, PcState, WorkerAt, WorkerPlace
  <2>5. CASE GenerateFails
      BY <2>5, SlotFacts, SettledFacts DEF GenerateFails, Adverse, FailItem, TypeOK,
         VolatileTypeOK, DurableTypeOK, PcState, WorkerAt, WorkerPlace
  <2> QED BY <1>4, <2>1, <2>2, <2>3, <2>4, <2>5 DEF Generate
<1>5. CASE Snapshot
  <2>1. ASSUME NEW listed \in AppleLists, SnapshotFound(listed) PROVE VolatileTypeOK'
      BY <2>1, SlotFacts DEF SnapshotFound, Found, Complete, AppleLists, TypeOK,
         VolatileTypeOK, DurableTypeOK, PcState, WorkerAt, WorkerPlace
  <2>2. ASSUME NEW listed \in AppleLists, SnapshotAbsent(listed) PROVE VolatileTypeOK'
      BY <2>2, SlotFacts, CandidateItemFacts DEF SnapshotAbsent, Absent, AppleLists,
         TypeOK, VolatileTypeOK, DurableTypeOK, PcState, WorkerAt, WorkerPlace
  <2>3. ASSUME NEW listed \in AppleLists, ResnapFound(listed) PROVE VolatileTypeOK'
      BY <2>3, SlotFacts DEF ResnapFound, Found, Complete, AppleLists, TypeOK,
         VolatileTypeOK, DurableTypeOK, PcState, WorkerAt, WorkerPlace
  <2>4. ASSUME NEW listed \in AppleLists, ResnapAbsent(listed) PROVE VolatileTypeOK'
      BY <2>4, SlotFacts, RetryItemFacts DEF ResnapAbsent, Absent, Retry, Pause, AppleLists,
         TypeOK, VolatileTypeOK, DurableTypeOK, PcState, WorkerAt, WorkerPlace
  <2>5. CASE SnapshotUnavailable
      BY <2>5, SlotFacts, RetryItemFacts DEF SnapshotUnavailable, Adverse, Retry, Pause,
         TypeOK, VolatileTypeOK, DurableTypeOK, PcState, WorkerAt, WorkerPlace
  <2>6. CASE SnapshotStopped
      BY <2>6, SlotFacts, CandidateItemFacts DEF SnapshotStopped, StopItem, StopKept, TypeOK,
         VolatileTypeOK, DurableTypeOK, PcState, WorkerAt, WorkerPlace
  <2>7. CASE ResnapUnavailable
      BY <2>7, SlotFacts, RetryItemFacts DEF ResnapUnavailable, Adverse, Retry, Pause, TypeOK,
         VolatileTypeOK, DurableTypeOK, PcState, WorkerAt, WorkerPlace
  <2>8. CASE ResnapStopped
      BY <2>8, SlotFacts, CandidateItemFacts DEF ResnapStopped, StopItem, StopKept, TypeOK,
         VolatileTypeOK, DurableTypeOK, PcState, WorkerAt, WorkerPlace
  <2> QED BY <1>5, <2>1, <2>2, <2>3, <2>4, <2>5, <2>6, <2>7, <2>8 DEF Snapshot
<1>6. CASE Reserve
    BY <1>6, SlotFacts, CandidateItemFacts, LimitedItemFacts, CapacityItemFacts,
       InFlightFacts DEF Reserve, FenceStopped, StopItem, StopKept, BeginReserve, ReserveOk,
       AppleCreates, ReserveLost, ReserveFails, Adverse, AppleMayCreate,
       ReserveRejected, ReserveFull, PauseForCapacity, ReserveLimited,
       PauseForRateLimit, TypeOK, VolatileTypeOK, DurableTypeOK, PcState, WorkerAt,
       WorkerPlace
<1>7. CASE Completion
    BY <1>7, SlotFacts, SettledFacts, SucceededFacts DEF Completion, UpsertAlias,
       IssueKey, RecordSuccess, Audit, UnexpectedError, Adverse, AppleMayCreate,
       AppleCreates, MarkUnknown, MarkFailed, FailItem, WorkerFailsSafely, TypeOK,
       VolatileTypeOK, DurableTypeOK, PcState, WorkerAt, WorkerPlace
<1>8. CASE Environment
    BY <1>8, SlotFacts, ReconcilingFacts DEF Environment, RequestStop, Interrupt, Crash,
       AppleMayCreate, AppleCreates, AppleLists, SyncAliases, Fenced, Submit, Resume,
       Reconcilable, UnknownItems, TypeOK, VolatileTypeOK, DurableTypeOK, PcState,
       WorkerAt, WorkerPlace
<1> QED BY <1>1, <1>2, <1>3, <1>4, <1>5, <1>6, <1>7, <1>8 DEF Next, Worker

LEMMA DurableTypeStep ==
    ASSUME TypeOK, WorkerAt, Next
    PROVE  DurableTypeOK'
<1>1. CASE Start
    BY <1>1, SlotFacts, RecoveredItemFacts DEF Start, RecoveredJob, TypeOK,
       DurableTypeOK, VolatileTypeOK, JobStatus, WorkerAt, WorkerPlace
<1>2. CASE Loop
    BY <1>2, SlotFacts, ClearedItemFacts DEF Loop, Claim, Exit, StopAtScan, Requeue,
       SkipSettled, Advance, WaitForResume, WaitExpired, WaitStopped, WaitOver,
       ClearWait, RunItem, Finish, Successes, PauseJob, PauseAudit, PauseFull, ParkJob, Halt, NextItem, TypeOK,
       DurableTypeOK, VolatileTypeOK, JobStatus, WorkerAt, WorkerPlace
<1>3. CASE Prelude
  <2>1. CASE PreludeDone
      BY <2>1, SlotFacts DEF PreludeDone, TypeOK, DurableTypeOK, VolatileTypeOK,
         JobStatus, WorkerAt, WorkerPlace
  <2>2. CASE PreludeStopped
      BY <2>2, StopTypes DEF PreludeStopped, PreludeDrops, WorkerAt, WorkerPlace
  <2>3. CASE PreludeUnreachable
      BY <2>3, PreludeUnreachableRetry, RetryTypes DEF TypeOK, PreludeUnreachable,
         WorkerAt, WorkerPlace
  <2>4. CASE PreludeBusy
      BY <2>4, SlotFacts, SettledFacts DEF PreludeBusy, Adverse, FailItem, TypeOK,
         DurableTypeOK, VolatileTypeOK, JobStatus, WorkerAt, WorkerPlace
  <2>5. CASE BeginGenerate
      BY <2>5, SlotFacts, InFlightFacts DEF BeginGenerate, TypeOK, DurableTypeOK,
         VolatileTypeOK, JobStatus, WorkerAt, WorkerPlace
  <2> QED BY <1>3, <2>1, <2>2, <2>3, <2>4, <2>5 DEF Prelude
<1>4. CASE Generate
  <2>1. ASSUME NEW a \in Addr, GenerateOk(a) PROVE DurableTypeOK'
      BY <2>1, GenerateOkTypes DEF GenerateOk, WorkerAt, WorkerPlace
  <2>2. CASE GenerateFull
      BY <2>2, SlotFacts, CapacityItemFacts DEF GenerateFull, Adverse, PauseForCapacity,
         TypeOK, DurableTypeOK, VolatileTypeOK, JobStatus, WorkerAt, WorkerPlace
  <2>3. CASE GenerateLimited
      BY <2>3, SlotFacts, LimitedItemFacts DEF GenerateLimited, Adverse,
         PauseForRateLimit, TypeOK, DurableTypeOK, VolatileTypeOK, JobStatus, WorkerAt,
         WorkerPlace
  <2>4. CASE GenerateUnreachable
      BY <2>4, RetryTypes DEF GenerateUnreachable, TypeOK, WorkerAt, WorkerPlace
  <2>5. CASE GenerateFails
      BY <2>5, SlotFacts, SettledFacts DEF GenerateFails, Adverse, FailItem, TypeOK,
         DurableTypeOK, VolatileTypeOK, JobStatus, WorkerAt, WorkerPlace
  <2> QED BY <1>4, <2>1, <2>2, <2>3, <2>4, <2>5 DEF Generate
<1>5. CASE Snapshot
  <2>1. ASSUME NEW listed \in AppleLists, SnapshotFound(listed) PROVE DurableTypeOK'
      BY <2>1, SlotFacts DEF SnapshotFound, Found, Complete, AppleLists, TypeOK,
         DurableTypeOK, VolatileTypeOK, JobStatus, WorkerAt, WorkerPlace
  <2>2. ASSUME NEW listed \in AppleLists, SnapshotAbsent(listed) PROVE DurableTypeOK'
      BY <2>2, SnapshotAbsentTypes DEF SnapshotAbsent, WorkerAt, WorkerPlace
  <2>3. ASSUME NEW listed \in AppleLists, ResnapFound(listed) PROVE DurableTypeOK'
      BY <2>3, SlotFacts DEF ResnapFound, Found, Complete, AppleLists, TypeOK,
         DurableTypeOK, VolatileTypeOK, JobStatus, WorkerAt, WorkerPlace
  <2>4. ASSUME NEW listed \in AppleLists, ResnapAbsent(listed) PROVE DurableTypeOK'
      BY <2>4, RetryTypes DEF ResnapAbsent, Pause, TypeOK, VolatileTypeOK, WorkerAt,
         WorkerPlace
  <2>5. CASE SnapshotUnavailable
      BY <2>5, RetryTypes DEF SnapshotUnavailable, Pause, TypeOK, VolatileTypeOK, WorkerAt,
         WorkerPlace
  <2>6. CASE SnapshotStopped
      BY <2>6, StopTypes DEF SnapshotStopped, StopKept, WorkerAt, WorkerPlace
  <2>7. CASE ResnapUnavailable
      BY <2>7, RetryTypes DEF ResnapUnavailable, Pause, TypeOK, VolatileTypeOK, WorkerAt,
         WorkerPlace
  <2>8. CASE ResnapStopped
      BY <2>8, StopTypes DEF ResnapStopped, StopKept, WorkerAt, WorkerPlace
  <2> QED BY <1>5, <2>1, <2>2, <2>3, <2>4, <2>5, <2>6, <2>7, <2>8 DEF Snapshot
<1>6. CASE Reserve
  <2>1. CASE FenceStopped
      BY <2>1, StopTypes DEF FenceStopped, StopKept, WorkerAt, WorkerPlace
  <2>2. CASE BeginReserve
      BY <2>2, SlotFacts, InFlightFacts DEF BeginReserve, TypeOK, DurableTypeOK,
         VolatileTypeOK, JobStatus, WorkerAt, WorkerPlace
  <2>3. CASE ReserveOk
      BY <2>3, SlotFacts DEF ReserveOk, AppleCreates, TypeOK, DurableTypeOK,
         VolatileTypeOK, JobStatus, WorkerAt, WorkerPlace
  <2>4. CASE ReserveLost
      BY <2>4, SlotFacts DEF ReserveLost, ReserveFails, Adverse, AppleMayCreate,
         AppleCreates, TypeOK, DurableTypeOK, VolatileTypeOK, JobStatus, WorkerAt,
         WorkerPlace
  <2>5. CASE ReserveRejected
      BY <2>5, SlotFacts DEF ReserveRejected, ReserveFails, Adverse, AppleMayCreate,
         AppleCreates, TypeOK, DurableTypeOK, VolatileTypeOK, JobStatus, WorkerAt,
         WorkerPlace
  <2>6. CASE ReserveFull
      BY <2>6, SlotFacts, CapacityItemFacts DEF ReserveFull, Adverse, PauseForCapacity,
         TypeOK, DurableTypeOK, VolatileTypeOK, JobStatus, WorkerAt, WorkerPlace
  <2>7. CASE ReserveLimited
      BY <2>7, SlotFacts, LimitedItemFacts DEF ReserveLimited, Adverse,
         PauseForRateLimit, TypeOK, DurableTypeOK, VolatileTypeOK, JobStatus, WorkerAt,
         WorkerPlace
  <2> QED BY <1>6, <2>1, <2>2, <2>3, <2>4, <2>5, <2>6, <2>7 DEF Reserve
<1>7. CASE Completion
  <2>1. CASE UpsertAlias
      BY <2>1, AddrAssumption DEF UpsertAlias, TypeOK, DurableTypeOK, VolatileTypeOK,
         WorkerAt, WorkerCandidate, HoldsCandidate
  <2>2. CASE IssueKey
      BY <2>2, AddrAssumption DEF IssueKey, TypeOK, DurableTypeOK, VolatileTypeOK,
         WorkerAt, WorkerCandidate, HoldsCandidate
  <2>3. CASE RecordSuccess
      BY <2>3, SucceededFacts, AddrAssumption DEF RecordSuccess, TypeOK, DurableTypeOK,
         VolatileTypeOK, WorkerAt, WorkerPlace, WorkerCandidate, HoldsCandidate
  <2>4. CASE Audit
      BY <2>4, SlotFacts DEF Audit, TypeOK, DurableTypeOK, VolatileTypeOK, JobStatus,
         WorkerAt, WorkerPlace
  <2>5. CASE UnexpectedError
      BY <2>5, SlotFacts DEF UnexpectedError, Adverse, AppleMayCreate, AppleCreates,
         TypeOK, DurableTypeOK, VolatileTypeOK, JobStatus, WorkerAt, WorkerPlace
  <2>6. CASE MarkUnknown
      BY <2>6, SlotFacts, SettledFacts DEF MarkUnknown, TypeOK, DurableTypeOK,
         VolatileTypeOK, JobStatus, WorkerAt, WorkerPlace
  <2>7. CASE MarkFailed
      BY <2>7, FailTypes DEF MarkFailed, TypeOK, WorkerAt, WorkerPlace
  <2>8. CASE WorkerFailsSafely
      BY <2>8, SlotFacts DEF WorkerFailsSafely, Adverse, TypeOK, DurableTypeOK,
         VolatileTypeOK, JobStatus, WorkerAt, WorkerPlace
  <2> QED BY <1>7, <2>1, <2>2, <2>3, <2>4, <2>5, <2>6, <2>7, <2>8 DEF Completion
<1>8. CASE Environment
  <2>1. CASE RequestStop
      BY <2>1, SlotFacts DEF RequestStop, Interrupt, TypeOK, DurableTypeOK,
         VolatileTypeOK, JobStatus, WorkerAt, WorkerPlace
  <2>2. CASE Crash
      BY <2>2, SlotFacts DEF Crash, Interrupt, AppleMayCreate, AppleCreates, TypeOK,
         DurableTypeOK, VolatileTypeOK, JobStatus, WorkerAt, WorkerPlace
  <2>3. ASSUME NEW listed \in AppleLists, SyncAliases(listed) PROVE DurableTypeOK'
      BY <2>3, SlotFacts DEF SyncAliases, Fenced, AppleLists, TypeOK, DurableTypeOK,
         VolatileTypeOK, JobStatus, WorkerAt, WorkerPlace
  <2>4. ASSUME NEW j \in Job, Submit(j) PROVE DurableTypeOK'
      BY <2>4, SlotFacts DEF Submit, TypeOK, DurableTypeOK, VolatileTypeOK, JobStatus,
         WorkerAt, WorkerPlace
  <2>5. ASSUME NEW j \in Job, Resume(j) PROVE DurableTypeOK'
      BY <2>5, ResumeTypes DEF TypeOK
  <2> QED BY <1>8, <2>1, <2>2, <2>3, <2>4, <2>5 DEF Environment
<1> QED BY <1>1, <1>2, <1>3, <1>4, <1>5, <1>6, <1>7, <1>8 DEF Next, Worker

LEMMA PlaceStep ==
    ASSUME TypeOK, WorkerAt, RowsOK, Next
    PROVE  WorkerAt'
<1>1. CASE Start
    BY <1>1 DEF Start, WorkerAt, WorkerPlace, WorkerStatus, WorkerCandidate, WorkerFlag,
       WorkerAlias, HoldsCandidate
<1>2. CASE Loop
  <2>1. ASSUME NEW j \in Job, Claim(j) PROVE WorkerAt'
      BY <2>1, SlotFacts, FirstSlot DEF Claim, WorkerAt, WorkerPlace, WorkerStatus,
         WorkerCandidate, WorkerFlag, WorkerAlias, HoldsCandidate
  <2>2. CASE Exit
      BY <2>2, SlotFacts, AddrAssumption DEF Exit, TypeOK, DurableTypeOK,
         VolatileTypeOK, WorkerAt, WorkerPlace, WorkerStatus, WorkerCandidate,
         WorkerFlag, WorkerAlias, HoldsCandidate
  <2>3. CASE StopAtScan
      BY <2>3, SlotFacts, AddrAssumption DEF StopAtScan, Requeue, TypeOK, DurableTypeOK,
         VolatileTypeOK, WorkerAt, WorkerPlace, WorkerStatus, WorkerCandidate,
         WorkerFlag, WorkerAlias, HoldsCandidate
  <2>4. CASE SkipSettled
      BY <2>4, SlotFacts, AddrAssumption DEF SkipSettled, Advance, TypeOK,
         DurableTypeOK, VolatileTypeOK, WorkerAt, WorkerPlace, WorkerStatus,
         WorkerCandidate, WorkerFlag, WorkerAlias, HoldsCandidate
  <2>5. CASE WaitForResume
      BY <2>5, SlotFacts, AddrAssumption DEF WaitForResume, TypeOK, DurableTypeOK,
         VolatileTypeOK, WorkerAt, WorkerPlace, WorkerStatus, WorkerCandidate,
         WorkerFlag, WorkerAlias, HoldsCandidate
  <2>6. CASE WaitExpired
      BY <2>6, SlotFacts, AddrAssumption DEF WaitExpired, TypeOK, DurableTypeOK,
         VolatileTypeOK, WorkerAt, WorkerPlace, WorkerStatus, WorkerCandidate,
         WorkerFlag, WorkerAlias, HoldsCandidate
  <2>7. CASE WaitStopped
      BY <2>7, SlotFacts, AddrAssumption DEF WaitStopped, Requeue, TypeOK,
         DurableTypeOK, VolatileTypeOK, WorkerAt, WorkerPlace, WorkerStatus,
         WorkerCandidate, WorkerFlag, WorkerAlias, HoldsCandidate
  <2>8. CASE WaitOver
      BY <2>8, SlotFacts, AddrAssumption DEF WaitOver, TypeOK, DurableTypeOK,
         VolatileTypeOK, WorkerAt, WorkerPlace, WorkerStatus, WorkerCandidate,
         WorkerFlag, WorkerAlias, HoldsCandidate
  <2>9. CASE ClearWait
      BY <2>9, SlotFacts, AddrAssumption, ClearedItemFacts DEF ClearWait, TypeOK,
         DurableTypeOK, VolatileTypeOK, WorkerAt, WorkerPlace, WorkerStatus,
         WorkerCandidate, WorkerFlag, WorkerAlias, HoldsCandidate
  <2>10. CASE RunItem
      BY <2>10, SlotFacts, AddrAssumption DEF RunItem, TypeOK, DurableTypeOK,
         VolatileTypeOK, WorkerAt, WorkerPlace, WorkerStatus, WorkerCandidate,
         WorkerFlag, WorkerAlias, HoldsCandidate
  <2>11. CASE Finish
      BY <2>11, SlotFacts, AddrAssumption DEF Finish, Successes, TypeOK, DurableTypeOK,
         VolatileTypeOK, WorkerAt, WorkerPlace, WorkerStatus, WorkerCandidate,
         WorkerFlag, WorkerAlias, HoldsCandidate
  <2>12. CASE PauseJob \/ PauseAudit \/ PauseFull \/ ParkJob
      BY <2>12, SlotFacts, AddrAssumption DEF PauseJob, PauseAudit, PauseFull, ParkJob, TypeOK, DurableTypeOK,
         VolatileTypeOK, WorkerAt, WorkerPlace, WorkerStatus, WorkerCandidate,
         WorkerFlag, WorkerAlias, HoldsCandidate
  <2>13. CASE Halt
      BY <2>13, SlotFacts, AddrAssumption DEF Halt, TypeOK, DurableTypeOK,
         VolatileTypeOK, WorkerAt, WorkerPlace, WorkerStatus, WorkerCandidate,
         WorkerFlag, WorkerAlias, HoldsCandidate
  <2>14. CASE NextItem
      BY <2>14, SlotFacts, AddrAssumption DEF NextItem, Requeue, Advance, TypeOK,
         DurableTypeOK, VolatileTypeOK, WorkerAt, WorkerPlace, WorkerStatus,
         WorkerCandidate, WorkerFlag, WorkerAlias, HoldsCandidate
  <2> QED BY <1>2, <2>1, <2>2, <2>3, <2>4, <2>5, <2>6, <2>7, <2>8, <2>9, <2>10, <2>11,
     <2>12, <2>13, <2>14 DEF Loop
<1>3. CASE Prelude
  <2>1. CASE PreludeDone
      BY <2>1, SlotFacts, AddrAssumption DEF PreludeDone, TypeOK, DurableTypeOK,
         VolatileTypeOK, WorkerAt, WorkerPlace, WorkerStatus, WorkerCandidate,
         WorkerFlag, WorkerAlias, HoldsCandidate
  <2>2. CASE PreludeStopped
      BY <2>2, SlotFacts, AddrAssumption, CandidateItemFacts DEF PreludeStopped, PreludeDrops,
         StopItem, StopKept, TypeOK, DurableTypeOK, VolatileTypeOK, WorkerAt, WorkerPlace,
         WorkerStatus, WorkerCandidate, WorkerFlag, WorkerAlias, HoldsCandidate
  <2>3. CASE PreludeUnreachable
      BY <2>3, SlotFacts, AddrAssumption, RetryItemFacts DEF PreludeUnreachable, PreludeDrops,
         Adverse, Retry, Pause, TypeOK, DurableTypeOK, VolatileTypeOK, WorkerAt, WorkerPlace,
         WorkerStatus, WorkerCandidate, WorkerFlag, WorkerAlias, HoldsCandidate
  <2>4. CASE PreludeBusy
      BY <2>4, SlotFacts, AddrAssumption, SettledFacts DEF PreludeBusy, Adverse,
         FailItem, TypeOK, DurableTypeOK, VolatileTypeOK, WorkerAt, WorkerPlace,
         WorkerStatus, WorkerCandidate, WorkerFlag, WorkerAlias, HoldsCandidate
  <2>5. CASE BeginGenerate
      BY <2>5, SlotFacts, AddrAssumption, InFlightFacts DEF BeginGenerate, TypeOK,
         DurableTypeOK, VolatileTypeOK, WorkerAt, WorkerPlace, WorkerStatus,
         WorkerCandidate, WorkerFlag, WorkerAlias, HoldsCandidate
  <2> QED BY <1>3, <2>1, <2>2, <2>3, <2>4, <2>5 DEF Prelude
<1>4. CASE Generate
  <2>1. ASSUME NEW a \in Addr, GenerateOk(a) PROVE WorkerAt'
      BY <2>1, GenerateOkPlace
  <2>2. CASE GenerateFull
      BY <2>2, SlotFacts, AddrAssumption, CapacityItemFacts DEF GenerateFull, Adverse,
         PauseForCapacity, TypeOK, DurableTypeOK, VolatileTypeOK, WorkerAt, WorkerPlace,
         WorkerStatus, WorkerCandidate, WorkerFlag, WorkerAlias, HoldsCandidate
  <2>3. CASE GenerateLimited
      BY <2>3, SlotFacts, AddrAssumption, LimitedItemFacts DEF GenerateLimited, Adverse,
         PauseForRateLimit, TypeOK, DurableTypeOK, VolatileTypeOK, WorkerAt,
         WorkerPlace, WorkerStatus, WorkerCandidate, WorkerFlag, WorkerAlias,
         HoldsCandidate
  <2>4. CASE GenerateUnreachable
      BY <2>4, SlotFacts, AddrAssumption, RetryItemFacts DEF GenerateUnreachable,
         Adverse, Retry, Pause, TypeOK, DurableTypeOK, VolatileTypeOK, WorkerAt, WorkerPlace,
         WorkerStatus, WorkerCandidate, WorkerFlag, WorkerAlias, HoldsCandidate
  <2>5. CASE GenerateFails
      BY <2>5, SlotFacts, AddrAssumption, SettledFacts DEF GenerateFails, Adverse,
         FailItem, TypeOK, DurableTypeOK, VolatileTypeOK, WorkerAt, WorkerPlace,
         WorkerStatus, WorkerCandidate, WorkerFlag, WorkerAlias, HoldsCandidate
  <2> QED BY <1>4, <2>1, <2>2, <2>3, <2>4, <2>5 DEF Generate
<1>5. CASE Snapshot
  <2>1. ASSUME NEW listed \in AppleLists, SnapshotFound(listed) PROVE WorkerAt'
      BY <2>1, FoundPlace DEF SnapshotFound
  <2>2. ASSUME NEW listed \in AppleLists, SnapshotAbsent(listed) PROVE WorkerAt'
      BY <2>2, SnapshotAbsentPlace
  <2>3. ASSUME NEW listed \in AppleLists, ResnapFound(listed) PROVE WorkerAt'
      BY <2>3, FoundPlace DEF ResnapFound
  <2>4. ASSUME NEW listed \in AppleLists, ResnapAbsent(listed) PROVE WorkerAt'
      BY <2>4, SlotFacts, AddrAssumption, RetryItemFacts DEF ResnapAbsent, Absent,
         Retry, Pause, AppleLists, TypeOK, DurableTypeOK, VolatileTypeOK, WorkerAt,
         WorkerPlace, WorkerStatus, WorkerCandidate, WorkerFlag, WorkerAlias,
         HoldsCandidate
  <2>5. CASE SnapshotUnavailable
      BY <2>5, SlotFacts, AddrAssumption, RetryItemFacts DEF SnapshotUnavailable,
         Adverse, Retry, Pause, TypeOK, DurableTypeOK, VolatileTypeOK, WorkerAt, WorkerPlace,
         WorkerStatus, WorkerCandidate, WorkerFlag, WorkerAlias, HoldsCandidate
  <2>6. CASE SnapshotStopped
      BY <2>6, SlotFacts, AddrAssumption, CandidateItemFacts DEF SnapshotStopped,
         StopItem, StopKept, TypeOK, DurableTypeOK, VolatileTypeOK, WorkerAt, WorkerPlace,
         WorkerStatus, WorkerCandidate, WorkerFlag, WorkerAlias, HoldsCandidate
  <2>7. CASE ResnapUnavailable
      BY <2>7, SlotFacts, AddrAssumption, RetryItemFacts DEF ResnapUnavailable, Adverse,
         Retry, Pause, TypeOK, DurableTypeOK, VolatileTypeOK, WorkerAt, WorkerPlace,
         WorkerStatus, WorkerCandidate, WorkerFlag, WorkerAlias, HoldsCandidate
  <2>8. CASE ResnapStopped
      BY <2>8, SlotFacts, AddrAssumption, CandidateItemFacts DEF ResnapStopped,
         StopItem, StopKept, TypeOK, DurableTypeOK, VolatileTypeOK, WorkerAt, WorkerPlace,
         WorkerStatus, WorkerCandidate, WorkerFlag, WorkerAlias, HoldsCandidate
  <2> QED BY <1>5, <2>1, <2>2, <2>3, <2>4, <2>5, <2>6, <2>7, <2>8 DEF Snapshot
<1>6. CASE Reserve
  <2>1. CASE FenceStopped
      BY <2>1, SlotFacts, AddrAssumption, CandidateItemFacts DEF FenceStopped, StopItem, StopKept,
         TypeOK, DurableTypeOK, VolatileTypeOK, WorkerAt, WorkerPlace, WorkerStatus,
         WorkerCandidate, WorkerFlag, WorkerAlias, HoldsCandidate
  <2>2. CASE BeginReserve
      BY <2>2, SlotFacts, AddrAssumption, InFlightFacts DEF BeginReserve, TypeOK,
         DurableTypeOK, VolatileTypeOK, WorkerAt, WorkerPlace, WorkerStatus,
         WorkerCandidate, WorkerFlag, WorkerAlias, HoldsCandidate
  <2>3. CASE ReserveOk
      BY <2>3, SlotFacts, AddrAssumption DEF ReserveOk, AppleCreates, TypeOK,
         DurableTypeOK, VolatileTypeOK, WorkerAt, WorkerPlace, WorkerStatus,
         WorkerCandidate, WorkerFlag, WorkerAlias, HoldsCandidate
  <2>4. CASE ReserveLost
      BY <2>4, SlotFacts, AddrAssumption DEF ReserveLost, ReserveFails, Adverse,
         AppleMayCreate, AppleCreates, TypeOK, DurableTypeOK, VolatileTypeOK, WorkerAt,
         WorkerPlace, WorkerStatus, WorkerCandidate, WorkerFlag, WorkerAlias,
         HoldsCandidate
  <2>5. CASE ReserveRejected
      BY <2>5, SlotFacts, AddrAssumption DEF ReserveRejected, ReserveFails, Adverse,
         AppleMayCreate, AppleCreates, TypeOK, DurableTypeOK, VolatileTypeOK, WorkerAt,
         WorkerPlace, WorkerStatus, WorkerCandidate, WorkerFlag, WorkerAlias,
         HoldsCandidate
  <2>6. CASE ReserveFull
      BY <2>6, SlotFacts, AddrAssumption, CapacityItemFacts DEF ReserveFull, Adverse,
         PauseForCapacity, TypeOK, DurableTypeOK, VolatileTypeOK, WorkerAt, WorkerPlace,
         WorkerStatus, WorkerCandidate, WorkerFlag, WorkerAlias, HoldsCandidate
  <2>7. CASE ReserveLimited
      BY <2>7, SlotFacts, AddrAssumption, LimitedItemFacts DEF ReserveLimited, Adverse,
         PauseForRateLimit, TypeOK, DurableTypeOK, VolatileTypeOK, WorkerAt,
         WorkerPlace, WorkerStatus, WorkerCandidate, WorkerFlag, WorkerAlias,
         HoldsCandidate
  <2> QED BY <1>6, <2>1, <2>2, <2>3, <2>4, <2>5, <2>6, <2>7 DEF Reserve
<1>7. CASE Completion
  <2>1. CASE UpsertAlias
      BY <2>1, SlotFacts, AddrAssumption DEF UpsertAlias, TypeOK, DurableTypeOK,
         VolatileTypeOK, WorkerAt, WorkerPlace, WorkerStatus, WorkerCandidate,
         WorkerFlag, WorkerAlias, HoldsCandidate
  <2>2. CASE IssueKey
      BY <2>2, SlotFacts, AddrAssumption DEF IssueKey, TypeOK, DurableTypeOK,
         VolatileTypeOK, WorkerAt, WorkerPlace, WorkerStatus, WorkerCandidate,
         WorkerFlag, WorkerAlias, HoldsCandidate
  <2>3. CASE RecordSuccess
      BY <2>3, SlotFacts, AddrAssumption, SucceededFacts DEF RecordSuccess, TypeOK,
         DurableTypeOK, VolatileTypeOK, WorkerAt, WorkerPlace, WorkerStatus,
         WorkerCandidate, WorkerFlag, WorkerAlias, HoldsCandidate
  <2>4. CASE Audit
      BY <2>4, SlotFacts, AddrAssumption DEF Audit, TypeOK, DurableTypeOK,
         VolatileTypeOK, WorkerAt, WorkerPlace, WorkerStatus, WorkerCandidate,
         WorkerFlag, WorkerAlias, HoldsCandidate
  <2>5. CASE UnexpectedError
      BY <2>5, SlotFacts, AddrAssumption DEF UnexpectedError, Adverse, AppleMayCreate,
         AppleCreates, TypeOK, DurableTypeOK, VolatileTypeOK, WorkerAt, WorkerPlace,
         WorkerStatus, WorkerCandidate, WorkerFlag, WorkerAlias, HoldsCandidate
  <2>6. CASE MarkUnknown
      BY <2>6, SlotFacts, AddrAssumption, SettledFacts DEF MarkUnknown, TypeOK,
         DurableTypeOK, VolatileTypeOK, WorkerAt, WorkerPlace, WorkerStatus,
         WorkerCandidate, WorkerFlag, WorkerAlias, HoldsCandidate
  <2>7. CASE MarkFailed
      BY <2>7, SlotFacts, AddrAssumption, SettledFacts DEF MarkFailed, FailItem, TypeOK,
         DurableTypeOK, VolatileTypeOK, WorkerAt, WorkerPlace, WorkerStatus,
         WorkerCandidate, WorkerFlag, WorkerAlias, HoldsCandidate
  <2>8. CASE WorkerFailsSafely
      BY <2>8, SlotFacts, AddrAssumption DEF WorkerFailsSafely, Adverse, TypeOK,
         DurableTypeOK, VolatileTypeOK, WorkerAt, WorkerPlace, WorkerStatus,
         WorkerCandidate, WorkerFlag, WorkerAlias, HoldsCandidate
  <2> QED BY <1>7, <2>1, <2>2, <2>3, <2>4, <2>5, <2>6, <2>7, <2>8 DEF Completion
<1>8. CASE Environment
  <2>1. CASE RequestStop
      BY <2>1, SlotFacts, AddrAssumption DEF RequestStop, Interrupt, TypeOK,
         DurableTypeOK, VolatileTypeOK, WorkerAt, WorkerPlace, WorkerStatus,
         WorkerCandidate, WorkerFlag, WorkerAlias, HoldsCandidate
  <2>2. CASE Crash
      BY <2>2, SlotFacts, AddrAssumption DEF Crash, Interrupt, AppleMayCreate,
         AppleCreates, TypeOK, DurableTypeOK, VolatileTypeOK, WorkerAt, WorkerPlace,
         WorkerStatus, WorkerCandidate, WorkerFlag, WorkerAlias, HoldsCandidate
  <2>3. ASSUME NEW listed \in AppleLists, SyncAliases(listed) PROVE WorkerAt'
      BY <2>3, SlotFacts, AddrAssumption DEF SyncAliases, Fenced, AppleLists, TypeOK,
         DurableTypeOK, VolatileTypeOK, WorkerAt, WorkerPlace, WorkerStatus,
         WorkerCandidate, WorkerFlag, WorkerAlias, HoldsCandidate
  <2>4. ASSUME NEW j \in Job, Submit(j) PROVE WorkerAt'
      BY <2>4, SlotFacts, AddrAssumption DEF Submit, TypeOK, DurableTypeOK,
         VolatileTypeOK, WorkerAt, WorkerPlace, WorkerStatus, WorkerCandidate,
         WorkerFlag, WorkerAlias, HoldsCandidate
  <2>5. ASSUME NEW j \in Job, Resume(j) PROVE WorkerAt'
      BY <2>5, ResumePlace
  <2> QED BY <1>8, <2>1, <2>2, <2>3, <2>4, <2>5 DEF Environment
<1> QED BY <1>1, <1>2, <1>3, <1>4, <1>5, <1>6, <1>7, <1>8 DEF Next, Worker

LEMMA RowsStep ==
    ASSUME TypeOK, WorkerAt, RowsOK, Next
    PROVE  RowsOK'
<1>1. CASE Start
    BY <1>1, StartRows
<1>2. CASE Loop
  <2>1. ASSUME NEW j \in Job, Claim(j) PROVE RowsOK'
      BY <2>1, RowsKept DEF Claim
  <2>2. CASE Exit
      BY <2>2, RowsKept DEF Exit
  <2>3. CASE StopAtScan
      BY <2>3, RowsKept DEF StopAtScan, Requeue
  <2>4. CASE SkipSettled
      BY <2>4, RowsKept DEF SkipSettled, Advance
  <2>5. CASE WaitForResume
      BY <2>5, RowsKept DEF WaitForResume
  <2>6. CASE WaitExpired
      BY <2>6, RowsKept DEF WaitExpired
  <2>7. CASE WaitStopped
      BY <2>7, RowsKept DEF WaitStopped, Requeue
  <2>8. CASE WaitOver
      BY <2>8, RowsKept DEF WaitOver
  <2>9. CASE ClearWait
      BY <2>9, ClearWaitRows
  <2>10. CASE RunItem
      BY <2>10, RowsKept DEF RunItem
  <2>11. CASE Finish
      BY <2>11, RowsKept DEF Finish
  <2>12. CASE PauseJob \/ PauseAudit \/ PauseFull \/ ParkJob
      BY <2>12, RowsKept DEF PauseJob, PauseAudit, PauseFull, ParkJob
  <2>13. CASE Halt
      BY <2>13, RowsKept DEF Halt
  <2>14. CASE NextItem
      BY <2>14, RowsKept DEF NextItem, Requeue, Advance
  <2> QED BY <1>2, <2>1, <2>2, <2>3, <2>4, <2>5, <2>6, <2>7, <2>8, <2>9, <2>10, <2>11,
     <2>12, <2>13, <2>14 DEF Loop
<1>3. CASE Prelude
  <2>1. CASE PreludeDone
      BY <2>1, RowsKept DEF PreludeDone
  <2>2. CASE PreludeStopped
      BY <2>2, StopRows DEF PreludeStopped, PreludeDrops
  <2>3. CASE PreludeUnreachable
      BY <2>3, PreludeUnreachableRetry, RetryRows DEF PreludeUnreachable, PreludeDrops, WorkerAt,
         WorkerPlace
  <2>4. CASE PreludeBusy
      BY <2>4, FailRows DEF PreludeBusy, WorkerAt, WorkerPlace
  <2>5. CASE BeginGenerate
      BY <2>5, BeginGenerateRows
  <2> QED BY <1>3, <2>1, <2>2, <2>3, <2>4, <2>5 DEF Prelude
<1>4. CASE Generate
  <2>1. ASSUME NEW a \in Addr, GenerateOk(a) PROVE RowsOK'
      BY <2>1, GenerateOkRows
  <2>2. CASE GenerateFull
      BY <2>2, RowWrite, CapacityItemFacts DEF GenerateFull, Adverse, PauseForCapacity,
         TypeOK, DurableTypeOK, WorkerAt, WorkerPlace, WorkerCandidate, WorkerStatus,
         WorkerFlag, HoldsCandidate
  <2>3. CASE GenerateLimited
      BY <2>3, RowWrite, LimitedItemFacts DEF GenerateLimited, Adverse,
         PauseForRateLimit, TypeOK, DurableTypeOK, WorkerAt, WorkerPlace,
         WorkerCandidate, WorkerStatus, WorkerFlag, HoldsCandidate
  <2>4. CASE GenerateUnreachable
      BY <2>4, RetryRows DEF GenerateUnreachable, TypeOK, VolatileTypeOK, WorkerAt,
         WorkerPlace, WorkerCandidate, HoldsCandidate
  <2>5. CASE GenerateFails
      BY <2>5, FailRows DEF GenerateFails, WorkerAt, WorkerPlace
  <2> QED BY <1>4, <2>1, <2>2, <2>3, <2>4, <2>5 DEF Generate
<1>5. CASE Snapshot
  <2>1. ASSUME NEW listed \in AppleLists, SnapshotFound(listed) PROVE RowsOK'
      BY <2>1, RowsKept DEF SnapshotFound, Complete
  <2>2. ASSUME NEW listed \in AppleLists, SnapshotAbsent(listed) PROVE RowsOK'
      BY <2>2, SnapshotAbsentRows
  <2>3. ASSUME NEW listed \in AppleLists, ResnapFound(listed) PROVE RowsOK'
      BY <2>3, RowsKept DEF ResnapFound, Complete
  <2>4. ASSUME NEW listed \in AppleLists, ResnapAbsent(listed) PROVE RowsOK'
      BY <2>4, RetryRows DEF ResnapAbsent, Pause, TypeOK, VolatileTypeOK, WorkerAt,
         WorkerPlace, WorkerCandidate, HoldsCandidate
  <2>5. CASE SnapshotUnavailable
      BY <2>5, RetryRows DEF SnapshotUnavailable, Pause, TypeOK, VolatileTypeOK, WorkerAt,
         WorkerPlace, WorkerCandidate, HoldsCandidate
  <2>6. CASE SnapshotStopped
      BY <2>6, StopRows DEF SnapshotStopped, StopKept
  <2>7. CASE ResnapUnavailable
      BY <2>7, RetryRows DEF ResnapUnavailable, Pause, TypeOK, VolatileTypeOK, WorkerAt,
         WorkerPlace, WorkerCandidate, HoldsCandidate
  <2>8. CASE ResnapStopped
      BY <2>8, StopRows DEF ResnapStopped, StopKept
  <2> QED BY <1>5, <2>1, <2>2, <2>3, <2>4, <2>5, <2>6, <2>7, <2>8 DEF Snapshot
<1>6. CASE Reserve
  <2>1. CASE FenceStopped
      BY <2>1, StopRows DEF FenceStopped, StopKept
  <2>2. CASE BeginReserve
      BY <2>2, RowWrite, InFlightFacts DEF BeginReserve, TypeOK, DurableTypeOK,
         WorkerAt, WorkerPlace, WorkerCandidate, WorkerStatus, WorkerFlag,
         HoldsCandidate
  <2>3. CASE ReserveOk
      BY <2>3, CreateKeepsRows DEF ReserveOk, AppleMayCreate
  <2>4. CASE ReserveLost
      BY <2>4, CreateKeepsRows DEF ReserveLost, ReserveFails
  <2>5. CASE ReserveRejected
      BY <2>5, CreateKeepsRows DEF ReserveRejected, ReserveFails
  <2>6. CASE ReserveFull
      BY <2>6, RowWrite, CapacityItemFacts DEF ReserveFull, Adverse, PauseForCapacity,
         TypeOK, DurableTypeOK, WorkerAt, WorkerPlace, WorkerCandidate, WorkerStatus,
         WorkerFlag, HoldsCandidate
  <2>7. CASE ReserveLimited
      BY <2>7, RowWrite, LimitedItemFacts DEF ReserveLimited, Adverse,
         PauseForRateLimit, TypeOK, DurableTypeOK, WorkerAt, WorkerPlace,
         WorkerCandidate, WorkerStatus, WorkerFlag, HoldsCandidate
  <2> QED BY <1>6, <2>1, <2>2, <2>3, <2>4, <2>5, <2>6, <2>7 DEF Reserve
<1>7. CASE Completion
  <2>1. CASE UpsertAlias
      BY <2>1, RowsKept DEF UpsertAlias
  <2>2. CASE IssueKey
      BY <2>2, RowsKept DEF IssueKey
  <2>3. CASE RecordSuccess
      BY <2>3, RecordSuccessRows
  <2>4. CASE Audit
      BY <2>4, RowsKept DEF Audit
  <2>5. CASE UnexpectedError
      BY <2>5, CreateKeepsRows, RowsKept DEF UnexpectedError
  <2>6. CASE MarkUnknown
      BY <2>6, RowWrite, SettledFacts DEF MarkUnknown, TypeOK, DurableTypeOK, WorkerAt,
         WorkerPlace, WorkerCandidate, WorkerStatus, WorkerFlag, HoldsCandidate
  <2>7. CASE MarkFailed
      BY <2>7, FailRows DEF MarkFailed, WorkerAt, WorkerPlace
  <2>8. CASE WorkerFailsSafely
      BY <2>8, RowsKept DEF WorkerFailsSafely
  <2> QED BY <1>7, <2>1, <2>2, <2>3, <2>4, <2>5, <2>6, <2>7, <2>8 DEF Completion
<1>8. CASE Environment
  <2>1. CASE RequestStop
      BY <2>1, RowsKept DEF RequestStop
  <2>2. CASE Crash
      BY <2>2, CreateKeepsRows, RowsKept DEF Crash
  <2>3. ASSUME NEW listed \in AppleLists, SyncAliases(listed) PROVE RowsOK'
      BY <2>3, RowsKept DEF SyncAliases
  <2>4. ASSUME NEW j \in Job, Submit(j) PROVE RowsOK'
      BY <2>4, RowsKept DEF Submit
  <2>5. ASSUME NEW j \in Job, Resume(j) PROVE RowsOK'
      BY <2>5, ResumeRows
  <2> QED BY <1>8, <2>1, <2>2, <2>3, <2>4, <2>5 DEF Environment
<1> QED BY <1>1, <1>2, <1>3, <1>4, <1>5, <1>6, <1>7, <1>8 DEF Next, Worker

\* Only BeginReserve sends a request, for a queued and unflagged candidate.
LEMMA ReserveStep ==
    ASSUME TypeOK, WorkerAt, RowsOK, ~ListMayTruncate, NoRepeatedReserve, Next
    PROVE  NoRepeatedReserve'
<1>1. CASE Start
    BY <1>1, RecoveredItemFacts DEF Start, RecoveredJob, NoRepeatedReserve
<1>2. CASE Loop
    BY <1>2, ClearedItemFacts DEF Loop, Claim, Exit, StopAtScan, Requeue, SkipSettled,
       Advance, WaitForResume, WaitExpired, WaitStopped, WaitOver, ClearWait, RunItem,
       Finish, Successes, PauseJob, PauseAudit, PauseFull, ParkJob, Halt, NextItem, NoRepeatedReserve
<1>3. CASE Prelude
  <2>1. CASE PreludeDone
      BY <2>1 DEF PreludeDone, NoRepeatedReserve
  <2>2. CASE PreludeStopped
      BY <2>2, CandidateItemFacts DEF PreludeStopped, PreludeDrops, StopItem, StopKept, NoRepeatedReserve
  <2>3. CASE PreludeUnreachable
      BY <2>3, RetryItemFacts DEF PreludeUnreachable, PreludeDrops, Adverse, Retry, Pause, NoRepeatedReserve
  <2>4. CASE PreludeBusy
      BY <2>4, SettledFacts DEF PreludeBusy, Adverse, FailItem, NoRepeatedReserve
  <2>5. CASE BeginGenerate
      BY <2>5, InFlightFacts DEF BeginGenerate, NoRepeatedReserve
  <2> QED BY <1>3, <2>1, <2>2, <2>3, <2>4, <2>5 DEF Prelude
<1>4. CASE Generate
    BY <1>4, CandidateItemFacts, RetryItemFacts, LimitedItemFacts, CapacityItemFacts,
       SettledFacts DEF Generate, GenerateOk, Fresh, GenerateFull, Adverse,
       PauseForCapacity, GenerateLimited, PauseForRateLimit, GenerateUnreachable, Retry, Pause,
       GenerateFails, FailItem, NoRepeatedReserve
<1>5. CASE Snapshot
    BY <1>5, CandidateItemFacts, RetryItemFacts DEF Snapshot, AppleLists, SnapshotFound,
       Found, Complete, SnapshotAbsent, Absent, ResnapFound, ResnapAbsent, Retry, Pause,
       SnapshotUnavailable, Adverse, SnapshotStopped, StopItem, StopKept, ResnapUnavailable,
       ResnapStopped, NoRepeatedReserve
<1>6. CASE Reserve
  <2>1. CASE FenceStopped
      BY <2>1, CandidateItemFacts DEF FenceStopped, StopItem, StopKept, NoRepeatedReserve
  <2>2. CASE BeginReserve
      BY <2>2 DEF BeginReserve, RowsOK, UnflaggedIsFree, NoRepeatedReserve, WorkerAt,
         WorkerPlace, WorkerStatus, WorkerCandidate, WorkerFlag, HoldsCandidate
  <2>3. CASE ReserveOk
      BY <2>3 DEF ReserveOk, AppleCreates, NoRepeatedReserve
  <2>4. CASE ReserveLost
      BY <2>4 DEF ReserveLost, ReserveFails, Adverse, AppleMayCreate, AppleCreates,
         NoRepeatedReserve
  <2>5. CASE ReserveRejected
      BY <2>5 DEF ReserveRejected, ReserveFails, Adverse, AppleMayCreate, AppleCreates,
         NoRepeatedReserve
  <2>6. CASE ReserveFull
      BY <2>6, CapacityItemFacts DEF ReserveFull, Adverse, PauseForCapacity,
         NoRepeatedReserve
  <2>7. CASE ReserveLimited
      BY <2>7, LimitedItemFacts DEF ReserveLimited, Adverse, PauseForRateLimit,
         NoRepeatedReserve
  <2> QED BY <1>6, <2>1, <2>2, <2>3, <2>4, <2>5, <2>6, <2>7 DEF Reserve
<1>7. CASE Completion
    BY <1>7, SettledFacts, SucceededFacts DEF Completion, UpsertAlias, IssueKey,
       RecordSuccess, Audit, UnexpectedError, Adverse, AppleMayCreate, AppleCreates,
       MarkUnknown, MarkFailed, FailItem, WorkerFailsSafely, NoRepeatedReserve
<1>8. CASE Environment
  <2>1. CASE RequestStop
      BY <2>1 DEF RequestStop, Interrupt, NoRepeatedReserve
  <2>2. CASE Crash
      BY <2>2 DEF Crash, Interrupt, AppleMayCreate, AppleCreates, NoRepeatedReserve
  <2>3. ASSUME NEW listed \in AppleLists, SyncAliases(listed) PROVE NoRepeatedReserve'
      BY <2>3 DEF SyncAliases, Fenced, AppleLists, NoRepeatedReserve
  <2>4. ASSUME NEW j \in Job, Submit(j) PROVE NoRepeatedReserve'
      BY <2>4 DEF Submit, NoRepeatedReserve
  <2>5. ASSUME NEW j \in Job, Resume(j) PROVE NoRepeatedReserve'
      BY <2>5, ReconcilingFacts DEF Resume, Reconcilable, UnknownItems,
         NoRepeatedReserve
  <2> QED BY <1>8, <2>1, <2>2, <2>3, <2>4, <2>5 DEF Environment
<1> QED BY <1>1, <1>2, <1>3, <1>4, <1>5, <1>6, <1>7, <1>8 DEF Next, Worker

-----------------------------------------------------------------------------
(* Where the loop stands: LoopInv.                                         *)

Inside == PcState \ {"down", "idle", "waiting", "parked", "pauseAudit", "halt"}

\* A step inside the loop: at most the row the worker is at changes, it comes
\* into doubt only on the way to a halt, and a row that is left running or
\* undecided is left so by a handler of a stop.
InStep ==
    /\ cur \in Slot /\ UNCHANGED <<job, cur, stopping, slipped>>
    /\ pc \in Inside /\ pc' \in Inside \cup {"halt"}
    /\ \A s \in Slot : s # cur => item'[s] = item[s]
    /\ item'[cur].status = "unknown" =>
           item[cur].status = "unknown" \/ (pc' = "halt" /\ UnexpectedErrors)
    /\ ~UnexpectedErrors =>
           /\ pc' # "fault"
           /\ item'[cur].status = "running" =>
                  pc' \in RunningPlace \/ (stopping /\ pc' = "next")
           /\ pc' \in {"audit", "next"} => Decided(cur)' \/ stopping

LEMMA SlotParts ==
    /\ \A s \in Slot : s = <<s[1], s[2]>> /\ s[1] \in Job /\ s[2] \in Index
    /\ \A j \in Job, i \in Index : <<j, i>> \in Slot /\ <<j, i>>[1] = j /\ <<j, i>>[2] = i
BY DEF Slot, Job, Index

LEMMA InStepKeepsLoop ==
    ASSUME LoopInv, InStep
    PROVE  LoopInv'
<1>1. /\ Held /\ Held' /\ pc # "halt"
      /\ {pc, pc'} \cap {"waiting", "parked", "pauseAudit"} = {}
    BY DEF InStep, Inside, PcState, Held
<1>2. /\ job' = job /\ cur' = cur /\ slipped' = slipped
      /\ job[cur[1]] \in {"queued", "running"}
      /\ cur[1] \notin slipped => job[cur[1]] = "running"
    BY <1>1 DEF LoopInv, HeldJob, InStep
<1>3. cur[1] \notin slipped => UnknownItems(cur[1]) = {}
    BY <1>1, SlotParts DEF LoopInv, NoDoubt, InStep
<1>4. cur[1] \notin slipped => Row.status # "unknown"
    BY <1>3, SlotParts DEF UnknownItems, InStep
<1>5. \A j \in Job : j # cur[1] => \A i \in Index : item'[<<j, i>>] = item[<<j, i>>]
    BY SlotParts DEF InStep
<1>6. \A j \in Job : j # cur[1] => UnknownItems(j)' = UnknownItems(j)
    BY <1>5 DEF UnknownItems
<1>7. cur[1] \notin slipped =>
          (pc' = "halt" /\ UnexpectedErrors) \/ UnknownItems(cur[1])' = {}
    BY <1>3, <1>4, SlotParts DEF UnknownItems, InStep
<1>8. HeldJob'
    BY <1>1, <1>2 DEF HeldJob
<1>9. NoDoubt'
    BY <1>1, <1>2, <1>6, <1>7 DEF LoopInv, NoDoubt
<1>10. Unbegun'
    BY <1>2, <1>5 DEF LoopInv, Unbegun
<1>11. ASSUME ~UnexpectedErrors
       PROVE  /\ (slipped = {} /\ pc # "fault")'
              /\ OneRunning' /\ OneHeld' /\ DoubtIsShown' /\ PassedDecided' /\ TerminalSettled'
  <2>1. (slipped = {} /\ pc # "fault")'
      BY <1>2, <1>11 DEF InStep, LoopInv
  <2>2. OneRunning'
      BY <1>1, <1>11 DEF LoopInv, OneRunning, InStep, Held
  <2>3. OneHeld'
      BY <1>1, <1>2, <1>11 DEF LoopInv, OneHeld, Held
  <2>4. DoubtIsShown'
    <3>1. UnknownItems(cur[1])' = {}
        BY <1>7, <1>11 DEF LoopInv
    <3> QED BY <1>2, <1>6, <1>11, <3>1 DEF LoopInv, DoubtIsShown
  <2>5. PassedDecided'
    <3>1. \A i \in Index : i < cur[2] => Decided(<<cur[1], i>>)'
        BY <1>1, <1>11, SlotParts DEF LoopInv, PassedDecided, Decided, InStep, Index
    <3> QED BY <1>2, <1>11, <3>1 DEF PassedDecided, InStep
  <2>6. TerminalSettled'
    <3>1. \A j \in Job : j # cur[1] => Successes(j)' = Successes(j)
        BY <1>5 DEF Successes
    <3> QED BY <1>2, <1>5, <1>11, <3>1 DEF LoopInv, TerminalSettled
  <2> QED BY <2>1, <2>2, <2>3, <2>4, <2>5, <2>6
<1> QED BY <1>8, <1>9, <1>10, <1>11 DEF LoopInv

LEMMA RowStep ==
    ASSUME TypeOK, cur \in Slot, UNCHANGED <<job, cur, stopping, slipped>>,
           pc \in Inside, pc' \in Inside \cup {"halt"},
           NEW x, Write(x), x.status # "unknown" \/ (pc' = "halt" /\ UnexpectedErrors),
           ~UnexpectedErrors => pc' # "fault",
           x.status = "running" => pc' \in RunningPlace,
           pc' \in {"audit", "next"} => x.status \in {"success", "failed"} \/ stopping
    PROVE  InStep
<1>1. item'[cur] = x /\ \A s \in Slot : s # cur => item'[s] = item[s]
    BY DEF TypeOK, DurableTypeOK
<1> QED BY <1>1 DEF InStep, Decided

LEMMA MoveStep ==
    ASSUME cur \in Slot, UNCHANGED <<job, cur, stopping, slipped, item>>,
           pc \in Inside, pc' \in Inside \cup {"halt"},
           ~UnexpectedErrors =>
               /\ pc' # "fault"
               /\ Row.status = "running" =>
                      pc' \in RunningPlace \/ (stopping /\ pc' = "next")
               /\ pc' \in {"audit", "next"} => Decided(cur) \/ stopping
    PROVE  InStep
BY DEF InStep, Decided

LEMMA PreludeInStep ==
    ASSUME TypeOK, WorkerAt, LoopInv, Prelude
    PROVE  InStep
<1>1. /\ pc \in {"prelude", "loaded"} /\ cur \in Slot /\ Row \in ItemRow
      /\ pc = "prelude" => Row.status = "queued" /\ cand = NoAddr
      /\ cand \in Addr \cup {NoAddr} /\ Row.flag \in BOOLEAN /\ attempted \in BOOLEAN
    BY DEF Prelude, PreludeDone, PreludeStopped, PreludeDrops, PreludeUnreachable, PreludeBusy,
       BeginGenerate, TypeOK, DurableTypeOK, VolatileTypeOK, FlagTypeOK, ItemRow,
       WorkerAt, WorkerPlace, WorkerStatus, WorkerCandidate
<1>2. CASE PreludeDone
    BY <1>1, <1>2, MoveStep DEF PreludeDone, Inside, PcState
<1>3. CASE PreludeStopped
  <2> DEFINE x == CandidateItem(Row, cand, cand # NoAddr /\ (attempted \/ Row.flag))
  <2>1. x.status = "queued"
      BY <1>1, CandidateItemFacts
  <2>2. Write(x) /\ stopping /\ pc' = "next" /\ UNCHANGED <<job, cur, stopping, slipped>>
      BY <1>3 DEF PreludeStopped, PreludeDrops, StopItem, StopKept
  <2> HIDE DEF x
  <2> QED BY <1>1, <2>1, <2>2, RowStep DEF Inside, PcState
<1>4. CASE PreludeUnreachable
  <2> DEFINE x == RetryItem(Row, cand, cand # NoAddr /\ Row.flag)
  <2>1. x.status = "queued"
      BY <1>1, RetryItemFacts
  <2>2. Write(x) /\ pc' = "parkJob" /\ UNCHANGED <<job, cur, stopping, slipped>>
      BY <1>4 DEF PreludeUnreachable, PreludeDrops, Retry, Pause
  <2> HIDE DEF x
  <2> QED BY <1>1, <2>1, <2>2, RowStep DEF Inside, PcState
<1>5. CASE PreludeBusy
    BY <1>1, <1>5, SettledFacts, RowStep, MoveStep
       DEF PreludeBusy, FailItem, Inside, PcState
<1>6. CASE BeginGenerate
    BY <1>1, <1>6, InFlightFacts, RowStep
       DEF BeginGenerate, Inside, PcState, RunningPlace
<1> QED BY <1>2, <1>3, <1>4, <1>5, <1>6 DEF Prelude

LEMMA GenerateInStep ==
    ASSUME TypeOK, WorkerAt, LoopInv, Generate
    PROVE  InStep
<1>1. /\ pc = "generate" /\ cur \in Slot /\ Row \in ItemRow
      /\ UNCHANGED <<job, cur, stopping, slipped>>
    BY DEF Generate, GenerateOk, GenerateFull, PauseForCapacity, GenerateLimited,
       PauseForRateLimit, GenerateUnreachable, Retry, Pause, GenerateFails, FailItem,
       TypeOK, DurableTypeOK, WorkerAt, WorkerPlace
<1>2. ASSUME NEW a \in Addr, GenerateOk(a) PROVE InStep
    BY <1>1, <1>2, CandidateItemFacts, RowStep DEF GenerateOk, Inside, PcState
<1>3. CASE GenerateFull
    BY <1>1, <1>3, CapacityItemFacts, RowStep
       DEF GenerateFull, PauseForCapacity, Inside, PcState
<1>4. CASE GenerateLimited
    BY <1>1, <1>4, LimitedItemFacts, RowStep
       DEF GenerateLimited, PauseForRateLimit, Inside, PcState
<1>5. CASE GenerateUnreachable
    BY <1>1, <1>5, RetryItemFacts, RowStep
       DEF GenerateUnreachable, Retry, Pause, Inside, PcState
<1>6. CASE GenerateFails
    BY <1>1, <1>6, SettledFacts, RowStep, MoveStep
       DEF GenerateFails, FailItem, Inside, PcState
<1> QED BY <1>2, <1>3, <1>4, <1>5, <1>6 DEF Generate

\* The handler of a stop requeues the row.
LEMMA StopInStep ==
    ASSUME TypeOK, WorkerAt, StopItem, pc \in {"snapshot", "fence", "resnap"}
    PROVE  InStep
<1> DEFINE f == cand # NoAddr /\ (attempted \/ Row.flag)
<1>1. cur \in Slot /\ Row \in ItemRow /\ cand \in Addr \cup {NoAddr} /\ f \in BOOLEAN
    BY DEF TypeOK, DurableTypeOK, VolatileTypeOK, FlagTypeOK, ItemRow, WorkerAt, WorkerPlace
<1>2. /\ Write(CandidateItem(Row, cand, f)) /\ stopping /\ pc' = "next"
      /\ UNCHANGED <<job, cur, stopping, slipped>>
    BY DEF StopItem, StopKept
<1> HIDE DEF f
<1> QED BY <1>1, <1>2, CandidateItemFacts, RowStep DEF Inside, PcState

LEMMA RetryInStep ==
    ASSUME TypeOK, WorkerAt, NEW c \in {cand, NoAddr}, NEW f \in BOOLEAN,
           Retry(c, f, "pauseJob"), pc \in {"snapshot", "resnap"}
    PROVE  InStep
<1>1. cur \in Slot /\ Row \in ItemRow /\ c \in Addr \cup {NoAddr}
    BY DEF TypeOK, DurableTypeOK, VolatileTypeOK, WorkerAt, WorkerPlace
<1> QED BY <1>1, RetryItemFacts, RowStep DEF Retry, Pause, Inside, PcState

LEMMA SnapshotInStep ==
    ASSUME TypeOK, WorkerAt, LoopInv, Snapshot
    PROVE  InStep
<1>1. ASSUME NEW listed \in AppleLists, SnapshotFound(listed) PROVE InStep
    BY <1>1, MoveStep DEF SnapshotFound, Complete, WorkerAt, WorkerPlace, Inside,
       PcState, RunningPlace
<1>2. ASSUME NEW listed \in AppleLists, SnapshotAbsent(listed) PROVE InStep
  <2>1. cur \in Slot /\ Row \in ItemRow /\ cand \in Addr \cup {NoAddr}
      BY <1>2 DEF SnapshotAbsent, TypeOK, DurableTypeOK, VolatileTypeOK, WorkerAt,
         WorkerPlace
  <2> QED BY <1>2, <2>1, CandidateItemFacts, RowStep DEF SnapshotAbsent, Inside, PcState
<1>3. ASSUME NEW listed \in AppleLists, ResnapFound(listed) PROVE InStep
    BY <1>3, MoveStep DEF ResnapFound, Complete, WorkerAt, WorkerPlace, Inside,
       PcState, RunningPlace
<1>4. ASSUME NEW listed \in AppleLists, ResnapAbsent(listed) PROVE InStep
    BY <1>4, RetryInStep DEF ResnapAbsent, Pause
<1>5. CASE SnapshotUnavailable \/ ResnapUnavailable
    BY <1>5, RetryInStep DEF SnapshotUnavailable, ResnapUnavailable, Pause
<1>6. CASE SnapshotStopped \/ ResnapStopped
    BY <1>6, StopInStep DEF SnapshotStopped, ResnapStopped, StopKept
<1> QED BY <1>1, <1>2, <1>3, <1>4, <1>5, <1>6 DEF Snapshot

LEMMA ReserveInStep ==
    ASSUME TypeOK, WorkerAt, LoopInv, Reserve
    PROVE  InStep
<1>1. CASE FenceStopped
    BY <1>1, StopInStep DEF FenceStopped, StopKept
<1>2. CASE BeginReserve
  <2>1. cur \in Slot /\ Row \in ItemRow
      BY <1>2 DEF BeginReserve, TypeOK, DurableTypeOK, WorkerAt, WorkerPlace
  <2> QED BY <1>2, <2>1, InFlightFacts, RowStep
          DEF BeginReserve, Inside, PcState, RunningPlace
<1>3. CASE ReserveOk \/ ReserveLost \/ ReserveRejected
    BY <1>3, MoveStep DEF ReserveOk, ReserveLost, ReserveRejected, ReserveFails,
       WorkerAt, WorkerPlace, Inside, PcState, RunningPlace
<1>4. CASE ReserveFull
  <2>1. cur \in Slot /\ Row \in ItemRow
      BY <1>4 DEF ReserveFull, TypeOK, DurableTypeOK, WorkerAt, WorkerPlace
  <2> QED BY <1>4, <2>1, CapacityItemFacts, RowStep
          DEF ReserveFull, PauseForCapacity, Inside, PcState
<1>5. CASE ReserveLimited
  <2>1. cur \in Slot /\ Row \in ItemRow
      BY <1>5 DEF ReserveLimited, TypeOK, DurableTypeOK, WorkerAt, WorkerPlace
  <2> QED BY <1>5, <2>1, LimitedItemFacts, RowStep
          DEF ReserveLimited, PauseForRateLimit, Inside, PcState
<1> QED BY <1>1, <1>2, <1>3, <1>4, <1>5 DEF Reserve

\* A job slips only at the audit row of a pause.
LEMMA SlipFacts ==
    ASSUME TypeOK, UnexpectedError
    PROVE  /\ pc # "pauseAudit" => slipped' = slipped
           /\ pc = "pauseAudit" /\ cur[1] \in Job => slipped' = slipped \cup {cur[1]}
BY DEF UnexpectedError

LEMMA CompletionInStep ==
    ASSUME TypeOK, WorkerAt, LoopInv, Completion, ~WorkerFailsSafely,
           ~(UnexpectedError /\ pc = "pauseAudit")
    PROVE  InStep
<1>1. CASE UpsertAlias \/ IssueKey
    BY <1>1, MoveStep DEF UpsertAlias, IssueKey, WorkerAt, WorkerPlace, Inside,
       PcState, RunningPlace
<1>2. CASE RecordSuccess
  <2>1. cur \in Slot /\ cand \in Addr
      BY <1>2 DEF RecordSuccess, TypeOK, VolatileTypeOK, WorkerAt, WorkerPlace,
         WorkerCandidate, HoldsCandidate
  <2> QED BY <1>2, <2>1, SucceededFacts, RowStep DEF RecordSuccess, Inside, PcState
<1>3. CASE Audit
  <2>1. ~UnexpectedErrors => Decided(cur) \/ stopping
      BY <1>3 DEF Audit, LoopInv, PassedDecided
  <2>2. ~UnexpectedErrors /\ Row.status = "running" => stopping
      BY <2>1 DEF Decided
  <2> QED BY <1>3, <2>1, <2>2, MoveStep DEF Audit, WorkerAt, WorkerPlace, Inside, PcState
<1>4. CASE UnexpectedError
    BY <1>4, MoveStep, SlipFacts DEF UnexpectedError, WorkerAt, WorkerPlace, Inside, PcState
<1>5. CASE MarkUnknown
  <2>1. UnexpectedErrors /\ cur \in Slot /\ Row \in ItemRow
      BY <1>5 DEF MarkUnknown, LoopInv, TypeOK, DurableTypeOK, WorkerAt, WorkerPlace
  <2> QED BY <1>5, <2>1, SettledFacts, RowStep DEF MarkUnknown, Inside, PcState
<1>6. CASE MarkFailed
  <2>1. UnexpectedErrors /\ cur \in Slot /\ Row \in ItemRow
      BY <1>6 DEF MarkFailed, LoopInv, TypeOK, DurableTypeOK, WorkerAt, WorkerPlace
  <2> QED BY <1>6, <2>1, SettledFacts, RowStep, MoveStep
          DEF MarkFailed, FailItem, Inside, PcState
<1> QED BY <1>1, <1>2, <1>3, <1>4, <1>5, <1>6 DEF Completion

LEMMA LoopInStep ==
    ASSUME TypeOK, WorkerAt, LoopInv, ClearWait \/ RunItem
    PROVE  InStep
<1>1. CASE ClearWait
  <2>1. cur \in Slot /\ Row \in ItemRow
      BY <1>1 DEF ClearWait, TypeOK, DurableTypeOK, WorkerAt, WorkerPlace
  <2> QED BY <1>1, <2>1, ClearedItemFacts, RowStep DEF ClearWait, Inside, PcState
<1>2. CASE RunItem
  <2>1. cur \in Slot
      BY <1>2, SlotFacts DEF RunItem, TypeOK, VolatileTypeOK, WorkerAt, WorkerPlace
  <2> QED BY <1>2, <2>1, MoveStep DEF RunItem, Inside, PcState
<1> QED BY <1>1, <1>2

\* The transactions of _run_job change the status of the job the worker holds.
LEMMA JobStep ==
    ASSUME TypeOK, LoopInv, Held, cur[1] \in Job, NEW v, SetJob(v),
           UNCHANGED <<item, cur, stopping>>,
           slipped' = slipped \/ (v = "needs_reconcile" /\ slipped' = slipped \ {cur[1]}),
           \/ v = "queued" /\ pc # "halt"
              /\ pc' \in {"idle", "waiting", "parked", "pauseAudit"}
           \/ v = "running" /\ pc # "halt" /\ pc' \in {"scan", "expired"}
           \/ v = "needs_reconcile" /\ pc' = "idle"
           \/ v = "failed" /\ pc' = "idle" /\ UnexpectedErrors,
           pc \in {"next", "pauseJob", "parkJob", "scan", "waiting", "expired", "parked", "halt", "fault"},
           pc = "next" => pc' = "idle"
    PROVE  LoopInv'
<1>1. job'[cur[1]] = v /\ \A j \in Job : j # cur[1] => job'[j] = job[j]
    BY DEF TypeOK, DurableTypeOK
<1>2. \A j \in Job : UnknownItems(j)' = UnknownItems(j) /\ Successes(j)' = Successes(j)
    BY DEF UnknownItems, Successes
<1>3. HeldJob'
    BY <1>1 DEF HeldJob, Held
<1>4. NoDoubt'
    BY <1>1, <1>2 DEF LoopInv, NoDoubt, Held
<1>5. Unbegun'
    BY <1>1 DEF LoopInv, Unbegun
<1>6. ASSUME ~UnexpectedErrors
      PROVE  /\ (slipped = {} /\ pc # "fault")'
             /\ OneRunning' /\ OneHeld' /\ DoubtIsShown' /\ PassedDecided' /\ TerminalSettled'
  <2>1. (slipped = {} /\ pc # "fault")'
      BY <1>6 DEF LoopInv
  <2>2. OneRunning'
      BY <1>6 DEF LoopInv, OneRunning, RunningPlace
  <2>3. OneHeld'
      BY <1>1, <1>6 DEF LoopInv, OneHeld, Held
  <2>4. DoubtIsShown'
    <3>1. v # "needs_reconcile" => UnknownItems(cur[1]) = {}
        BY <1>6 DEF LoopInv, NoDoubt
    <3> QED BY <1>1, <1>2, <1>6, <3>1 DEF LoopInv, DoubtIsShown
  <2>5. PassedDecided'
      BY <1>6 DEF LoopInv, PassedDecided, Decided, Held
  <2>6. TerminalSettled'
      BY <1>1, <1>2, <1>6 DEF LoopInv, TerminalSettled
  <2> QED BY <2>1, <2>2, <2>3, <2>4, <2>5, <2>6
<1> QED BY <1>3, <1>4, <1>5, <1>6 DEF LoopInv

\* The audit row of a pause, and its failure: the job slips.
LEMMA PauseAuditLoop ==
    ASSUME TypeOK, LoopInv, pc = "pauseAudit", cur[1] \in Job,
           UNCHANGED <<job, item, cur, stopping>>,
           \/ pc' = "parked" /\ slipped' = slipped
           \/ UnexpectedErrors /\ pc' = "fault" /\ slipped' = slipped \cup {cur[1]}
    PROVE  LoopInv'
<1>1. \A j \in Job : UnknownItems(j)' = UnknownItems(j) /\ Successes(j)' = Successes(j)
    BY DEF UnknownItems, Successes
<1>2. Held /\ Held' /\ pc # "halt" /\ pc' \notin {"halt", "audit", "next"}
    BY DEF Held
<1>3. HeldJob' /\ NoDoubt' /\ Unbegun'
    BY <1>1, <1>2 DEF LoopInv, HeldJob, NoDoubt, Unbegun
<1>4. ASSUME ~UnexpectedErrors
      PROVE  /\ (slipped = {} /\ pc # "fault")'
             /\ OneRunning' /\ OneHeld' /\ DoubtIsShown' /\ PassedDecided' /\ TerminalSettled'
    BY <1>1, <1>2, <1>4 DEF LoopInv, OneRunning, RunningPlace, OneHeld, DoubtIsShown,
       PassedDecided, Decided, TerminalSettled
<1> QED BY <1>3, <1>4 DEF LoopInv

\* Only a decided row is passed, unless an exception was not handled.
LEMMA AdvanceLoop ==
    ASSUME TypeOK, LoopInv, cur \in Slot, Advance, pc \in {"scan", "next"},
           pc = "next" => ~stopping,
           pc = "scan" => Row.status # "queued"
    PROVE  LoopInv'
<1>1. job' = job /\ item' = item /\ stopping' = stopping /\ pc' = "scan"
      /\ slipped' = slipped /\ cur'[1] = cur[1] /\ cur'[2] = cur[2] + 1
    BY DEF Advance
<1>2. \A j \in Job : UnknownItems(j)' = UnknownItems(j) /\ Successes(j)' = Successes(j)
    BY <1>1 DEF UnknownItems, Successes
<1>3. HeldJob' /\ NoDoubt' /\ Unbegun'
    BY <1>1, <1>2 DEF LoopInv, HeldJob, NoDoubt, Unbegun, Held
<1>4. ASSUME ~UnexpectedErrors
      PROVE  /\ (slipped = {} /\ pc # "fault")'
             /\ OneRunning' /\ OneHeld' /\ DoubtIsShown' /\ PassedDecided' /\ TerminalSettled'
  <2>1. Decided(cur)
    <3>1. Row.status \notin {"unknown", "running"} \/ pc = "next"
        BY <1>4, SlotParts DEF LoopInv, NoDoubt, Held, UnknownItems, OneRunning, RunningPlace
    <3>2. Row \in ItemRow
        BY DEF TypeOK, DurableTypeOK
    <3> QED BY <1>4, <3>1, <3>2 DEF LoopInv, PassedDecided, Decided, ItemRow, ItemStatus
  <2>2. (slipped = {} /\ pc # "fault")' /\ OneHeld' /\ DoubtIsShown' /\ TerminalSettled'
      BY <1>1, <1>2, <1>4 DEF LoopInv, OneHeld, Held, DoubtIsShown, TerminalSettled
  <2>3. OneRunning'
      BY <1>1, <1>4, <2>1 DEF LoopInv, OneRunning, RunningPlace, Decided
  <2>4. PassedDecided'
    <3>1. \A i \in Index : i < cur[2] + 1 => i < cur[2] \/ <<cur[1], i>> = cur
        BY SlotParts DEF Index
    <3> QED BY <1>1, <1>4, <2>1, <3>1 DEF LoopInv, PassedDecided, Decided, Held
  <2> QED BY <2>2, <2>3, <2>4
<1> QED BY <1>3, <1>4 DEF LoopInv

\* Finish: every row was passed, so the verdict is that of the rows.
LEMMA FinishLoop ==
    ASSUME TypeOK, WorkerAt, LoopInv, Finish
    PROVE  LoopInv'
<1> DEFINE v == IF Successes(cur[1]) = Index THEN "completed"
                ELSE IF Successes(cur[1]) # {} THEN "partial" ELSE "failed"
<1>1. /\ cur[1] \in Job /\ cur[2] \in 1 .. NumItems + 1 /\ ~(cur[2] <= NumItems) /\ Held
      /\ pc = "scan" /\ job' = [job EXCEPT ![cur[1]] = v]
      /\ UNCHANGED <<item, cur, stopping, slipped>>
      /\ pc' = "idle"
    BY DEF Finish, Held, WorkerAt, WorkerPlace, TypeOK, VolatileTypeOK
<1>2. job'[cur[1]] = v /\ \A j \in Job : j # cur[1] => job'[j] = job[j]
    BY <1>1 DEF TypeOK, DurableTypeOK
<1>3. \A j \in Job : UnknownItems(j)' = UnknownItems(j) /\ Successes(j)' = Successes(j)
    BY <1>1 DEF UnknownItems, Successes
<1>4. /\ v \in {"completed", "partial", "failed"}
      /\ v = "completed" <=> Successes(cur[1]) = Index
      /\ v = "failed" <=> Successes(cur[1]) = {}
    BY BoundsAssumption DEF Index
<1> HIDE DEF v
<1>5. HeldJob' /\ NoDoubt' /\ Unbegun'
    BY <1>1, <1>2, <1>3, <1>4 DEF LoopInv, HeldJob, NoDoubt, Unbegun, Held
<1>6. ASSUME ~UnexpectedErrors
      PROVE  /\ (slipped = {} /\ pc # "fault")'
             /\ OneRunning' /\ OneHeld' /\ DoubtIsShown' /\ PassedDecided' /\ TerminalSettled'
  <2>1. \A i \in Index : Decided(<<cur[1], i>>)
      BY <1>1, <1>6, BoundsAssumption DEF LoopInv, PassedDecided, Index
  <2>2. UnknownItems(cur[1]) = {}
      BY <2>1 DEF UnknownItems, Decided
  <2>3. (slipped = {} /\ pc # "fault")' /\ OneHeld' /\ DoubtIsShown' /\ PassedDecided'
      BY <1>1, <1>2, <1>3, <1>4, <1>6, <2>2
         DEF LoopInv, OneHeld, Held, DoubtIsShown, PassedDecided
  <2>4. OneRunning'
      BY <1>1, <1>6 DEF LoopInv, OneRunning, RunningPlace
  <2>5. TerminalSettled'
      BY <1>1, <1>2, <1>3, <1>4, <1>6, <2>1 DEF LoopInv, TerminalSettled, Decided
  <2> QED BY <2>3, <2>4, <2>5
<1> QED BY <1>5, <1>6 DEF LoopInv

\* Recovery leaves no row running, and a job whose rows are in doubt stopped.
LEMMA StartLoop ==
    ASSUME TypeOK, LoopInv, Start
    PROVE  LoopInv'
<1>1. /\ pc = "down" /\ pc' = "idle" /\ ~Held' /\ ~Held /\ slipped' = slipped
      /\ \A j \in Job : job'[j] = RecoveredJob(j)
      /\ \A s \in Slot : item[s] \in ItemRow /\ item'[s] = RecoveredItem(item[s])
    BY DEF Start, Held, TypeOK, DurableTypeOK
<1>2. \A s \in Slot : /\ item'[s].status # "running"
                      /\ item[s].status # "running" => item'[s] = item[s]
                      /\ item'[s].status = "unknown" => item[s].status \in {"unknown", "running"}
    BY <1>1, RecoveredItemFacts DEF RecoveredItem, ItemRow, ItemStatus
<1>3. ASSUME NEW j \in Job
      PROVE  /\ job'[j] \in {"needs_reconcile", "queued", job[j]}
             /\ job[j] \notin {"running", "queued"} => job'[j] \in {job[j], "needs_reconcile"}
             /\ job'[j] # "needs_reconcile" => \A i \in Index :
                    item'[<<j, i>>].status = "unknown" => item[<<j, i>>].status = "unknown"
             /\ job'[j] = "queued" /\ job[j] = "running" => UnknownItems(j)' = {}
             /\ job'[j] = "running" => UnknownItems(j)' # {}
             /\ job'[j] = "needs_reconcile" =>
                    job[j] = "needs_reconcile" \/ \E i \in Index : item[<<j, i>>].status = "running"
  <2> DEFINE r(i) == item[<<j, i>>]
             lost(i) == r(i).status = "running" /\ RecoveredItem(r(i)).status = "unknown"
             unknown(i) == RecoveredItem(r(i)).status = "unknown"
  <2>1. job'[j] = IF \E i \in Index : lost(i) THEN "needs_reconcile"
                  ELSE IF job[j] = "running" /\ ~\E i \in Index : unknown(i) THEN "queued"
                  ELSE job[j]
      BY <1>1 DEF RecoveredJob
  <2>2. \A i \in Index : item'[<<j, i>>] = RecoveredItem(r(i))
      BY <1>1, SlotParts
  <2>3. \A i \in Index : /\ unknown(i) <=> item'[<<j, i>>].status = "unknown"
                         /\ unknown(i) => r(i).status = "unknown" \/ lost(i)
      BY <1>2, <2>2, SlotParts
  <2> HIDE DEF unknown, lost
  <2>4. UnknownItems(j)' = {i \in Index : unknown(i)}
      BY <2>3 DEF UnknownItems
  <2>5. \A i \in Index : lost(i) => r(i).status = "running"
      BY DEF lost
  <2> QED BY <2>1, <2>3, <2>4, <2>5
<1>4. HeldJob'
    BY <1>1 DEF HeldJob
<1>5. NoDoubt'
  <2> SUFFICES ASSUME NEW j \in Job, j \notin slipped, job'[j] \in {"none", "queued"}
               PROVE  UnknownItems(j)' = {}
      BY <1>1 DEF NoDoubt
  <2>1. CASE job[j] = "running"
      BY <1>3, <2>1
  <2>2. CASE job[j] # "running"
    <3>1. job[j] \in {"none", "queued"} /\ UnknownItems(j) = {}
        BY <1>3, <2>2 DEF LoopInv, NoDoubt
    <3> QED BY <1>3, <3>1 DEF UnknownItems
  <2> QED BY <2>1, <2>2
<1>6. Unbegun'
    BY <1>1, <1>2, <1>3, SlotParts DEF LoopInv, Unbegun
<1>7. ASSUME ~UnexpectedErrors
      PROVE  /\ (slipped = {} /\ pc # "fault")'
             /\ OneRunning' /\ OneHeld' /\ DoubtIsShown' /\ PassedDecided' /\ TerminalSettled'
  <2>1. OneRunning' /\ (slipped = {} /\ pc # "fault")' /\ PassedDecided'
      BY <1>1, <1>2, <1>7 DEF LoopInv, OneRunning, PassedDecided
  <2>2. DoubtIsShown'
    <3> SUFFICES ASSUME NEW j \in Job, UnknownItems(j)' # {}, job'[j] # "needs_reconcile"
                 PROVE  FALSE
        BY DEF DoubtIsShown
    <3>1. UnknownItems(j) # {}
        BY <1>3 DEF UnknownItems
    <3>2. job[j] = "needs_reconcile"
        BY <1>7, <3>1 DEF LoopInv, DoubtIsShown
    <3> QED BY <1>3, <3>2
  <2>3. OneHeld'
      BY <1>3, <2>2 DEF OneHeld, DoubtIsShown
  <2>4. TerminalSettled'
    <3> SUFFICES ASSUME NEW j \in Job, job'[j] \in {"completed", "partial", "failed"}
                 PROVE  /\ \A i \in Index : item'[<<j, i>>].status \in {"success", "failed"}
                        /\ job'[j] = "completed" <=> Successes(j)' = Index
                        /\ job'[j] = "failed" <=> Successes(j)' = {}
        BY DEF TerminalSettled
    <3>1. job[j] = job'[j]
        BY <1>3
    <3>2. /\ \A i \in Index : item[<<j, i>>].status \in {"success", "failed"}
          /\ job[j] = "completed" <=> Successes(j) = Index
          /\ job[j] = "failed" <=> Successes(j) = {}
        BY <1>7, <3>1 DEF LoopInv, TerminalSettled
    <3>3. \A i \in Index : item'[<<j, i>>] = item[<<j, i>>]
        BY <1>2, <3>2, SlotParts
    <3>4. Successes(j)' = Successes(j)
        BY <3>3 DEF Successes
    <3> QED BY <3>1, <3>2, <3>3, <3>4
  <2> QED BY <2>1, <2>2, <2>3, <2>4
<1> QED BY <1>4, <1>5, <1>6, <1>7 DEF LoopInv

\* Claim, Submit, Exit, a crash, a stop request and a list that is committed
\* change no row.
LEMMA RowlessLoop ==
    ASSUME TypeOK, WorkerAt, LoopInv, UNCHANGED item,
           \/ \E j \in Job : Claim(j) \/ Submit(j)
           \/ Exit \/ Crash \/ RequestStop
           \/ \E listed \in AppleLists : SyncAliases(listed)
    PROVE  LoopInv'
<1>1. \A j \in Job : UnknownItems(j)' = UnknownItems(j) /\ Successes(j)' = Successes(j)
    BY DEF UnknownItems, Successes
<1>2. ASSUME NEW j \in Job, Claim(j) PROVE LoopInv'
  <2>1. /\ pc = "idle" /\ pc' = "scan" /\ cur' = <<j, 1>> /\ stopping' = stopping /\ ~stopping
        /\ slipped' = slipped
        /\ job[j] = "queued" /\ job'[j] = "running" /\ \A k \in Job : k # j => job'[k] = job[k]
      BY <1>2 DEF Claim, TypeOK, DurableTypeOK
  <2>2. HeldJob' /\ NoDoubt' /\ Unbegun'
      BY <1>1, <2>1 DEF LoopInv, HeldJob, NoDoubt, Unbegun, Held
  <2> QED BY <1>1, <2>1, <2>2 DEF LoopInv, OneRunning, OneHeld, DoubtIsShown, PassedDecided,
         Held, TerminalSettled, RunningPlace, Index
<1>3. ASSUME NEW j \in Job, Submit(j) PROVE LoopInv'
  <2>1. /\ UNCHANGED <<pc, cur, stopping, slipped>>
        /\ job[j] = "none" /\ job'[j] = "queued" /\ \A k \in Job : k # j => job'[k] = job[k]
      BY <1>3 DEF Submit, TypeOK, DurableTypeOK
  <2>2. UnknownItems(j) = {}
      BY <2>1 DEF LoopInv, Unbegun, UnknownItems
  <2>3. Held => cur[1] \in Job /\ cur[1] # j
      BY <2>1, SlotFacts DEF LoopInv, HeldJob, Held, WorkerAt, WorkerPlace, TypeOK,
         VolatileTypeOK
  <2>4. HeldJob' /\ NoDoubt' /\ Unbegun'
      BY <1>1, <2>1, <2>2, <2>3 DEF LoopInv, HeldJob, NoDoubt, Unbegun, Held
  <2> QED BY <1>1, <2>1, <2>2, <2>4 DEF LoopInv, OneRunning, OneHeld, DoubtIsShown,
         PassedDecided, Decided, Held, TerminalSettled
<1>4. CASE Exit \/ Crash
  <2>1. job' = job /\ slipped' = slipped /\ pc' = "down"
      BY <1>4 DEF Exit, Crash
  <2> QED BY <1>1, <2>1 DEF LoopInv, HeldJob, NoDoubt, Unbegun, OneRunning, OneHeld,
         DoubtIsShown, PassedDecided, Held, TerminalSettled
<1>5. CASE RequestStop
  <2>1. UNCHANGED <<job, pc, cur, slipped>> /\ stopping' = TRUE
      BY <1>5 DEF RequestStop
  <2> QED BY <1>1, <2>1 DEF LoopInv, HeldJob, NoDoubt, Unbegun, OneRunning, OneHeld,
         DoubtIsShown, PassedDecided, Decided, Held, TerminalSettled
<1>6. ASSUME NEW listed \in AppleLists, SyncAliases(listed) PROVE LoopInv'
  <2>1. UNCHANGED <<job, pc, cur, stopping, slipped>>
      BY <1>6 DEF SyncAliases
  <2> QED BY <1>1, <2>1 DEF LoopInv, HeldJob, NoDoubt, Unbegun, OneRunning, OneHeld,
         DoubtIsShown, PassedDecided, Decided, Held, TerminalSettled
<1> QED BY <1>2, <1>3, <1>4, <1>5, <1>6

\* The operator resumes a job that the worker does not hold.
LEMMA ResumeLoop ==
    ASSUME TypeOK, WorkerAt, LoopInv, NEW j \in Job, Resume(j)
    PROVE  LoopInv'
<1>1. /\ UNCHANGED <<pc, cur, stopping, slipped>>
      /\ job[j] = "needs_reconcile" /\ job'[j] = "queued"
      /\ \A k \in Job : k # j => job'[k] = job[k]
      /\ \A s \in Slot : s[1] # j => item'[s] = item[s]
      /\ \A s \in Slot : item'[s] = item[s] \/ item'[s].status = "queued"
      /\ \A s \in Slot : s[1] = j => item'[s].status # "unknown"
    BY ReconcilingFacts DEF Resume, TypeOK, DurableTypeOK
<1>2. \A k \in Job : k # j => UnknownItems(k)' = UnknownItems(k) /\ Successes(k)' = Successes(k)
    BY <1>1, SlotParts DEF UnknownItems, Successes
<1>3. UnknownItems(j)' = {}
    BY <1>1, SlotParts DEF UnknownItems
<1>4. Held => cur[1] # j /\ cur[1] \in Job
    BY <1>1, SlotFacts DEF LoopInv, HeldJob, Held, WorkerAt, WorkerPlace, TypeOK,
       VolatileTypeOK
<1>5. HeldJob' /\ NoDoubt'
    BY <1>1, <1>2, <1>3, <1>4 DEF LoopInv, HeldJob, NoDoubt, Held
<1>6. Unbegun'
    BY <1>1, SlotParts DEF LoopInv, Unbegun
<1>7. ASSUME ~UnexpectedErrors
      PROVE  /\ (slipped = {} /\ pc # "fault")'
             /\ OneRunning' /\ OneHeld' /\ DoubtIsShown' /\ PassedDecided' /\ TerminalSettled'
  <2>1. OneRunning'
      BY <1>1, <1>7 DEF LoopInv, OneRunning
  <2>2. (slipped = {} /\ pc # "fault")' /\ OneHeld' /\ DoubtIsShown'
      BY <1>1, <1>2, <1>3, <1>7 DEF LoopInv, OneHeld, Held, DoubtIsShown
  <2>3. PassedDecided'
    <3>1. Held => cur \in Job \X (1 .. NumItems + 1)
        BY DEF Held, WorkerAt, WorkerPlace, TypeOK, VolatileTypeOK
    <3>2. pc \in {"audit", "next"} => cur \in Slot /\ Held
        BY DEF Held, WorkerAt, WorkerPlace
    <3> QED BY <1>1, <1>4, <1>7, <3>1, <3>2, SlotParts DEF LoopInv, PassedDecided, Decided, Held
  <2>4. TerminalSettled'
      BY <1>1, <1>2, <1>7, SlotParts DEF LoopInv, TerminalSettled
  <2> QED BY <2>1, <2>2, <2>3, <2>4
<1> QED BY <1>5, <1>6, <1>7 DEF LoopInv

LEMMA LoopStep ==
    ASSUME TypeOK, WorkerAt, LoopInv, Next
    PROVE  LoopInv'
<1>1. CASE Start
    BY <1>1, StartLoop
<1>2. CASE Loop
  <2>1. Held => cur[1] \in Job
      BY SlotFacts DEF Held, WorkerAt, WorkerPlace, TypeOK, VolatileTypeOK
  <2>2. ASSUME NEW j \in Job, Claim(j) PROVE LoopInv'
      BY <2>2, RowlessLoop DEF Claim
  <2>3. CASE Exit
      BY <2>3, RowlessLoop DEF Exit
  <2>4. CASE StopAtScan \/ WaitStopped
      BY <2>1, <2>4, JobStep DEF StopAtScan, WaitStopped, Requeue, Held
  <2>5. CASE SkipSettled
    <3>1. cur \in Slot
        BY <2>5, SlotFacts DEF SkipSettled, WorkerAt, WorkerPlace, TypeOK, VolatileTypeOK
    <3> QED BY <2>5, <3>1, AdvanceLoop DEF SkipSettled
  <2>6. CASE WaitForResume \/ WaitExpired \/ WaitOver
      BY <2>1, <2>6, JobStep DEF WaitForResume, WaitExpired, WaitOver, Held
  <2>7. CASE ClearWait \/ RunItem
      BY <2>7, LoopInStep, InStepKeepsLoop
  <2>8. CASE Finish
      BY <2>8, FinishLoop
  <2>9. CASE PauseJob \/ ParkJob \/ Halt
      BY <2>1, <2>9, JobStep DEF PauseJob, ParkJob, Halt, Held
  <2>11. CASE PauseAudit
      BY <2>1, <2>11, PauseAuditLoop DEF PauseAudit, Held
  <2>12. CASE PauseFull
    <3>1. InStep
        BY <2>12, MoveStep DEF PauseFull, WorkerAt, WorkerPlace, Inside, PcState,
           LoopInv, OneRunning, RunningPlace
    <3> QED BY <3>1, InStepKeepsLoop
  <2>10. CASE NextItem
    <3>1. cur \in Slot
        BY <2>10 DEF NextItem, WorkerAt, WorkerPlace
    <3>2. CASE stopping
        BY <2>1, <2>10, <3>2, JobStep DEF NextItem, Requeue, Held
    <3>3. CASE ~stopping
        BY <2>10, <3>1, <3>3, AdvanceLoop DEF NextItem
    <3> QED BY <3>2, <3>3
  <2> QED BY <1>2, <2>2, <2>3, <2>4, <2>5, <2>6, <2>7, <2>8, <2>9, <2>10,
     <2>11, <2>12 DEF Loop
<1>3. CASE Prelude \/ Generate \/ Snapshot \/ Reserve
    BY <1>3, PreludeInStep, GenerateInStep, SnapshotInStep, ReserveInStep, InStepKeepsLoop
<1>4. CASE Completion
  <2>1. CASE WorkerFailsSafely
    <3>1. Held => cur[1] \in Job
        BY SlotFacts DEF Held, WorkerAt, WorkerPlace, TypeOK, VolatileTypeOK
    <3> QED BY <2>1, <3>1, JobStep DEF WorkerFailsSafely, Held
  <2>2. CASE UnexpectedError /\ pc = "pauseAudit"
    <3>1. cur[1] \in Job
        BY <2>2, SlotFacts DEF WorkerAt, WorkerPlace
    <3> QED BY <2>2, <3>1, SlipFacts, PauseAuditLoop DEF UnexpectedError
  <2> QED BY <1>4, <2>1, <2>2, CompletionInStep, InStepKeepsLoop
<1>5. CASE Environment
  <2>1. ASSUME NEW j \in Job, Submit(j) PROVE LoopInv'
      BY <2>1, RowlessLoop DEF Submit
  <2>2. CASE RequestStop \/ Crash
      BY <2>2, RowlessLoop DEF RequestStop, Crash
  <2>3. ASSUME NEW listed \in AppleLists, SyncAliases(listed) PROVE LoopInv'
      BY <2>3, RowlessLoop DEF SyncAliases
  <2> QED BY <1>5, <2>1, <2>2, <2>3, ResumeLoop DEF Environment
<1> QED BY <1>1, <1>2, <1>3, <1>4, <1>5 DEF Next, Worker

LEMMA InitLoop ==
    ASSUME Init
    PROVE  LoopInv
<1>1. \A j \in Job, i \in Index : item[<<j, i>>].status = "queued"
    BY SlotParts DEF Init, NewItem
<1>2. \A j \in Job : UnknownItems(j) = {} /\ job[j] = "none"
    BY <1>1 DEF UnknownItems, Init
<1>3. pc = "down" /\ slipped = {}
    BY DEF Init
<1> QED BY <1>1, <1>2, <1>3 DEF LoopInv, HeldJob, NoDoubt, Unbegun, OneRunning, OneHeld,
       DoubtIsShown, PassedDecided, TerminalSettled, Held

-----------------------------------------------------------------------------
(* What becomes of a row's candidate and of its alias: AliasInv.           *)

\* What the constructors of item rows keep of the alias, the wait and the mark.
LEMMA RequeuedFacts ==
    ASSUME NEW r \in ItemRow, NEW c \in Addr \cup {NoAddr}, NEW f \in BOOLEAN
    PROVE  /\ CandidateItem(r, c, f).wait = "none"
           /\ RetryItem(r, c, f).wait = "transient_error"
<1> DEFINE y == CandidateItem(r, c, f)
<1>1. y \in ItemRow
    BY CandidateItemFacts
<1>2. y.wait = "none"
    BY DEF CandidateItem, ItemRow
<1>3. RetryItem(r, c, f) =
        [y EXCEPT !.stage = IF f THEN "waiting_reconcile" ELSE "waiting_retry",
                  !.wait = "transient_error"]
    BY DEF RetryItem
<1> HIDE DEF y
<1>4. RetryItem(r, c, f).wait = "transient_error"
    BY <1>1, <1>3 DEF ItemRow
<1> QED BY <1>2, <1>4 DEF y

LEMMA DroppedFacts ==
    ASSUME NEW r \in ItemRow
    PROVE  LimitedItem(r).alias = r.alias /\ CapacityItem(r).alias = r.alias
<1> DEFINE y == CandidateItem(r, NoAddr, FALSE)
<1>1. y \in ItemRow /\ y.alias = r.alias
    BY CandidateItemFacts
<1>2. /\ LimitedItem(r) = [y EXCEPT !.stage = "waiting_quota", !.wait = "rate_limited"]
      /\ CapacityItem(r) = [y EXCEPT !.stage = "waiting_capacity", !.wait = "capacity_reached"]
    BY DEF LimitedItem, CapacityItem
<1> HIDE DEF y
<1> QED BY <1>1, <1>2 DEF ItemRow

LEMMA MarkedFacts ==
    ASSUME NEW r \in ItemRow
    PROVE  /\ \A g \in {"generating", "reserving"} :
                 LET x == InFlight(r, g)
                 IN  x.alias = r.alias /\ x.wait = r.wait /\ x.flag = r.flag
           /\ \A t \in {"failed", "unknown"} :
                 LET x == Settled(r, t)
                 IN  x.alias = r.alias /\ x.wait = r.wait /\ x.flag = r.flag
           /\ Reconciling(r).alias = r.alias /\ Reconciling(r).wait = r.wait
BY DEF InFlight, Settled, Reconciling, ItemRow

LEMMA ClearedFacts ==
    ASSUME NEW r \in ItemRow
    PROVE  /\ ClearedItem(r).alias = r.alias
           /\ ClearedItem(r).wait = "none"
           /\ r.wait # "rate_limited" =>
                  ClearedItem(r).cand = r.cand /\ ClearedItem(r).flag = r.flag
<1>1. r.cand \in Addr \cup {NoAddr} /\ r.flag \in BOOLEAN
    BY DEF ItemRow
<1>2. CASE r.wait = "rate_limited"
  <2>1. ClearedItem(r) = CandidateItem(r, NoAddr, FALSE)
      BY <1>2 DEF ClearedItem
  <2>2. FALSE \in BOOLEAN /\ NoAddr \in Addr \cup {NoAddr}
      OBVIOUS
  <2>3. CandidateItem(r, NoAddr, FALSE).alias = r.alias
      BY <2>2, CandidateItemFacts
  <2>4. CandidateItem(r, NoAddr, FALSE).wait = "none"
      BY <2>2, RequeuedFacts
  <2> QED BY <1>2, <2>1, <2>3, <2>4
<1>3. CASE r.wait # "rate_limited"
  <2>1. ClearedItem(r) = CandidateItem(r, r.cand, r.flag)
      BY <1>3 DEF ClearedItem
  <2> QED BY <1>1, <2>1, CandidateItemFacts, RequeuedFacts
<1> QED BY <1>2, <1>3

LEMMA RecoveredFacts ==
    ASSUME NEW r \in ItemRow
    PROVE  LET x == RecoveredItem(r)
           IN  /\ x.alias = r.alias /\ x.wait = r.wait
               /\ r.flag => x.flag
               /\ r.status # "running" => x = r
<1>1. CASE r.status = "running" /\ r.stage = "generating"
  <2>1. RecoveredItem(r) = [r EXCEPT !.status = "queued", !.stage = "queued"]
      BY <1>1 DEF RecoveredItem
  <2>2. /\ RecoveredItem(r).alias = r.alias /\ RecoveredItem(r).wait = r.wait
        /\ RecoveredItem(r).flag = r.flag
      BY <2>1 DEF ItemRow
  <2> QED BY <1>1, <2>2
<1>2. CASE r.status = "running" /\ r.stage # "generating" /\ r.cand # NoAddr
  <2>1. RecoveredItem(r) = Reconciling(r)
      BY <1>2 DEF RecoveredItem
  <2> QED BY <1>2, <2>1, MarkedFacts, ReconcilingFacts
<1>3. CASE r.status = "running" /\ r.stage # "generating" /\ r.cand = NoAddr
  <2>1. RecoveredItem(r) = Settled(r, "unknown")
      BY <1>3 DEF RecoveredItem
  <2> QED BY <1>3, <2>1, MarkedFacts
<1>4. CASE r.status # "running"
    BY <1>4 DEF RecoveredItem
<1> QED BY <1>1, <1>2, <1>3, <1>4

Trusted == ~ListMayTruncate

\* The prelude is interrupted and drops the candidate of its row.
DroppedHere == pc = "prelude" /\ Row.cand \in forgotten'

\* What a step may make of row s: it keeps the alias, drops the candidate only
\* if Apple did not create it, and the mark only of a candidate that is unknown
\* to the database; or it turns the candidate into the alias.
RowChange(s, r, x) ==
    \/ /\ x.alias = r.alias
       /\ x.wait = "rate_limited" =>
              x.cand = NoAddr \/ (r.wait = "rate_limited" /\ x.cand = r.cand)
       /\ r.alias # NoAddr => x.cand = r.cand /\ x.status \notin {"queued", "running"}
       /\ Trusted /\ r.cand # NoAddr /\ remote[r.cand] = s =>
              x.cand = r.cand \/ (cur = s /\ DroppedHere)
       /\ r.flag /\ r.cand \in local /\ x.cand = r.cand => x.flag
    \/ /\ r.cand # NoAddr /\ x.cand = NoAddr /\ x.alias = r.cand
       /\ x.status = "success" /\ x.wait = "none"

\* A step that keeps track of every alias that Apple creates.
Tracked ==
    /\ forgotten \subseteq forgotten'
    /\ \A s \in Slot : item'[s] = item[s] \/ RowChange(s, item[s], item'[s])
    /\ \A a \in Addr : remote'[a] = remote[a]
                       \/ (remote'[a] \in Slot /\ item'[remote'[a]].cand = a)
    /\ pc' \in AtWork => /\ cur \in Slot /\ cur' = cur
                         /\ pc \in AtWork \/ Row.status = "queued"
                         /\ item'[cur].alias = item[cur].alias

LEMMA TrackedKeeps ==
    ASSUME TypeOK, AliasInv, Tracked
    PROVE  AliasInv'
<1>1. CandidateOrAlias'
    BY DEF AliasInv, CandidateOrAlias, Tracked, RowChange
<1>2. pc' \in AtWork => item'[cur'].alias = NoAddr
    BY DEF AliasInv, CandidateOrAlias, Tracked
<1>3. ASSUME Trusted PROVE CreatedIsNamed'
  <2> SUFFICES ASSUME NEW a \in Addr, a \notin forgotten', remote'[a] # NoSlot
               PROVE  item'[remote'[a]].cand = a \/ item'[remote'[a]].alias = a
      BY DEF CreatedIsNamed
  <2>1. CASE remote'[a] = remote[a]
    <3>1. remote[a] \in Slot /\ a # NoAddr
        BY <2>1, AddrAssumption DEF TypeOK, DurableTypeOK
    <3>2. item[remote[a]].cand = a \/ item[remote[a]].alias = a
        BY <1>3, <2>1, <3>1 DEF AliasInv, Trusted, CreatedIsNamed, Tracked
    <3> DEFINE s == remote[a]
    <3>3. item'[s] = item[s] \/ RowChange(s, item[s], item'[s])
        BY <3>1 DEF Tracked
    <3>4. item[s].alias # NoAddr => item[s].cand = NoAddr
        BY <3>1 DEF AliasInv, CandidateOrAlias
    <3>5. item[s].cand = a => remote[item[s].cand] = s
        OBVIOUS
    <3> QED BY <1>3, <2>1, <3>1, <3>2, <3>3, <3>4, <3>5 DEF RowChange, DroppedHere
  <2>2. CASE remote'[a] # remote[a]
      BY <2>2 DEF Tracked
  <2> QED BY <2>1, <2>2
<1> QED BY <1>1, <1>2, <1>3 DEF AliasInv, Trusted

\* A transaction on the row the worker is at.
LEMMA WriteTracked ==
    ASSUME TypeOK, cur \in Slot, cur' = cur, remote' = remote,
           forgotten \subseteq forgotten', NEW x, Write(x), RowChange(cur, Row, x),
           pc' \in AtWork => pc \in AtWork /\ x.alias = Row.alias
    PROVE  Tracked
<1>1. item'[cur] = x /\ \A s \in Slot : s # cur => item'[s] = item[s]
    BY DEF TypeOK, DurableTypeOK
<1> QED BY <1>1 DEF Tracked

LEMMA MoveTracked ==
    ASSUME UNCHANGED <<item, remote, forgotten>>,
           pc' \in AtWork => /\ cur \in Slot /\ cur' = cur
                             /\ pc \in AtWork \/ Row.status = "queued"
    PROVE  Tracked
BY DEF Tracked

\* The reserve request is carried out: its row holds the candidate.
LEMMA CreateTracked ==
    ASSUME TypeOK, WorkerAt, pc = "reserve", AppleMayCreate,
           UNCHANGED <<item, forgotten>>,
           pc' \in AtWork => cur' = cur
    PROVE  Tracked
<1>1. /\ cur \in Slot /\ cand \in Addr /\ Row.cand = cand /\ pc \in AtWork
      /\ remote \in [Addr -> Slot \cup {NoSlot}]
    BY AddrAssumption DEF TypeOK, DurableTypeOK, VolatileTypeOK, WorkerAt, WorkerPlace,
       WorkerCandidate, HoldsCandidate, AtWork
<1>2. \A a \in Addr : remote'[a] = remote[a] \/ (a = cand /\ remote'[a] = cur)
    BY <1>1 DEF AppleMayCreate, AppleCreates
<1> QED BY <1>1, <1>2 DEF Tracked

LEMMA RequeueChange ==
    ASSUME TypeOK, NEW s, NEW r \in ItemRow, r.alias = NoAddr,
           NEW c \in Addr \cup {NoAddr}, NEW f \in BOOLEAN,
           NEW x \in {CandidateItem(r, c, f), RetryItem(r, c, f)},
           Trusted /\ r.cand # NoAddr /\ remote[r.cand] = s =>
               c = r.cand \/ (cur = s /\ DroppedHere),
           r.flag /\ r.cand \in local /\ c = r.cand => f
    PROVE  RowChange(s, r, x)
<1>1. x.alias = r.alias /\ x.cand = c /\ x.flag = f /\ x.wait # "rate_limited"
    BY CandidateItemFacts, RetryItemFacts, RequeuedFacts
<1> QED BY <1>1 DEF RowChange

LEMMA DropChange ==
    ASSUME TypeOK, NEW s, NEW r \in ItemRow, r.alias = NoAddr,
           NEW x \in {LimitedItem(r), CapacityItem(r)},
           Trusted /\ r.cand # NoAddr => remote[r.cand] # s
    PROVE  RowChange(s, r, x)
<1>1. x.alias = r.alias /\ x.cand = NoAddr
    BY LimitedItemFacts, CapacityItemFacts, DroppedFacts
<1>2. NoAddr \notin local
    BY AddrAssumption DEF TypeOK, DurableTypeOK
<1> QED BY <1>1, <1>2 DEF RowChange

LEMMA MarkChange ==
    ASSUME NEW s, NEW r \in ItemRow, r.alias # NoAddr => r.status \notin {"queued", "running"},
           NEW x, \/ r.alias = NoAddr /\ \E g \in {"generating", "reserving"} : x = InFlight(r, g)
                  \/ \E t \in {"failed", "unknown"} : x = Settled(r, t)
    PROVE  RowChange(s, r, x)
<1>1. CASE r.alias = NoAddr /\ \E g \in {"generating", "reserving"} : x = InFlight(r, g)
  <2>1. PICK g \in {"generating", "reserving"} : x = InFlight(r, g)
      BY <1>1
  <2>2. x.alias = r.alias /\ x.wait = r.wait /\ x.flag = r.flag
      BY <2>1, MarkedFacts
  <2>3. x.cand = r.cand
      BY <2>1, InFlightFacts
  <2> QED BY <1>1, <2>2, <2>3 DEF RowChange
<1>2. CASE \E t \in {"failed", "unknown"} : x = Settled(r, t)
  <2>1. PICK t \in {"failed", "unknown"} : x = Settled(r, t)
      BY <1>2
  <2>2. x.alias = r.alias /\ x.wait = r.wait /\ x.flag = r.flag
      BY <2>1, MarkedFacts
  <2>3. x.cand = r.cand /\ x.status = t
      BY <2>1, SettledFacts
  <2> QED BY <2>2, <2>3 DEF RowChange
<1> QED BY <1>1, <1>2

\* The row the worker works on.
LEMMA AtWorkFacts ==
    ASSUME TypeOK, WorkerAt, AliasInv, pc \in AtWork \cup {"fault"}
    PROVE  /\ cur \in Slot /\ Row \in ItemRow
           /\ pc \in AtWork => Row.alias = NoAddr
           /\ Row.alias # NoAddr => Row.status \notin {"queued", "running"}
           /\ cand \in Addr \cup {NoAddr} /\ Row.cand \in Addr \cup {NoAddr}
           /\ attempted \in BOOLEAN /\ Row.flag \in BOOLEAN
           /\ pc \in {"snapshot", "fence", "reserve", "resnap"} => Row.cand = cand /\ cand # NoAddr
           /\ NoAddr \notin local
<1>1. cur \in Slot /\ Row \in ItemRow
    BY DEF TypeOK, DurableTypeOK, WorkerAt, WorkerPlace, AtWork, HoldsCandidate
<1>2. Row.cand \in Addr \cup {NoAddr} /\ Row.flag \in BOOLEAN
    BY <1>1 DEF ItemRow
<1>3. /\ pc \in AtWork => Row.alias = NoAddr
      /\ Row.alias # NoAddr => Row.status \notin {"queued", "running"}
    BY <1>1 DEF AliasInv, CandidateOrAlias
<1>4. cand \in Addr \cup {NoAddr} /\ attempted \in BOOLEAN /\ NoAddr \notin local
    BY AddrAssumption DEF TypeOK, DurableTypeOK, VolatileTypeOK, FlagTypeOK
<1>5. pc \in {"snapshot", "fence", "reserve", "resnap"} => Row.cand = cand /\ cand # NoAddr
    BY DEF WorkerAt, WorkerCandidate, HoldsCandidate
<1> QED BY <1>1, <1>2, <1>3, <1>4, <1>5

\* The handler of a stop keeps a candidate that may have been reserved, marked;
\* in the prelude it drops it.
LEMMA StopTracked ==
    ASSUME TypeOK, WorkerAt, AliasInv, StopItem,
           \/ pc \in {"snapshot", "fence", "resnap"} /\ UNCHANGED forgotten
           \/ PreludeDrops
    PROVE  Tracked
<1> DEFINE f == cand # NoAddr /\ (attempted \/ Row.flag)
<1>1. /\ pc \in AtWork /\ pc' \notin AtWork /\ cur' = cur /\ remote' = remote
      /\ f \in BOOLEAN /\ Write(CandidateItem(Row, cand, f))
      /\ forgotten \subseteq forgotten'
    BY DEF StopItem, PreludeDrops, AtWork, HoldsCandidate
<1>2. Row.cand # NoAddr /\ remote[Row.cand] = cur => cand = Row.cand \/ DroppedHere
    BY <1>1, AtWorkFacts DEF PreludeDrops, DroppedHere
<1>3. RowChange(cur, Row, CandidateItem(Row, cand, f))
  <2>1. Row.flag /\ Row.cand \in local /\ cand = Row.cand => f
      BY <1>1, AtWorkFacts
  <2> HIDE DEF f
  <2> QED BY <1>1, <1>2, <2>1, AtWorkFacts, RequeueChange
<1> HIDE DEF f
<1> QED BY <1>1, <1>3, AtWorkFacts, WriteTracked

LEMMA RetryTracked ==
    ASSUME TypeOK, WorkerAt, AliasInv, pc \in AtWork,
           NEW c \in Addr \cup {NoAddr}, NEW f \in BOOLEAN,
           NEW l \in {"pauseJob", "parkJob"}, Retry(c, f, l), forgotten \subseteq forgotten',
           Trusted /\ Row.cand # NoAddr /\ remote[Row.cand] = cur =>
               c = Row.cand \/ DroppedHere,
           Row.flag /\ Row.cand \in local /\ c = Row.cand => f
    PROVE  Tracked
<1>1. pc' \notin AtWork /\ cur' = cur /\ remote' = remote /\ Write(RetryItem(Row, c, f))
    BY DEF Retry, Pause, AtWork, HoldsCandidate
<1>2. RowChange(cur, Row, RetryItem(Row, c, f))
    BY AtWorkFacts, RequeueChange
<1> QED BY <1>1, <1>2, AtWorkFacts, WriteTracked

\* Apple's answer says that the candidate was not created.
LEMMA PauseTracked ==
    ASSUME TypeOK, WorkerAt, AliasInv, pc \in AtWork, PauseForCapacity \/ PauseForRateLimit,
           Trusted /\ Row.cand # NoAddr => remote[Row.cand] # cur
    PROVE  Tracked
<1>1. PICK x \in {LimitedItem(Row), CapacityItem(Row)} : Write(x)
    BY DEF PauseForCapacity, PauseForRateLimit
<1>2. pc' \notin AtWork /\ cur' = cur /\ remote' = remote /\ forgotten' = forgotten
    BY DEF PauseForCapacity, PauseForRateLimit, AtWork, HoldsCandidate
<1>3. RowChange(cur, Row, x)
    BY AtWorkFacts, DropChange
<1> QED BY <1>1, <1>2, <1>3, AtWorkFacts, WriteTracked

LEMMA FailTracked ==
    ASSUME TypeOK, WorkerAt, AliasInv, pc \in AtWork \cup {"fault"}, FailItem
    PROVE  Tracked
<1>1. pc' \notin AtWork /\ cur' = cur /\ remote' = remote /\ forgotten' = forgotten
    BY DEF FailItem, AtWork, HoldsCandidate
<1>2. CASE stopping
    BY <1>1, <1>2, MoveTracked DEF FailItem
<1>3. CASE ~stopping
  <2>1. Settled(Row, "failed").status = "failed" /\ Write(Settled(Row, "failed"))
      BY <1>3, AtWorkFacts, SettledFacts DEF FailItem
  <2>2. RowChange(cur, Row, Settled(Row, "failed"))
      BY <2>1, AtWorkFacts, MarkChange
  <2> QED BY <1>1, <2>1, <2>2, AtWorkFacts, WriteTracked
<1> QED BY <1>2, <1>3

LEMMA PreludeTracked ==
    ASSUME TypeOK, WorkerAt, AliasInv, Prelude
    PROVE  Tracked
<1>1. pc \in {"prelude", "loaded"} /\ pc \in AtWork /\ (pc = "prelude" => cand = NoAddr)
    BY DEF Prelude, PreludeDone, PreludeStopped, PreludeDrops, PreludeUnreachable, PreludeBusy,
       BeginGenerate, WorkerAt, WorkerCandidate, AtWork
<1>2. CASE PreludeDone
    BY <1>1, <1>2, AtWorkFacts, MoveTracked DEF PreludeDone
<1>3. CASE PreludeStopped
    BY <1>3, StopTracked DEF PreludeStopped, PreludeDrops
<1>4. CASE PreludeUnreachable
  <2>1. forgotten \subseteq forgotten'
      BY <1>4 DEF PreludeUnreachable, PreludeDrops
  <2>2. Row.cand # NoAddr /\ remote[Row.cand] = cur => DroppedHere
      BY <1>4, AtWorkFacts DEF PreludeUnreachable, PreludeDrops, DroppedHere, AtWork
  <2>3. Row.cand \in local => Row.cand # NoAddr
      BY <1>1, AtWorkFacts
  <2> QED BY <1>1, <1>4, <2>1, <2>2, <2>3, AtWorkFacts, PreludeUnreachableRetry,
          RetryTracked
<1>5. CASE PreludeBusy
    BY <1>1, <1>5, FailTracked DEF PreludeBusy
<1>6. CASE BeginGenerate
  <2>1. RowChange(cur, Row, InFlight(Row, "generating"))
      BY <1>1, AtWorkFacts, MarkChange
  <2>2. InFlight(Row, "generating").alias = Row.alias
      BY <1>1, AtWorkFacts, MarkedFacts
  <2> QED BY <1>1, <1>6, <2>1, <2>2, AtWorkFacts, WriteTracked DEF BeginGenerate
<1> QED BY <1>2, <1>3, <1>4, <1>5, <1>6 DEF Prelude

LEMMA GenerateTracked ==
    ASSUME TypeOK, WorkerAt, AliasInv, Generate
    PROVE  Tracked
<1>1. pc = "generate" /\ pc \in AtWork /\ Row.cand = NoAddr
    BY DEF Generate, GenerateOk, GenerateFull, GenerateLimited, GenerateUnreachable,
       GenerateFails, WorkerAt, WorkerCandidate, AtWork
<1>2. ASSUME NEW a \in Addr, GenerateOk(a) PROVE Tracked
  <2>1. CandidateItem(Row, a, FALSE).alias = Row.alias
      BY <1>1, AtWorkFacts, CandidateItemFacts
  <2>2. RowChange(cur, Row, CandidateItem(Row, a, FALSE))
      BY <1>1, AtWorkFacts, RequeueChange
  <2> QED BY <1>1, <1>2, <2>1, <2>2, AtWorkFacts, WriteTracked DEF GenerateOk
<1>3. CASE GenerateFull \/ GenerateLimited
    BY <1>1, <1>3, PauseTracked DEF GenerateFull, GenerateLimited
<1>4. CASE GenerateUnreachable
    BY <1>1, <1>4, AtWorkFacts, RetryTracked DEF GenerateUnreachable
<1>5. CASE GenerateFails
    BY <1>1, <1>5, FailTracked DEF GenerateFails
<1> QED BY <1>2, <1>3, <1>4, <1>5 DEF Generate

LEMMA SnapshotTracked ==
    ASSUME TypeOK, WorkerAt, AliasInv, Snapshot
    PROVE  Tracked
<1>1. pc \in {"snapshot", "resnap"} /\ pc \in AtWork
    BY DEF Snapshot, SnapshotFound, SnapshotAbsent, ResnapFound, ResnapAbsent,
       SnapshotUnavailable, SnapshotStopped, ResnapUnavailable, ResnapStopped, AtWork,
       HoldsCandidate
<1>2. ASSUME NEW listed \in AppleLists, SnapshotFound(listed) \/ ResnapFound(listed)
      PROVE  Tracked
    BY <1>1, <1>2, AtWorkFacts, MoveTracked DEF SnapshotFound, ResnapFound, Complete
<1>3. ASSUME NEW listed \in AppleLists, SnapshotAbsent(listed) PROVE Tracked
  <2>1. CandidateItem(Row, cand, FALSE).alias = Row.alias
      BY <1>1, AtWorkFacts, CandidateItemFacts
  <2>2. cand \notin local
      BY <1>3 DEF SnapshotAbsent, Absent
  <2>3. RowChange(cur, Row, CandidateItem(Row, cand, FALSE))
      BY <1>1, <2>2, AtWorkFacts, RequeueChange
  <2> QED BY <1>1, <1>3, <2>1, <2>3, AtWorkFacts, WriteTracked DEF SnapshotAbsent
<1>4. ASSUME NEW listed \in AppleLists, ResnapAbsent(listed) PROVE Tracked
  <2>1. ~ListMayTruncate => remote[cand] = NoSlot
      BY <1>1, <1>4, AtWorkFacts DEF ResnapAbsent, Absent, AppleLists
  <2>2. CASE explicit
    <3>1. Trusted /\ Row.cand # NoAddr => remote[Row.cand] # cur
        BY <1>1, <2>1, AtWorkFacts, SlotFacts DEF Trusted
    <3>2. Row.cand \in local => Row.cand # NoAddr
        BY <1>1, AtWorkFacts
    <3> QED BY <1>1, <1>4, <2>2, <3>1, <3>2, AtWorkFacts, RetryTracked DEF ResnapAbsent, Pause
  <2>3. CASE ~explicit
      BY <1>1, <1>4, <2>3, AtWorkFacts, RetryTracked DEF ResnapAbsent, Pause
  <2> QED BY <2>2, <2>3
<1>5. CASE SnapshotUnavailable \/ ResnapUnavailable
    BY <1>1, <1>5, AtWorkFacts, RetryTracked DEF SnapshotUnavailable, ResnapUnavailable, Pause
<1>6. CASE SnapshotStopped \/ ResnapStopped
    BY <1>6, StopTracked DEF SnapshotStopped, ResnapStopped, StopKept
<1> QED BY <1>2, <1>3, <1>4, <1>5, <1>6 DEF Snapshot

LEMMA ReserveTracked ==
    ASSUME TypeOK, WorkerAt, AliasInv, ~ListMayTruncate => NoRepeatedReserve, Reserve
    PROVE  Tracked
<1>1. pc \in {"fence", "reserve"} /\ pc \in AtWork
    BY DEF Reserve, FenceStopped, BeginReserve, ReserveOk, ReserveLost, ReserveRejected,
       ReserveFails, ReserveFull, ReserveLimited, AtWork, HoldsCandidate
<1>2. CASE FenceStopped
    BY <1>2, StopTracked DEF FenceStopped, StopKept
<1>3. CASE BeginReserve
  <2>1. RowChange(cur, Row, InFlight(Row, "reserving"))
      BY <1>1, AtWorkFacts, MarkChange
  <2>2. InFlight(Row, "reserving").alias = Row.alias
      BY <1>1, AtWorkFacts, MarkedFacts
  <2> QED BY <1>1, <1>3, <2>1, <2>2, AtWorkFacts, WriteTracked DEF BeginReserve
<1>4. CASE ReserveOk \/ ReserveLost \/ ReserveRejected
    BY <1>4, CreateTracked DEF ReserveOk, ReserveLost, ReserveRejected, ReserveFails,
       AppleMayCreate
<1>5. CASE ReserveFull \/ ReserveLimited
  <2>1. Trusted => remote[cand] = NoSlot
      BY <1>5 DEF ReserveFull, ReserveLimited, NoRepeatedReserve, Trusted
  <2>2. Trusted /\ Row.cand # NoAddr => remote[Row.cand] # cur
      BY <1>1, <2>1, AtWorkFacts, SlotFacts
  <2> QED BY <1>1, <1>5, <2>2, PauseTracked DEF ReserveFull, ReserveLimited
<1> QED BY <1>2, <1>3, <1>4, <1>5 DEF Reserve

LEMMA CompletionTracked ==
    ASSUME TypeOK, WorkerAt, AliasInv, Completion
    PROVE  Tracked
<1>1. CASE UpsertAlias \/ IssueKey
  <2>1. pc \in AtWork
      BY <1>1 DEF UpsertAlias, IssueKey, AtWork, HoldsCandidate
  <2> QED BY <1>1, <2>1, AtWorkFacts, MoveTracked DEF UpsertAlias, IssueKey
<1>2. CASE RecordSuccess
  <2>1. pc \in AtWork /\ pc' \notin AtWork /\ cand # NoAddr /\ Row.cand = cand
      BY <1>2 DEF RecordSuccess, AtWork, HoldsCandidate, WorkerAt, WorkerCandidate
  <2>2. RowChange(cur, Row, Succeeded(cand))
      BY <2>1 DEF RowChange, Succeeded
  <2> QED BY <1>2, <2>1, <2>2, AtWorkFacts, WriteTracked DEF RecordSuccess
<1>3. CASE Audit \/ WorkerFailsSafely
    BY <1>3, MoveTracked DEF Audit, WorkerFailsSafely, AtWork, HoldsCandidate
<1>4. CASE UnexpectedError
    BY <1>4, MoveTracked, CreateTracked DEF UnexpectedError, AtWork, HoldsCandidate
<1>5. CASE MarkUnknown
  <2>1. RowChange(cur, Row, Settled(Row, "unknown"))
      BY <1>5, AtWorkFacts, MarkChange DEF MarkUnknown
  <2> QED BY <1>5, <2>1, AtWorkFacts, WriteTracked DEF MarkUnknown, AtWork, HoldsCandidate
<1>6. CASE MarkFailed
    BY <1>6, FailTracked DEF MarkFailed
<1> QED BY <1>1, <1>2, <1>3, <1>4, <1>5, <1>6 DEF Completion

LEMMA LoopTracked ==
    ASSUME TypeOK, WorkerAt, AliasInv, Loop
    PROVE  Tracked
<1>1. CASE ClearWait
  <2>1. pc \in AtWork /\ pc' \notin AtWork
      BY <1>1 DEF ClearWait, AtWork, HoldsCandidate
  <2>2. /\ ClearedItem(Row).alias = Row.alias /\ ClearedItem(Row).wait = "none"
        /\ ClearedItem(Row).cand \in {Row.cand, NoAddr}
        /\ Row.wait # "rate_limited" =>
               ClearedItem(Row).cand = Row.cand /\ ClearedItem(Row).flag = Row.flag
      BY <2>1, AtWorkFacts, ClearedFacts, ClearedItemFacts
  <2>3. Row.wait = "rate_limited" => Row.cand = NoAddr
      BY <2>1, AtWorkFacts DEF AliasInv, CandidateOrAlias
  <2>4. RowChange(cur, Row, ClearedItem(Row))
      BY <2>1, <2>2, <2>3, AtWorkFacts DEF RowChange
  <2> QED BY <1>1, <2>1, <2>4, AtWorkFacts, WriteTracked DEF ClearWait
<1>2. CASE RunItem \/ WaitExpired
  <2>1. cur \in Slot
      BY <1>2, SlotFacts DEF RunItem, WaitExpired, WorkerAt, WorkerPlace, TypeOK, VolatileTypeOK
  <2> QED BY <1>2, <2>1, MoveTracked DEF RunItem, WaitExpired
<1>3. CASE WaitOver
    BY <1>3, MoveTracked DEF WaitOver, WorkerAt, WorkerPlace, WorkerStatus, AtWork,
       HoldsCandidate
<1>4. ASSUME NEW j \in Job, Claim(j) PROVE Tracked
    BY <1>4, MoveTracked DEF Claim, AtWork, HoldsCandidate
<1>5. CASE Exit \/ StopAtScan \/ SkipSettled \/ WaitForResume \/ WaitStopped \/ Finish
           \/ PauseJob \/ PauseAudit \/ PauseFull \/ ParkJob \/ Halt \/ NextItem
    BY <1>5, MoveTracked DEF Exit, StopAtScan, SkipSettled, WaitForResume, WaitStopped,
       Finish, PauseJob, PauseAudit, PauseFull, ParkJob, Halt, NextItem, Requeue, Advance, AtWork, HoldsCandidate
<1> QED BY <1>1, <1>2, <1>3, <1>4, <1>5 DEF Loop

LEMMA StartTracked ==
    ASSUME TypeOK, AliasInv, Start
    PROVE  Tracked
<1>1. pc' \notin AtWork /\ remote' = remote /\ forgotten' = forgotten
    BY DEF Start, AtWork, HoldsCandidate
<1>2. \A s \in Slot : item[s] \in ItemRow /\ item'[s] = RecoveredItem(item[s])
    BY DEF Start, TypeOK, DurableTypeOK
<1>3. ASSUME NEW s \in Slot PROVE item'[s] = item[s] \/ RowChange(s, item[s], item'[s])
  <2>1. item[s].alias # NoAddr => item[s].status # "running"
      BY DEF AliasInv, CandidateOrAlias
  <2> QED BY <1>2, <2>1, RecoveredItemFacts, RecoveredFacts DEF RowChange
<1> QED BY <1>1, <1>3 DEF Tracked

LEMMA EnvironmentTracked ==
    ASSUME TypeOK, WorkerAt, AliasInv, Environment
    PROVE  Tracked
<1>1. CASE RequestStop
    BY <1>1, AtWorkFacts, MoveTracked DEF RequestStop
<1>2. CASE Crash
    BY <1>2, CreateTracked, MoveTracked DEF Crash, AtWork, HoldsCandidate
<1>3. ASSUME NEW listed \in AppleLists, SyncAliases(listed) PROVE Tracked
    BY <1>3, AtWorkFacts, MoveTracked DEF SyncAliases
<1>4. ASSUME NEW j \in Job, Submit(j) PROVE Tracked
    BY <1>4, AtWorkFacts, MoveTracked DEF Submit
<1>5. ASSUME NEW j \in Job, Resume(j) PROVE Tracked
  <2>1. UNCHANGED <<pc, cur, remote, forgotten>>
      BY <1>5 DEF Resume
  <2>2. ASSUME NEW s \in Slot
        PROVE  item'[s] = item[s] \/ RowChange(s, item[s], item'[s])
    <3>1. item[s] \in ItemRow
        BY DEF TypeOK, DurableTypeOK
    <3>2. item'[s] = item[s]
          \/ (s[1] = j /\ item[s].status = "unknown" /\ item'[s] = Reconciling(item[s]))
        BY <1>5 DEF Resume
    <3>3. s[1] = j /\ item[s].status = "unknown" => item[s].cand # NoAddr
        BY <1>5, SlotParts DEF Resume, Reconcilable, UnknownItems
    <3>4. item[s].cand # NoAddr => item[s].alias = NoAddr
        BY DEF AliasInv, CandidateOrAlias
    <3> QED BY <3>1, <3>2, <3>3, <3>4, ReconcilingFacts, MarkedFacts DEF RowChange
  <2>3. pc \in AtWork => cur \in Slot /\ item'[cur].alias = item[cur].alias
    <3>1. ASSUME pc \in AtWork
          PROVE  cur \in Slot /\ item[cur] \in ItemRow
        BY <3>1, AtWorkFacts
    <3>2. pc \in AtWork => item'[cur] \in {item[cur], Reconciling(item[cur])}
        BY <1>5, <3>1 DEF Resume
    <3> QED BY <3>1, <3>2, MarkedFacts
  <2> QED BY <2>1, <2>2, <2>3 DEF Tracked
<1> QED BY <1>1, <1>2, <1>3, <1>4, <1>5 DEF Environment

LEMMA NextTracked ==
    ASSUME IInv, AliasInv, Next
    PROVE  Tracked
<1>1. TypeOK /\ WorkerAt /\ (~ListMayTruncate => NoRepeatedReserve)
    BY DEF IInv
<1> QED BY <1>1, StartTracked, LoopTracked, PreludeTracked, GenerateTracked,
       SnapshotTracked, ReserveTracked, CompletionTracked, EnvironmentTracked
       DEF Next, Worker

LEMMA InitAlias ==
    ASSUME Init
    PROVE  AliasInv
BY DEF Init, NewItem, AliasInv, CandidateOrAlias, AtWork, HoldsCandidate, CreatedIsNamed

-----------------------------------------------------------------------------
(* The theorems.                                                           *)

LEMMA InitIInv ==
    ASSUME Init
    PROVE  IInv
<1>1. NewItem \in ItemRow /\ NewItem.status = "queued" /\ NewItem.cand = NoAddr
    BY DEF NewItem, ItemRow, ItemStatus, Stage, Wait
<1>2. \A s \in Slot : item[s] = NewItem
    BY DEF Init
<1>3. DurableTypeOK
    BY <1>1 DEF Init, DurableTypeOK, JobStatus
<1>4. VolatileTypeOK
    BY DEF Init, VolatileTypeOK, PcState
<1>5. FlagTypeOK
    BY DEF Init, FlagTypeOK
<1>9. HistoryTypeOK
    BY DEF Init, HistoryTypeOK
<1>6. WorkerAt
    BY DEF Init, WorkerAt, WorkerPlace, WorkerStatus, WorkerCandidate, WorkerFlag,
       WorkerAlias, HoldsCandidate
<1>7. RowsOK
    BY <1>1, <1>2 DEF RowsOK, CandidatesOwned, GeneratingHasNoCandidate,
       SuccessBacked, UnflaggedIsFree
<1>8. NoRepeatedReserve
    BY DEF Init, NoRepeatedReserve
<1> QED BY <1>3, <1>4, <1>5, <1>6, <1>7, <1>8, <1>9 DEF IInv, TypeOK

LEMMA StepIInv == IInv /\ [Next]_vars => IInv'
<1> SUFFICES ASSUME IInv, [Next]_vars PROVE IInv'
    OBVIOUS
<1>1. CASE Next
  <2>1. TypeOK'
      BY <1>1, FlagTypeStep, HistoryTypeStep, VolatileTypeStep, DurableTypeStep
         DEF IInv, TypeOK
  <2>2. WorkerAt'
      BY <1>1, PlaceStep DEF IInv
  <2>3. RowsOK'
      BY <1>1, RowsStep DEF IInv
  <2>4. ~ListMayTruncate => NoRepeatedReserve'
      BY <1>1, ReserveStep DEF IInv
  <2> QED BY <2>1, <2>2, <2>3, <2>4 DEF IInv
<1>2. CASE UNCHANGED vars
    BY <1>2 DEF vars, IInv, TypeOK, DurableTypeOK, VolatileTypeOK, FlagTypeOK,
       HistoryTypeOK,
       WorkerAt, WorkerPlace, WorkerStatus, WorkerCandidate, WorkerFlag, WorkerAlias,
       RowsOK, CandidatesOwned, GeneratingHasNoCandidate, SuccessBacked,
       UnflaggedIsFree, NoRepeatedReserve
<1> QED BY <1>1, <1>2

\* The inductive invariant holds in every behaviour of the batch worker.
THEOREM Invariance == Spec => []IInv
<1>1. Init => IInv BY InitIInv
<1>2. IInv /\ [Next]_vars => IInv' BY StepIInv
<1> QED BY <1>1, <1>2, PTL DEF Spec

\* Every variable of the worker, of its tables and of Apple keeps its type.
THEOREM TypeCorrect == Spec => []TypeOK
<1>1. IInv => TypeOK BY DEF IInv
<1> QED BY <1>1, Invariance, PTL

\* A row reported as a success always names an alias that this very row created
\* at Apple, that the database lists and that has an access key: lost answers,
\* truncated lists, crashes, stops, resumes and unexpected errors included.
THEOREM SuccessIsBacked == Spec => []SuccessBacked
<1>1. IInv => SuccessBacked BY DEF IInv, RowsOK
<1> QED BY <1>1, Invariance, PTL

\* If Apple's list is complete whenever it answers, reserve is never sent for a
\* candidate that already exists there, although its answers may be lost, the
\* process may crash or stop anywhere and operators may resume stopped jobs.
THEOREM NeverReservedTwice ==
    ASSUME ~ListMayTruncate
    PROVE  Spec => []NoRepeatedReserve
<1>1. IInv => NoRepeatedReserve BY DEF IInv
<1> QED BY <1>1, Invariance, PTL

\* What the loop of _run_job knows of the jobs it holds, passed and will claim
\* is never lost (LoopInv), at any stop, crash, fault or resume.
THEOREM LoopInvariance == Spec => [](IInv /\ LoopInv)
<1>1. Init => LoopInv BY InitLoop
<1>2. IInv /\ LoopInv /\ [Next]_vars => LoopInv'
  <2> SUFFICES ASSUME IInv, LoopInv, [Next]_vars PROVE LoopInv'
      OBVIOUS
  <2>1. CASE Next
      BY <2>1, LoopStep DEF IInv
  <2>2. CASE UNCHANGED vars
      BY <2>2 DEF vars, LoopInv, HeldJob, NoDoubt, Unbegun, OneRunning, OneHeld,
         DoubtIsShown, PassedDecided, Decided, TerminalSettled, Held, UnknownItems, Successes
  <2> QED BY <2>1, <2>2
<1> QED BY <1>1, <1>2, Invariance, PTL DEF Spec

\* A job that would be claimed has no row whose outcome is unknown, whatever the
\* switches, unless the audit row of a pause failed after the job was queued and
\* the worker went on with it: automatic replay goes over no other write that may
\* have happened.
THEOREM DoubtStops == Spec => []DoubtStopsReplay
<1>1. LoopInv => DoubtStopsReplay BY DEF LoopInv, NoDoubt, DoubtStopsReplay
<1> QED BY <1>1, LoopInvariance, PTL

\* Unless a handler itself fails, a job is shown as running only while the worker
\* holds it, and a row only while the worker is at it.
THEOREM NothingStranded ==
    ASSUME ~UnexpectedErrors
    PROVE  Spec => []NoStrandedWork
<1>1. LoopInv => NoStrandedWork
    BY DEF LoopInv, OneHeld, OneRunning, Held, NoStrandedWork
<1> QED BY <1>1, LoopInvariance, PTL

\* Unless a handler itself fails, a finished job has decided every row and its
\* verdict is theirs, over every wait, requeue, stop, crash and resume.
THEOREM VerdictIsRight ==
    ASSUME ~UnexpectedErrors
    PROVE  Spec => []TerminalSettled
<1>1. LoopInv => TerminalSettled BY DEF LoopInv
<1> QED BY <1>1, LoopInvariance, PTL

\* Every alias Apple created for a row is the candidate or the alias of that row
\* (AliasInv), so a crash or a lost answer does not lose track of it.
THEOREM AliasInvariance == Spec => [](IInv /\ AliasInv)
<1>1. Init => AliasInv BY InitAlias
<1>2. IInv /\ AliasInv /\ [Next]_vars => AliasInv'
  <2> SUFFICES ASSUME IInv, AliasInv, [Next]_vars PROVE AliasInv'
      OBVIOUS
  <2>1. CASE Next
      BY <2>1, NextTracked, TrackedKeeps DEF IInv
  <2>2. CASE UNCHANGED vars
      BY <2>2 DEF vars, AliasInv, CandidateOrAlias, CreatedIsNamed
  <2> QED BY <2>1, <2>2
<1> QED BY <1>1, <1>2, Invariance, PTL DEF Spec

\* If Apple's list is complete whenever it answers, an item that asks for one
\* alias makes Apple create at most one, beside those whose candidate an
\* interrupted prelude dropped.
THEOREM OneAlias ==
    ASSUME ~ListMayTruncate
    PROVE  Spec => []OneAliasPerItem
<1>1. IInv /\ AliasInv => OneAliasPerItem
  <2> SUFFICES ASSUME AliasInv, NEW s \in Slot, NEW a \in Addr \ forgotten,
                      NEW b \in Addr \ forgotten, remote[a] = s, remote[b] = s
               PROVE  a = b
      BY DEF OneAliasPerItem
  <2>1. \A c \in {a, b} : item[s].cand = c \/ item[s].alias = c
      BY SlotFacts DEF AliasInv, CreatedIsNamed
  <2>2. item[s].alias # NoAddr => item[s].cand = NoAddr
      BY DEF AliasInv, CandidateOrAlias
  <2> QED BY <2>1, <2>2, AddrAssumption
<1> QED BY <1>1, AliasInvariance, PTL

\* Under the same condition only an interrupted prelude at the row itself drops
\* the candidate of a row for which Apple has created it, until it is the row's
\* alias.
THEOREM CandidateIsKept ==
    ASSUME ~ListMayTruncate
    PROVE  Spec => OnlyPreludeDrops
<1>1. IInv /\ AliasInv /\ [Next]_vars =>
        [\A s \in Slot :
            item[s].cand # NoAddr /\ remote[item[s].cand] = s =>
                \/ item'[s].cand = item[s].cand
                \/ item'[s].status = "success" /\ item'[s].alias = item[s].cand
                \/ pc = "prelude" /\ cur = s]_vars
    BY NextTracked DEF Tracked, RowChange, Trusted, DroppedHere
<1> QED BY <1>1, AliasInvariance, PTL DEF Spec, OnlyPreludeDrops

\* Whatever Apple's list omits, no step takes the mark "look it up first" off a
\* candidate that the database lists as an alias.
THEOREM MarkIsKept == Spec => KnownCandidateStaysMarked
<1>1. IInv /\ AliasInv /\ [Next]_vars =>
        [\A s \in Slot :
            item[s].flag /\ item[s].cand \in local
                /\ item'[s].cand = item[s].cand => item'[s].flag]_vars
    BY NextTracked DEF Tracked, RowChange
<1> QED BY <1>1, AliasInvariance, PTL DEF Spec, KnownCandidateStaysMarked

\* The invariant of the whole worker, which the runs check as well.
THEOREM WorkerInvariance == Spec => []WorkerInv
<1>1. IInv /\ LoopInv /\ AliasInv => WorkerInv BY DEF WorkerInv
<1> QED BY <1>1, LoopInvariance, AliasInvariance, PTL
=============================================================================
