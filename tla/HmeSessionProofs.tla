--------------------------- MODULE HmeSessionProofs ---------------------------
(***************************************************************************)
(* Theorems about HmeSession, for every set of threads and aliases and     *)
(* every bound.  IInv is inductive.  The argument is the same for all the  *)
(* steps: what a thread relies on is either guarded by the generation,     *)
(* which moves with every change of a row or a stored session outside a    *)
(* write, or by the fence, which one thread holds.  StepPreserves says so  *)
(* once for all the threads that a step is not about; each action then     *)
(* only owes what it does to its own thread.                               *)
(***************************************************************************)
EXTENDS HmeSession, TLAPS

\* What IInv says of the locals of a thread.
Own(t) == SnapshotCurrent(t) /\ WriteCurrent(t) /\ Coherent(th[t])

\* A step of a thread moves that thread only.
Moves(t) == \A u \in Thread : u # t => th'[u] = th[u]

\* The clocks of the system never go back.
Forward ==
    /\ \A a \in Alias : apple[a] <= apple'[a]
    /\ issued <= issued' /\ generation <= generation' /\ (stop => stop')

\* The lock and the fence change hands between a thread and nobody.
LockStep(t) ==
    /\ hmeLock' = hmeLock \/ (hmeLock \in {None, t} /\ hmeLock' \in {None, t})
    /\ hmeLock' = t <=> KeepsLock(th'[t])
FenceStep(t) ==
    /\ remoteWrite' = t <=> HoldsFence(th'[t])
    /\ \/ /\ remoteWrite' = remoteWrite /\ active' = active
          /\ remoteWrite = t => (th'[t].at = "activate" <=> th[t].at = "activate")
       \/ /\ remoteWrite \in {None, t}
          /\ \/ remoteWrite' = t /\ (active' <=> th'[t].at # "activate")
             \/ remoteWrite' = None /\ ~active'
    /\ active' /\ ~active => generation < generation'

\* A row or a stored session changes with the generation, or inside the write of
\* the thread that holds the fence.
DataStep(t) ==
    \/ UNCHANGED <<row, session>>
    \/ ~active /\ generation < generation'
    \/ active /\ remoteWrite = t

\* A refresh starts only when none is flagged, and the flag falls only with it.
FlightStep(t) ==
    \/ stop'
    \/ /\ InFlight(th'[t])
       /\ (InFlight(th[t]) /\ refreshing' = refreshing) \/ (~refreshing /\ refreshing')
    \/ /\ ~InFlight(th'[t])
       /\ refreshing' = refreshing \/ InFlight(th[t])

LEMMA NumberFacts ==
    /\ MaxChange \in Nat /\ Gone \in Nat /\ Removed \in Nat /\ Removed = Gone + 1
    /\ Gone = MaxChange + 1 /\ Unborn = -1
    /\ None \notin Thread /\ None \notin Alias
BY HmeBoundsAssumption, NoneAssumption DEF Gone, Removed, Unborn

-----------------------------------------------------------------------------
(* The threads that a step is not about.                                   *)

LEMMA OthersSnapshot ==
    ASSUME IInv, NEW t \in Thread, NEW u \in Thread, u # t, TypeOK', Moves(t), Forward,
           FenceStep(t), DataStep(t)
    PROVE  SnapshotCurrent(u)'
<1>1. th'[u] = th[u] /\ SnapshotCurrent(u) /\ th[u] \in Locals
    BY DEF Moves, IInv, TypeOK
<1>2. generation \in Nat /\ generation' \in Nat /\ generation <= generation'
    BY DEF Forward, IInv, TypeOK
<1>3. th'[u].seen <= generation'
    BY <1>1, <1>2 DEF SnapshotCurrent, Locals
<1>4. ASSUME Current(u)'
      PROVE  /\ Current(u) /\ generation' = generation
             /\ During(u)' \/ ~active'
             /\ During(u) \/ ~active
    <2>1. generation' = generation /\ Current(u)
        BY <1>1, <1>2, <1>4 DEF Current, SnapshotCurrent, Locals
    <2>2. During(u) \/ ~active
        BY <2>1, <1>1 DEF SnapshotCurrent
    <2>3. During(u) => During(u)'
        BY NumberFacts DEF During, FenceStep
    <2>4. ~active => ~active'
        BY <2>1, <1>2 DEF FenceStep
    <2> QED BY <2>1, <2>2, <2>3, <2>4
<1>5. Current(u)' => UNCHANGED <<row, session>>
    BY <1>4, <1>2 DEF DataStep, During
<1>6. \A a \in Alias : apple[a] \in Int /\ apple'[a] \in Int /\ apple[a] <= apple'[a]
    BY NumberFacts DEF Forward, IInv, TypeOK, History
<1>7. \A a \in Alias : th[u].list[a] \in Int
    BY <1>1, NumberFacts DEF Locals, History
<1>8. th'[u].at = "commit" =>
        \A a \in Alias : /\ th'[u].list[a] <= apple'[a]
                         /\ Current(u)' => Behind(th[u].list, a)'
    BY <1>1, <1>4, <1>5, <1>6, <1>7 DEF SnapshotCurrent, Behind
<1>9. Current(u)' /\ th'[u].at \in {"list", "commit"} /\ th'[u].task # "sync" =>
          session' < th'[u].cand
    BY <1>1, <1>4, <1>5 DEF SnapshotCurrent
<1> QED BY <1>1, <1>3, <1>4, <1>8, <1>9 DEF SnapshotCurrent, Behind

LEMMA OthersWrite ==
    ASSUME IInv, NEW t \in Thread, NEW u \in Thread, u # t, TypeOK', Moves(t), Forward,
           DataStep(t)
    PROVE  WriteCurrent(u)'
<1>1. th'[u] = th[u] /\ WriteCurrent(u) /\ th[u] \in Locals
    BY DEF Moves, IInv, TypeOK
<1>2. ASSUME th[u].at \in {"write", "confirm", "apply", "store"}
      PROVE  UNCHANGED <<row, session>>
    <2>1. HoldsFence(th[u])
        BY <1>2 DEF HoldsFence, Fenced
    <2>2. remoteWrite = u /\ active
        BY <1>2, <2>1, NumberFacts DEF IInv, FenceHeld
    <2> QED BY <2>2 DEF DataStep
<1>3. \A a \in Alias : apple[a] \in Int /\ apple'[a] \in Int /\ apple[a] <= apple'[a]
    BY NumberFacts DEF Forward, IInv, TypeOK, History
<1>4. \A a \in Alias : th[u].list[a] \in Int
    BY <1>1, NumberFacts DEF Locals, History
<1>5. th'[u].at \in {"write", "confirm", "apply"} => row'[th'[u].target] \in 0 .. Gone
    BY <1>1, <1>2 DEF WriteCurrent, HasRow
<1>6. th'[u].at \in {"apply", "store"} =>
          \A a \in Alias : th'[u].list[a] <= apple'[a] /\ Behind(th[u].list, a)'
    BY <1>1, <1>2, <1>3, <1>4 DEF WriteCurrent, Behind
<1>7. /\ th'[u].at = "apply" /\ th'[u].plan = "delete" => th'[u].list[th'[u].target] \notin Live
      /\ th'[u].at = "store" => th'[u].list[th'[u].target] \in Live
    BY <1>1 DEF WriteCurrent
<1> QED BY <1>5, <1>6, <1>7 DEF WriteCurrent, HasRow, Behind

LEMMA OthersCoherent ==
    ASSUME IInv, NEW t \in Thread, NEW u \in Thread, u # t, TypeOK', Moves(t), Forward
    PROVE  Coherent(th[u])'
<1>1. th'[u] = th[u] /\ Coherent(th[u]) /\ th[u] \in Locals
    BY DEF Moves, IInv, TypeOK
<1>2. issued \in Nat /\ issued' \in Nat /\ issued <= issued'
    BY DEF Forward, IInv, TypeOK
<1>3. th[u].orig \in Nat /\ th[u].turn \in Nat /\ th[u].cand \in Nat
    BY <1>1 DEF Locals
<1> QED BY <1>1, <1>2, <1>3 DEF Coherent

\* A step that keeps to these rules preserves the invariant.
LEMMA StepPreserves ==
    ASSUME IInv, NEW t \in Thread, TypeOK', Moves(t), Forward, NeverAheadOfApple',
           LockStep(t), FenceStep(t), DataStep(t), FlightStep(t), Own(t)'
    PROVE  IInv'
<1>1. \A u \in Thread : u # t => th'[u] = th[u]
    BY DEF Moves
<1>2. LockHeld'
    <2>1. SUFFICES ASSUME NEW u \in Thread PROVE hmeLock' = u <=> KeepsLock(th'[u])
        BY DEF LockHeld, KeepsLock, InRefresh
    <2>2. CASE u = t BY <2>2 DEF LockStep
    <2>3. CASE u # t
        BY <2>3, <1>1, NumberFacts DEF LockStep, IInv, LockHeld
    <2> QED BY <2>2, <2>3
<1>3. \A u \in Thread : remoteWrite' = u <=> HoldsFence(th'[u])
    <2>1. SUFFICES ASSUME NEW u \in Thread PROVE remoteWrite' = u <=> HoldsFence(th'[u])
        OBVIOUS
    <2>2. CASE u = t BY <2>2 DEF FenceStep
    <2>3. CASE u # t
        BY <2>3, <1>1, NumberFacts DEF FenceStep, IInv, FenceHeld
    <2> QED BY <2>2, <2>3
<1>4. active' <=> remoteWrite' # None /\ th'[remoteWrite'].at # "activate"
    <2>1. remoteWrite \in Thread \cup {None} /\ active \in BOOLEAN
        /\ (active <=> remoteWrite # None /\ th[remoteWrite].at # "activate")
        BY DEF IInv, TypeOK, FenceHeld
    <2> QED BY <1>1, <2>1, NumberFacts DEF FenceStep
<1>5. FenceHeld'
    BY <1>3, <1>4 DEF FenceHeld, HoldsFence, InRefresh
<1>6. \A u \in Thread : (SnapshotCurrent(u) /\ WriteCurrent(u) /\ Coherent(th[u]))'
    <2>1. SUFFICES ASSUME NEW u \in Thread
                   PROVE (SnapshotCurrent(u) /\ WriteCurrent(u) /\ Coherent(th[u]))'
        OBVIOUS
    <2>2. CASE u = t BY <2>2 DEF Own
    <2>3. CASE u # t BY <2>3, OthersSnapshot, OthersWrite, OthersCoherent
    <2> QED BY <2>2, <2>3
<1>7. stop' \/ ~stop
    BY DEF Forward
<1>8. SingleFlight'
    BY <1>1, <1>7 DEF FlightStep, IInv, SingleFlight, FlightFlagged, InFlight
<1>9. FlightFlagged'
    BY <1>1, <1>7 DEF FlightStep, IInv, SingleFlight, FlightFlagged, InFlight
<1> QED BY <1>2, <1>5, <1>6, <1>8, <1>9 DEF IInv

\* A step that changes no data, lock or fence.
LEMMA LocalPreserves ==
    ASSUME IInv, NEW t \in Thread, TypeOK', Moves(t),
           UNCHANGED <<store, hmeLock, fence, generation, stopping>>,
           \A a \in Alias : apple[a] <= apple'[a], issued <= issued',
           KeepsLock(th'[t]) <=> KeepsLock(th[t]),
           HoldsFence(th'[t]) <=> HoldsFence(th[t]),
           th'[t].at = "activate" <=> th[t].at = "activate",
           FlightStep(t), Own(t)'
    PROVE  IInv'
<1>1. generation \in Nat
    BY DEF IInv, TypeOK
<1>2. Forward
    BY <1>1 DEF Forward, stopping
<1>3. NeverAheadOfApple'
    <2>1. \A a \in Alias : apple[a] \in History /\ apple'[a] \in History
        BY DEF IInv, TypeOK
    <2>2. \A a \in Alias : row[a] \in Int
        BY NumberFacts DEF IInv, TypeOK, History
    <2> QED BY <2>1, <2>2, NumberFacts
            DEF IInv, NeverAheadOfApple, Behind, store, History
<1>4. LockStep(t)
    BY DEF LockStep, IInv, LockHeld
<1>5. FenceStep(t)
    BY DEF FenceStep, IInv, FenceHeld, fence
<1>6. DataStep(t)
    BY DEF DataStep, store
<1> QED BY <1>2, <1>3, <1>4, <1>5, <1>6, StepPreserves

\* A thread that reads no list and is in no write owes little.
LEMMA OwnPlain ==
    ASSUME NEW t \in Thread, th'[t].seen <= generation', Coherent(th[t])',
           th'[t].at \notin (Fetching \ {"begin"}) \cup {"write", "confirm", "apply", "store"}
    PROVE  Own(t)'
<1>1. SnapshotCurrent(t)'
    BY DEF SnapshotCurrent, Current, Fetching
<1>2. WriteCurrent(t)'
    BY DEF WriteCurrent
<1> QED BY <1>1, <1>2 DEF Own

LEMMA IdleFacts ==
    /\ NoList \in [Alias -> History]
    /\ Idle \in Locals /\ Idle.at = "idle" /\ Idle.plan = "none" /\ Idle.back = "idle"
    /\ Idle.task = "none" /\ Idle.seen = 0 /\ Idle.cand = 0 /\ Idle.orig = 0
    /\ Idle.turn = 0 /\ Idle.list = NoList
    /\ ~KeepsLock(Idle) /\ ~HoldsFence(Idle) /\ ~InFlight(Idle)
<1>1. NoList \in [Alias -> History]
    BY NumberFacts DEF NoList, History
<1> QED BY <1>1 DEF Idle, Locals, Step, Plan, KeepsLock, HoldsFence, InFlight, InRefresh,
          Fetching, Fenced

\* Where a refresh returns to, the lock and the fence are as they were.
LEMMA ReturnedFacts ==
    ASSUME NEW r \in Locals, NEW ok \in BOOLEAN, r.at \in {"enter", "wait", "end"}
    PROVE  /\ Returned(r, ok) \in Locals
           /\ KeepsLock(Returned(r, ok)) <=> KeepsLock(r)
           /\ HoldsFence(Returned(r, ok)) <=> HoldsFence(r)
           /\ ~InFlight(Returned(r, ok)) /\ Returned(r, ok).seen = 0
           /\ Returned(r, ok).at \in {"idle", "fence", "unfence", "reopen", "release", "closeout"}
           /\ Returned(r, ok) # Idle =>
                 /\ Returned(r, ok).plan = r.plan /\ Returned(r, ok).target = r.target
                 /\ Returned(r, ok).orig = r.orig /\ Returned(r, ok).turn = r.turn
                 /\ Returned(r, ok).cand = r.cand /\ r.back # "idle"
<1>1. CASE r.back = "idle" \/ (r.back = "fence" /\ ~ok)
    <2>1. Returned(r, ok) = Idle
        BY <1>1 DEF Returned
    <2> QED BY <1>1, <2>1, IdleFacts
            DEF KeepsLock, HoldsFence, InRefresh, Fetching, Fenced, Locals
<1>2. CASE ~(r.back = "idle" \/ (r.back = "fence" /\ ~ok))
    <2> DEFINE x == [r EXCEPT !.at = IF r.back = "reopen" /\ ~ok THEN "release" ELSE r.back,
                   !.task = "none", !.back = "idle", !.seen = 0, !.bad = FALSE,
                   !.awaited = 0]
    <2>1. Returned(r, ok) = x
        BY <1>2 DEF Returned
    <2>2. /\ x \in Locals
          /\ x.at = IF r.back = "reopen" /\ ~ok THEN "release" ELSE r.back
          /\ x.task = "none" /\ x.back = "idle" /\ x.seen = 0 /\ x.plan = r.plan
          /\ x.target = r.target /\ x.orig = r.orig /\ x.turn = r.turn /\ x.cand = r.cand
          /\ r.back \in {"fence", "unfence", "reopen", "closeout"}
        BY <1>2 DEF Locals, Step, Fenced
    <2> HIDE DEF x
    <2> QED BY <1>2, <2>1, <2>2
            DEF KeepsLock, HoldsFence, InFlight, InRefresh, Fetching, Fenced
<1> QED BY <1>1, <1>2

LEMMA ReturnedOwn ==
    ASSUME IInv, NEW t \in Thread, NEW ok \in BOOLEAN, th[t].at \in {"enter", "wait", "end"},
           th'[t] = Returned(th[t], ok), UNCHANGED <<issued, generation>>
    PROVE  Own(t)'
<1>1. th[t] \in Locals /\ Coherent(th[t]) /\ issued \in Nat /\ generation \in Nat
    BY DEF IInv, TypeOK
<1>2. Coherent(th[t])'
    BY <1>1, ReturnedFacts, IdleFacts DEF Coherent, Fetching
<1>3. th'[t].seen <= generation'
    BY <1>1, ReturnedFacts
<1>4. th'[t].at \notin (Fetching \ {"begin"}) \cup {"write", "confirm", "apply", "store"}
    BY <1>1, ReturnedFacts DEF Fetching
<1> QED BY <1>2, <1>3, <1>4, OwnPlain

\* A snapshot that ends the operation ends one that has neither lock nor fence.
LEMMA FinishedFacts ==
    ASSUME NEW r \in Locals, NEW wrong \in BOOLEAN, r.at \in Fetching, Coherent(r)
    PROVE  /\ Finished(r, wrong) \in Locals
           /\ KeepsLock(Finished(r, wrong)) <=> KeepsLock(r)
           /\ HoldsFence(Finished(r, wrong)) <=> HoldsFence(r)
           /\ InFlight(Finished(r, wrong)) <=> InFlight(r)
           /\ Finished(r, wrong).at \in {"idle", "end"} /\ Finished(r, wrong).seen = 0
           /\ Finished(r, wrong) # Idle =>
                 /\ Finished(r, wrong).task = "refresh"
                 /\ Finished(r, wrong).plan = r.plan /\ Finished(r, wrong).target = r.target
                 /\ Finished(r, wrong).orig = r.orig /\ Finished(r, wrong).turn = r.turn
                 /\ Finished(r, wrong).back = r.back /\ Finished(r, wrong).cand = 0
<1>1. CASE r.task # "refresh"
    <2>1. Finished(r, wrong) = Idle /\ r.back = "idle"
        BY <1>1 DEF Finished, Coherent
    <2> QED BY <1>1, <2>1, IdleFacts
            DEF KeepsLock, HoldsFence, InFlight, InRefresh, Fetching, Fenced
<1>2. CASE r.task = "refresh"
    <2> DEFINE x == [r EXCEPT !.at = "end", !.bad = wrong, !.seen = 0, !.cand = 0,
                              !.list = NoList]
    <2>1. Finished(r, wrong) = x
        BY <1>2 DEF Finished
    <2>2. /\ x \in Locals /\ x.at = "end" /\ x.task = "refresh" /\ x.seen = 0
          /\ x.plan = r.plan /\ x.target = r.target /\ x.orig = r.orig /\ x.turn = r.turn
          /\ x.back = r.back /\ x.cand = 0
        BY <1>2, IdleFacts DEF Locals, Step
    <2> HIDE DEF x
    <2> QED BY <1>2, <2>1, <2>2
            DEF KeepsLock, HoldsFence, InFlight, InRefresh, Fetching, Fenced
<1> QED BY <1>1, <1>2

LEMMA FinishedOwn ==
    ASSUME IInv, NEW t \in Thread, NEW wrong \in BOOLEAN, th[t].at \in Fetching,
           th'[t] = Finished(th[t], wrong), UNCHANGED issued, generation' \in Nat
    PROVE  Own(t)'
<1>1. th[t] \in Locals /\ Coherent(th[t]) /\ issued \in Nat
    BY DEF IInv, TypeOK
<1>2. Coherent(th[t])'
    BY <1>1, FinishedFacts, IdleFacts DEF Coherent, Fetching
<1>3. th'[t].seen <= generation'
    BY <1>1, FinishedFacts
<1>4. th'[t].at \notin (Fetching \ {"begin"}) \cup {"write", "confirm", "apply", "store"}
    BY <1>1, FinishedFacts DEF Fetching
<1> QED BY <1>2, <1>3, <1>4, OwnPlain

-----------------------------------------------------------------------------
(* Operations begin.                                                       *)

LEMMA Unpacked ==
    ASSUME IInv, NEW t \in Thread
    PROVE  /\ TypeOK /\ th[t] \in Locals /\ Coherent(th[t])
           /\ SnapshotCurrent(t) /\ WriteCurrent(t)
           /\ generation \in Nat /\ issued \in Nat /\ refreshes \in Nat /\ ops \in Nat
           /\ active \in BOOLEAN /\ stop \in BOOLEAN
           /\ \A a \in Alias : apple[a] \in Int
BY NumberFacts DEF IInv, TypeOK, History

LEMMA Updated ==
    ASSUME TypeOK, NEW t \in Thread, NEW r \in Locals, th' = [th EXCEPT ![t] = r]
    PROVE  /\ th' \in [Thread -> Locals] /\ th'[t] = r /\ Moves(t)
BY DEF TypeOK, Moves

\* An operation begins with nothing.
LEMMA BeginsPreserves ==
    ASSUME IInv, NEW t \in Thread, NEW r \in Locals, Begins(t, r), r.seen = 0, Coherent(r),
           r.at \in {"begin", "enter", "fresh"}, r.back = "idle", r.task # "refresh"
    PROVE  IInv'
<1>1. th' = [th EXCEPT ![t] = r] /\ th[t].at = "idle" /\ ops' = ops + 1
      /\ UNCHANGED <<world, store, issued, hmeLock, fence, generation, flight, stopping>>
    BY DEF Begins
<1>2. th' \in [Thread -> Locals] /\ th'[t] = r /\ Moves(t)
    BY <1>1, Unpacked, Updated
<1>3. TypeOK'
    BY <1>1, <1>2, Unpacked DEF TypeOK, world, store, fence, flight, stopping
<1>4. /\ KeepsLock(th'[t]) <=> KeepsLock(th[t])
      /\ HoldsFence(th'[t]) <=> HoldsFence(th[t])
      /\ th'[t].at # "activate" /\ th[t].at # "activate"
      /\ ~InFlight(th'[t])
    BY <1>1, <1>2 DEF KeepsLock, HoldsFence, InRefresh, InFlight, Fetching, Fenced
<1>5. FlightStep(t)
    BY <1>1, <1>4 DEF FlightStep, flight
<1>6. Own(t)'
    BY <1>1, <1>2, Unpacked, OwnPlain DEF Coherent, Fetching
<1>7. \A a \in Alias : apple[a] <= apple'[a]
    BY <1>1, Unpacked DEF world
<1> QED BY <1>1, <1>2, <1>3, <1>4, <1>5, <1>6, <1>7, Unpacked, LocalPreserves

LEMMA StartPreserves ==
    ASSUME IInv, NEW t \in Thread, Start(t)
    PROVE  IInv'
<1>1. CASE BeginSnapshot(t)
    <2>1. PICK k \in {"sync", "save"} :
              Begins(t, [Idle EXCEPT !.at = "begin", !.task = k])
        BY <1>1 DEF BeginSnapshot
    <2> DEFINE r == [Idle EXCEPT !.at = "begin", !.task = k]
    <2>2. r \in Locals /\ r.at = "begin" /\ r.back = "idle" /\ r.task = k
          /\ r.seen = 0 /\ r.plan = "none" /\ r.turn = 0 /\ r.orig = 0 /\ r.cand = 0
        BY <2>1, IdleFacts DEF Locals, Step, Fetching
    <2>3. Coherent(r)
        BY <2>2, Unpacked DEF Fetching, Coherent
    <2>4. Begins(t, r) /\ r.task # "refresh"
        BY <2>1, <2>2
    <2> HIDE DEF r
    <2> QED BY <2>2, <2>3, <2>4, BeginsPreserves
<1>2. CASE BeginRefresh(t)
    <2> DEFINE r == [Idle EXCEPT !.at = "enter"]
    <2>1. Begins(t, r)
        BY <1>2 DEF BeginRefresh
    <2>2. r \in Locals /\ r.at = "enter" /\ r.back = "idle" /\ r.task # "refresh"
          /\ r.seen = 0 /\ Coherent(r)
        BY IdleFacts, Unpacked DEF Locals, Step, Fetching, Coherent
    <2> HIDE DEF r
    <2> QED BY <2>1, <2>2, BeginsPreserves
<1>3. CASE BeginWrite(t)
    <2>1. PICK p \in Plan, a \in Alias :
              /\ p # "none"
              /\ Begins(t, [Idle EXCEPT !.at = "fresh", !.plan = p, !.target = a])
        BY <1>3 DEF BeginWrite
    <2> DEFINE r == [Idle EXCEPT !.at = "fresh", !.plan = p, !.target = a]
    <2>2. r \in Locals /\ r.at = "fresh" /\ r.back = "idle" /\ r.task = "none"
          /\ r.seen = 0 /\ r.plan = p /\ r.target = a
          /\ r.turn = 0 /\ r.orig = 0 /\ r.cand = 0
        BY <2>1, IdleFacts DEF Locals, Step
    <2>3. Coherent(r)
        BY <2>1, <2>2, Unpacked DEF Fetching, Coherent
    <2>4. Begins(t, r)
        BY <2>1
    <2> HIDE DEF r
    <2> QED BY <2>2, <2>3, <2>4, BeginsPreserves
<1> QED BY <1>1, <1>2, <1>3 DEF Start

-----------------------------------------------------------------------------
(* The refresh, and the snapshots.                                         *)

\* A thread is given locals that keep its place in the lock and the fence.
LEMMA RefreshingFacts ==
    ASSUME IInv, NEW t \in Thread, Refreshing(t), th[t].at \in {"enter", "wait"},
           UNCHANGED <<issued, generation>>
    PROVE  /\ th' \in [Thread -> Locals] /\ Moves(t)
           /\ KeepsLock(th'[t]) <=> KeepsLock(th[t])
           /\ HoldsFence(th'[t]) <=> HoldsFence(th[t])
           /\ th'[t].at = "begin" /\ InFlight(th'[t]) /\ Own(t)'
<1> DEFINE r == [th[t] EXCEPT !.at = "begin", !.task = "refresh", !.awaited = 0]
<1>1. /\ r \in Locals /\ r.at = "begin" /\ r.task = "refresh" /\ r.seen = th[t].seen
      /\ r.back = th[t].back /\ r.plan = th[t].plan /\ r.target = th[t].target
      /\ r.orig = th[t].orig /\ r.turn = th[t].turn /\ r.cand = th[t].cand
    BY Unpacked DEF Locals, Step, Fetching
<1>2. th' = [th EXCEPT ![t] = r]
    BY DEF Refreshing
<1> HIDE DEF r
<1>3. th' \in [Thread -> Locals] /\ th'[t] = r /\ Moves(t)
    BY <1>1, <1>2, Unpacked, Updated
<1>4. /\ KeepsLock(th'[t]) <=> KeepsLock(th[t])
      /\ HoldsFence(th'[t]) <=> HoldsFence(th[t])
      /\ InFlight(th'[t])
    BY <1>1, <1>3 DEF KeepsLock, HoldsFence, InRefresh, InFlight, Fetching, Fenced
<1>5. Coherent(th[t])'
    BY <1>1, <1>3, Unpacked DEF Coherent, Fetching
<1>6. Own(t)'
    <2>1. th'[t].seen <= generation'
        BY <1>1, <1>3, Unpacked DEF SnapshotCurrent
    <2> QED BY <1>1, <1>3, <1>5, <2>1, OwnPlain DEF Fetching
<1> QED BY <1>1, <1>3, <1>4, <1>6

LEMMA ReturnedStep ==
    ASSUME IInv, NEW t \in Thread, NEW ok \in BOOLEAN, th[t].at \in {"enter", "wait", "end"},
           th' = [th EXCEPT ![t] = Returned(@, ok)], UNCHANGED <<issued, generation>>
    PROVE  /\ th' \in [Thread -> Locals] /\ Moves(t)
           /\ KeepsLock(th'[t]) <=> KeepsLock(th[t])
           /\ HoldsFence(th'[t]) <=> HoldsFence(th[t])
           /\ th'[t].at # "activate" /\ ~InFlight(th'[t]) /\ Own(t)'
<1>1. th' \in [Thread -> Locals] /\ th'[t] = Returned(th[t], ok) /\ Moves(t)
    BY Unpacked, Updated, ReturnedFacts
<1>2. Own(t)'
    BY <1>1, ReturnedOwn
<1> QED BY <1>1, <1>2, Unpacked, ReturnedFacts

LEMMA EnterPreserves ==
    ASSUME IInv, NEW t \in Thread, Enter(t)
    PROVE  IInv'
<1>1. th[t].at = "enter" /\ ~InFlight(th[t])
      /\ UNCHANGED <<world, store, issued, hmeLock, fence, generation, stopping, ops>>
    BY DEF Enter, InFlight, Fetching
<1>2. \A a \in Alias : apple[a] <= apple'[a]
    BY <1>1, Unpacked DEF world
<1>3. CASE stop /\ th' = [th EXCEPT ![t] = Returned(@, FALSE)] /\ UNCHANGED flight
    <2>1. /\ th' \in [Thread -> Locals] /\ Moves(t)
          /\ KeepsLock(th'[t]) <=> KeepsLock(th[t])
          /\ HoldsFence(th'[t]) <=> HoldsFence(th[t])
          /\ th'[t].at # "activate" /\ ~InFlight(th'[t]) /\ Own(t)'
        BY <1>1, <1>3, ReturnedStep
    <2>2. TypeOK'
        BY <1>1, <1>3, <2>1, Unpacked DEF TypeOK, world, store, fence, flight, stopping
    <2>3. FlightStep(t)
        BY <1>3, <2>1 DEF FlightStep, flight
    <2> QED BY <1>1, <1>2, <2>1, <2>2, <2>3, Unpacked, LocalPreserves
<1>4. CASE /\ ~stop /\ refreshing
           /\ th' = [th EXCEPT ![t].at = "wait", ![t].awaited = refreshes]
           /\ UNCHANGED flight
    <2> DEFINE r == [th[t] EXCEPT !.at = "wait", !.awaited = refreshes]
    <2>1. /\ r \in Locals /\ r.at = "wait" /\ r.task = th[t].task /\ r.seen = th[t].seen
          /\ r.back = th[t].back /\ r.plan = th[t].plan /\ r.target = th[t].target
          /\ r.orig = th[t].orig /\ r.turn = th[t].turn /\ r.cand = th[t].cand
        BY Unpacked DEF Locals, Step
    <2>2. th' = [th EXCEPT ![t] = r]
        BY <1>4
    <2> HIDE DEF r
    <2>3. th' \in [Thread -> Locals] /\ th'[t] = r /\ Moves(t)
        BY <2>1, <2>2, Unpacked, Updated
    <2>4. TypeOK'
        BY <1>1, <1>4, <2>3, Unpacked DEF TypeOK, world, store, fence, flight, stopping
    <2>5. /\ KeepsLock(th'[t]) <=> KeepsLock(th[t])
          /\ HoldsFence(th'[t]) <=> HoldsFence(th[t])
          /\ th'[t].at # "activate" /\ ~InFlight(th'[t])
        BY <1>1, <2>1, <2>3 DEF KeepsLock, HoldsFence, InRefresh, InFlight, Fetching, Fenced
    <2>6. Own(t)'
        <3>1. Coherent(th[t])'
            BY <1>1, <2>1, <2>3, Unpacked DEF Coherent, Fetching
        <3>2. th'[t].seen <= generation'
            BY <1>1, <2>1, <2>3, Unpacked DEF SnapshotCurrent
        <3> QED BY <2>1, <2>3, <3>1, <3>2, OwnPlain DEF Fetching
    <2>7. FlightStep(t)
        BY <1>4, <2>5 DEF FlightStep, flight
    <2> QED BY <1>1, <1>2, <2>3, <2>4, <2>5, <2>6, <2>7, Unpacked, LocalPreserves
<1>5. CASE /\ ~stop /\ ~refreshing
           /\ refreshing' = TRUE /\ refreshError' = FALSE /\ UNCHANGED refreshes
           /\ Refreshing(t)
    <2>1. /\ th' \in [Thread -> Locals] /\ Moves(t)
          /\ KeepsLock(th'[t]) <=> KeepsLock(th[t])
          /\ HoldsFence(th'[t]) <=> HoldsFence(th[t])
          /\ th'[t].at = "begin" /\ InFlight(th'[t]) /\ Own(t)'
        BY <1>1, <1>5, RefreshingFacts
    <2>2. TypeOK'
        BY <1>1, <1>5, <2>1, Unpacked DEF TypeOK, world, store, fence, flight, stopping
    <2>3. FlightStep(t)
        BY <1>5, <2>1 DEF FlightStep
    <2> QED BY <1>1, <1>2, <2>1, <2>2, <2>3, Unpacked, LocalPreserves
<1> QED BY <1>1, <1>3, <1>4, <1>5 DEF Enter

LEMMA WakePreserves ==
    ASSUME IInv, NEW t \in Thread, Wake(t)
    PROVE  IInv'
<1>1. th[t].at = "wait" /\ ~InFlight(th[t]) /\ (~refreshing \/ stop)
      /\ UNCHANGED <<world, store, issued, hmeLock, fence, generation, stopping, ops>>
    BY DEF Wake, InFlight, Fetching
<1>2. \A a \in Alias : apple[a] <= apple'[a]
    BY <1>1, Unpacked DEF world
<1>3. CASE /\ th' = [th EXCEPT ![t] = Returned(@, ~refreshError /\ session # 0)]
           /\ UNCHANGED flight
    <2>1. /\ th' \in [Thread -> Locals] /\ Moves(t)
          /\ KeepsLock(th'[t]) <=> KeepsLock(th[t])
          /\ HoldsFence(th'[t]) <=> HoldsFence(th[t])
          /\ th'[t].at # "activate" /\ ~InFlight(th'[t]) /\ Own(t)'
        BY <1>1, <1>3, ReturnedStep
    <2>2. TypeOK'
        BY <1>1, <1>3, <2>1, Unpacked DEF TypeOK, world, store, fence, flight, stopping
    <2>3. FlightStep(t)
        BY <1>3, <2>1 DEF FlightStep, flight
    <2> QED BY <1>1, <1>2, <2>1, <2>2, <2>3, Unpacked, LocalPreserves
<1>4. CASE /\ refreshing' = TRUE /\ refreshError' = FALSE /\ UNCHANGED refreshes
           /\ Refreshing(t)
    <2>1. /\ th' \in [Thread -> Locals] /\ Moves(t)
          /\ KeepsLock(th'[t]) <=> KeepsLock(th[t])
          /\ HoldsFence(th'[t]) <=> HoldsFence(th[t])
          /\ th'[t].at = "begin" /\ InFlight(th'[t]) /\ Own(t)'
        BY <1>1, <1>4, RefreshingFacts
    <2>2. TypeOK'
        BY <1>1, <1>4, <2>1, Unpacked DEF TypeOK, world, store, fence, flight, stopping
    <2>3. FlightStep(t)
        BY <1>1, <1>4, <2>1, Unpacked DEF FlightStep, stopping
    <2> QED BY <1>1, <1>2, <2>1, <2>2, <2>3, Unpacked, LocalPreserves
<1> QED BY <1>3, <1>4 DEF Wake

\* A snapshot goes on with the same errand.
LEMMA FetchStep ==
    ASSUME IInv, NEW t \in Thread, th[t].at \in Fetching,
           NEW r \in Locals, r.at \in Fetching, th' = [th EXCEPT ![t] = r],
           r.task = th[t].task, r.back = th[t].back, r.plan = th[t].plan,
           r.target = th[t].target, r.orig = th[t].orig, r.turn = th[t].turn,
           issued' \in Nat, issued <= issued', r.cand <= issued', SnapshotCurrent(t)'
    PROVE  /\ th' \in [Thread -> Locals] /\ th'[t] = r /\ Moves(t)
           /\ KeepsLock(th'[t]) <=> KeepsLock(th[t])
           /\ HoldsFence(th'[t]) <=> HoldsFence(th[t])
           /\ th[t].at # "activate" /\ th'[t].at # "activate"
           /\ InFlight(th'[t]) <=> InFlight(th[t])
           /\ Own(t)'
<1>1. th' \in [Thread -> Locals] /\ th'[t] = r /\ Moves(t)
    BY Unpacked, Updated
<1>2. /\ KeepsLock(th'[t]) <=> KeepsLock(th[t])
      /\ HoldsFence(th'[t]) <=> HoldsFence(th[t])
      /\ th[t].at # "activate" /\ th'[t].at # "activate"
      /\ InFlight(th'[t]) <=> InFlight(th[t])
    BY <1>1 DEF KeepsLock, HoldsFence, InRefresh, InFlight, Fetching, Fenced
<1>3. Coherent(th[t])'
    <2>1. th[t].orig \in Nat /\ th[t].turn \in Nat
        BY Unpacked DEF Locals
    <2> QED BY <1>1, <2>1, Unpacked DEF Coherent, Fetching
<1>4. WriteCurrent(t)'
    BY <1>1 DEF WriteCurrent, Fetching
<1> QED BY <1>1, <1>2, <1>3, <1>4 DEF Own

\* A snapshot ends.
LEMMA FinishedStep ==
    ASSUME IInv, NEW t \in Thread, th[t].at \in Fetching, NEW wrong \in BOOLEAN,
           th' = [th EXCEPT ![t] = Finished(@, wrong)], UNCHANGED issued, generation' \in Nat
    PROVE  /\ th' \in [Thread -> Locals] /\ Moves(t)
           /\ KeepsLock(th'[t]) <=> KeepsLock(th[t])
           /\ HoldsFence(th'[t]) <=> HoldsFence(th[t])
           /\ th[t].at # "activate" /\ th'[t].at # "activate"
           /\ InFlight(th'[t]) <=> InFlight(th[t])
           /\ Own(t)'
<1>1. th' \in [Thread -> Locals] /\ th'[t] = Finished(th[t], wrong) /\ Moves(t)
    BY Unpacked, Updated, FinishedFacts
<1>2. Own(t)'
    BY <1>1, FinishedOwn
<1> QED BY <1>1, <1>2, Unpacked, FinishedFacts DEF Fetching

\* Both leave the rest of the invariant alone.
LEMMA SnapshotPreserves ==
    ASSUME IInv, NEW t \in Thread, th' \in [Thread -> Locals], Moves(t),
           KeepsLock(th'[t]) <=> KeepsLock(th[t]),
           HoldsFence(th'[t]) <=> HoldsFence(th[t]),
           th[t].at # "activate", th'[t].at # "activate",
           InFlight(th'[t]) <=> InFlight(th[t]), Own(t)',
           issued' \in Nat, issued <= issued',
           UNCHANGED <<world, store, hmeLock, fence, generation, flight, stopping, ops>>
    PROVE  IInv'
<1>1. TypeOK'
    <2>1. session' \in 0 .. issued'
        BY Unpacked DEF TypeOK, store
    <2> QED BY <2>1, Unpacked DEF TypeOK, world, store, fence, flight, stopping
<1>2. \A a \in Alias : apple[a] <= apple'[a]
    BY Unpacked DEF world
<1>3. FlightStep(t)
    BY DEF FlightStep, flight
<1> QED BY <1>1, <1>2, <1>3, LocalPreserves

LEMMA FailsPreserves ==
    ASSUME IInv, NEW t \in Thread, th[t].at \in Fetching, Fails(t),
           UNCHANGED <<world, store, issued, hmeLock, fence, generation, flight, stopping, ops>>
    PROVE  IInv'
<1>1. th' = [th EXCEPT ![t] = Finished(@, TRUE)]
    BY DEF Fails
<1>2. UNCHANGED issued /\ issued' \in Nat /\ issued <= issued' /\ generation' \in Nat
    BY Unpacked
<1>3. /\ th' \in [Thread -> Locals] /\ Moves(t)
      /\ KeepsLock(th'[t]) <=> KeepsLock(th[t])
      /\ HoldsFence(th'[t]) <=> HoldsFence(th[t])
      /\ th[t].at # "activate" /\ th'[t].at # "activate"
      /\ InFlight(th'[t]) <=> InFlight(th[t])
      /\ Own(t)'
    BY <1>1, <1>2, FinishedStep
<1> QED BY <1>2, <1>3, SnapshotPreserves

LEMMA BeginPreserves ==
    ASSUME IInv, NEW t \in Thread, Begin(t)
    PROVE  IInv'
<1>1. th[t].at = "begin" /\ th[t].at \in Fetching
      /\ UNCHANGED <<world, store, hmeLock, fence, generation, flight, stopping, ops>>
    BY DEF Begin, Fetching
<1>2. CASE Fails(t) /\ UNCHANGED issued
    BY <1>1, <1>2, FailsPreserves
<1>3. CASE /\ ~active \/ During(t)
           /\ UNCHANGED issued
           /\ th' = [th EXCEPT ![t].at = "read", ![t].seen = generation]
    <2> DEFINE r == [th[t] EXCEPT !.at = "read", !.seen = generation]
    <2>1. /\ r \in Locals /\ r.at = "read" /\ r.at \in Fetching /\ r.seen = generation
          /\ r.task = th[t].task /\ r.back = th[t].back /\ r.plan = th[t].plan
          /\ r.target = th[t].target /\ r.orig = th[t].orig /\ r.turn = th[t].turn
          /\ r.cand = th[t].cand
        BY Unpacked DEF Locals, Step, Fetching
    <2>2. th' = [th EXCEPT ![t] = r]
        BY <1>3
    <2> HIDE DEF r
    <2>3. SnapshotCurrent(t)'
        <3>1. th'[t] = r
            BY <2>1, <2>2, Unpacked, Updated
        <3>2. During(t)' \/ ~active'
            BY <1>1, <1>3 DEF fence, During
        <3> QED BY <1>1, <2>1, <3>1, <3>2, Unpacked DEF SnapshotCurrent
    <2>4. r.cand <= issued' /\ issued' \in Nat /\ issued <= issued'
        BY <1>3, <2>1, Unpacked DEF Coherent
    <2> QED BY <1>1, <2>1, <2>2, <2>3, <2>4, FetchStep, SnapshotPreserves
<1>4. CASE /\ ~active /\ issued' = issued + 1
           /\ th' = [th EXCEPT ![t].at = "list", ![t].seen = generation, ![t].cand = issued']
    <2> DEFINE r == [th[t] EXCEPT !.at = "list", !.seen = generation, !.cand = issued']
    <2>0. issued' \in Nat /\ issued' > issued
        BY <1>4, Unpacked
    <2>1. /\ r \in Locals /\ r.at = "list" /\ r.at \in Fetching /\ r.seen = generation
          /\ r.task = th[t].task /\ r.back = th[t].back /\ r.plan = th[t].plan
          /\ r.target = th[t].target /\ r.orig = th[t].orig /\ r.turn = th[t].turn
          /\ r.cand = issued'
        BY <2>0, Unpacked DEF Locals, Step, Fetching
    <2>2. th' = [th EXCEPT ![t] = r]
        BY <1>4
    <2> HIDE DEF r
    <2>3. SnapshotCurrent(t)'
        <3>1. th'[t] = r
            BY <2>1, <2>2, Unpacked, Updated
        <3>2. ~active' /\ session' < issued'
            BY <1>1, <1>4, <2>0, Unpacked DEF fence, store, TypeOK
        <3> QED BY <1>1, <2>1, <3>1, <3>2, Unpacked DEF SnapshotCurrent
    <2>4. r.cand <= issued' /\ issued <= issued'
        BY <2>0, <2>1, Unpacked
    <2> QED BY <1>1, <2>0, <2>1, <2>2, <2>3, <2>4, FetchStep, SnapshotPreserves
<1> QED BY <1>2, <1>3, <1>4 DEF Begin

LEMMA ReadPreserves ==
    ASSUME IInv, NEW t \in Thread, Read(t)
    PROVE  IInv'
<1>1. th[t].at = "read" /\ th[t].at \in Fetching
      /\ UNCHANGED <<world, store, issued, hmeLock, fence, generation, flight, stopping, ops>>
    BY DEF Read, Fetching
<1>2. CASE Fails(t)
    BY <1>1, <1>2, FailsPreserves
<1>3. CASE Goto(t, IF th[t].task = "sync" THEN "list" ELSE "ask")
    <2> DEFINE r == [th[t] EXCEPT !.at = IF th[t].task = "sync" THEN "list" ELSE "ask"]
    <2>1. /\ r \in Locals /\ r.at = IF th[t].task = "sync" THEN "list" ELSE "ask"
          /\ r.at \in Fetching /\ r.seen = th[t].seen
          /\ r.task = th[t].task /\ r.back = th[t].back /\ r.plan = th[t].plan
          /\ r.target = th[t].target /\ r.orig = th[t].orig /\ r.turn = th[t].turn
          /\ r.cand = th[t].cand
        BY Unpacked DEF Locals, Step, Fetching
    <2>2. th' = [th EXCEPT ![t] = r]
        BY <1>3 DEF Goto
    <2> HIDE DEF r
    <2>3. SnapshotCurrent(t)'
        <3>1. th'[t] = r
            BY <2>1, <2>2, Unpacked, Updated
        <3>2. Current(t)' => During(t)' \/ ~active'
            BY <1>1, <2>1, <3>1, Unpacked DEF SnapshotCurrent, Current, During, fence, Fetching
        <3> QED BY <1>1, <2>1, <3>1, <3>2, Unpacked DEF SnapshotCurrent
    <2>4. r.cand <= issued' /\ issued' \in Nat /\ issued <= issued'
        BY <1>1, <2>1, Unpacked DEF Coherent
    <2> QED BY <1>1, <2>1, <2>2, <2>3, <2>4, FetchStep, SnapshotPreserves
<1> QED BY <1>2, <1>3 DEF Read

LEMMA AskPreserves ==
    ASSUME IInv, NEW t \in Thread, Ask(t)
    PROVE  IInv'
<1>1. th[t].at = "ask" /\ th[t].at \in Fetching
      /\ UNCHANGED <<world, store, hmeLock, fence, generation, flight, stopping, ops>>
    BY DEF Ask, Fetching
<1>2. CASE Fails(t) /\ UNCHANGED issued
    BY <1>1, <1>2, FailsPreserves
<1>3. CASE /\ issued' = issued + 1
           /\ th' = [th EXCEPT ![t].at = "list", ![t].cand = issued']
    <2> DEFINE r == [th[t] EXCEPT !.at = "list", !.cand = issued']
    <2>0. issued' \in Nat /\ issued' > issued
        BY <1>3, Unpacked
    <2>1. /\ r \in Locals /\ r.at = "list" /\ r.at \in Fetching /\ r.seen = th[t].seen
          /\ r.task = th[t].task /\ r.back = th[t].back /\ r.plan = th[t].plan
          /\ r.target = th[t].target /\ r.orig = th[t].orig /\ r.turn = th[t].turn
          /\ r.cand = issued'
        BY <2>0, Unpacked DEF Locals, Step, Fetching
    <2>2. th' = [th EXCEPT ![t] = r]
        BY <1>3
    <2> HIDE DEF r
    <2>3. SnapshotCurrent(t)'
        <3>1. th'[t] = r
            BY <2>1, <2>2, Unpacked, Updated
        <3>2. Current(t)' => During(t)' \/ ~active'
            BY <1>1, <2>1, <3>1, Unpacked DEF SnapshotCurrent, Current, During, fence, Fetching
        <3>3. session' < issued'
            BY <1>1, <2>0, Unpacked DEF store, TypeOK
        <3> QED BY <1>1, <2>1, <3>1, <3>2, <3>3, Unpacked DEF SnapshotCurrent
    <2>4. r.cand <= issued' /\ issued <= issued'
        BY <2>0, <2>1, Unpacked
    <2> QED BY <1>1, <2>0, <2>1, <2>2, <2>3, <2>4, FetchStep, SnapshotPreserves
<1> QED BY <1>2, <1>3 DEF Ask

LEMMA ListPreserves ==
    ASSUME IInv, NEW t \in Thread, List(t)
    PROVE  IInv'
<1>1. th[t].at = "list" /\ th[t].at \in Fetching
      /\ UNCHANGED <<world, store, issued, hmeLock, fence, generation, flight, stopping, ops>>
    BY DEF List, Fetching
<1>2. CASE Fails(t)
    BY <1>1, <1>2, FailsPreserves
<1>3. CASE th' = [th EXCEPT ![t].at = "commit", ![t].list = apple]
    <2> DEFINE r == [th[t] EXCEPT !.at = "commit", !.list = apple]
    <2>0. apple \in [Alias -> History]
        BY Unpacked DEF TypeOK
    <2>1. /\ r \in Locals /\ r.at = "commit" /\ r.at \in Fetching /\ r.seen = th[t].seen
          /\ r.task = th[t].task /\ r.back = th[t].back /\ r.plan = th[t].plan
          /\ r.target = th[t].target /\ r.orig = th[t].orig /\ r.turn = th[t].turn
          /\ r.cand = th[t].cand /\ r.list = apple
        BY <2>0, Unpacked DEF Locals, Step, Fetching
    <2>2. th' = [th EXCEPT ![t] = r]
        BY <1>3
    <2> HIDE DEF r
    <2>3. SnapshotCurrent(t)'
        <3>1. th'[t] = r
            BY <2>1, <2>2, Unpacked, Updated
        <3>2. (Current(t)' <=> Current(t)) /\ (During(t)' <=> During(t)) /\ active' = active
            BY <1>1, <2>1, <3>1 DEF Current, During, fence, Fetching
        <3>3. \A a \in Alias : apple'[a] = apple[a] /\ row'[a] = row[a] /\ apple[a] <= apple[a]
            BY <1>1, Unpacked DEF world, store
        <3>4. \A a \in Alias : Behind(th[t].list, a)'
            BY <2>1, <3>1, <3>3 DEF IInv, NeverAheadOfApple, Behind
        <3>5. th'[t].seen <= generation' /\ (Current(t)' => During(t)' \/ ~active')
            BY <1>1, <2>1, <3>1, <3>2, Unpacked DEF SnapshotCurrent
        <3>6. \A a \in Alias : th'[t].list[a] <= apple'[a]
            BY <2>1, <3>1, <3>3
        <3>7. Current(t)' /\ th'[t].task # "sync" => session' < th'[t].cand
            BY <1>1, <2>1, <3>1, <3>2, Unpacked DEF SnapshotCurrent, store
        <3> QED BY <3>4, <3>5, <3>6, <3>7 DEF SnapshotCurrent
    <2>4. r.cand <= issued' /\ issued' \in Nat /\ issued <= issued'
        BY <1>1, <2>1, Unpacked DEF Coherent
    <2> QED BY <1>1, <2>1, <2>2, <2>3, <2>4, FetchStep, SnapshotPreserves
<1>4. CASE th[t].task = "sync" /\ th' = [th EXCEPT ![t] = [Idle EXCEPT !.at = "enter"]]
    <2> DEFINE r == [Idle EXCEPT !.at = "enter"]
    <2>1. /\ r \in Locals /\ r.at = "enter" /\ r.back = "idle" /\ r.task = "none"
          /\ r.seen = 0 /\ r.plan = "none" /\ r.orig = 0 /\ r.turn = 0 /\ r.cand = 0
        BY IdleFacts DEF Locals, Step
    <2>2. th' = [th EXCEPT ![t] = r]
        BY <1>4
    <2> HIDE DEF r
    <2>3. th' \in [Thread -> Locals] /\ th'[t] = r /\ Moves(t)
        BY <2>1, <2>2, Unpacked, Updated
    <2>4. th[t].back = "idle"
        BY <1>1, <1>4, Unpacked DEF Coherent
    <2>5. /\ KeepsLock(th'[t]) <=> KeepsLock(th[t])
          /\ HoldsFence(th'[t]) <=> HoldsFence(th[t])
          /\ th[t].at # "activate" /\ th'[t].at # "activate"
          /\ InFlight(th'[t]) <=> InFlight(th[t])
        BY <1>1, <1>4, <2>1, <2>3, <2>4
           DEF KeepsLock, HoldsFence, InRefresh, InFlight, Fetching, Fenced
    <2>6. Own(t)'
        <3>1. Coherent(th[t])' /\ th'[t].seen <= generation'
            BY <1>1, <2>1, <2>3, Unpacked DEF Coherent, Fetching
        <3> QED BY <2>1, <2>3, <3>1, OwnPlain DEF Fetching
    <2> QED BY <1>1, <2>3, <2>5, <2>6, Unpacked, SnapshotPreserves
<1> QED BY <1>2, <1>3, <1>4 DEF List

LEMMA EndPreserves ==
    ASSUME IInv, NEW t \in Thread, End(t)
    PROVE  IInv'
<1>1. th[t].at = "end" /\ InFlight(th[t])
      /\ refreshing' = FALSE /\ refreshError' = th[t].bad /\ refreshes' = refreshes + 1
      /\ UNCHANGED <<world, store, issued, hmeLock, fence, generation, stopping, ops>>
    BY DEF End, InFlight
<1>2. th' = [th EXCEPT ![t] = Returned(@, ~th[t].bad)] /\ th[t].bad \in BOOLEAN
    BY Unpacked DEF End, Locals
<1>3. /\ th' \in [Thread -> Locals] /\ Moves(t)
      /\ KeepsLock(th'[t]) <=> KeepsLock(th[t])
      /\ HoldsFence(th'[t]) <=> HoldsFence(th[t])
      /\ th'[t].at # "activate" /\ ~InFlight(th'[t]) /\ Own(t)'
    BY <1>1, <1>2, ReturnedStep
<1>4. TypeOK'
    <2>1. refreshError' \in BOOLEAN /\ refreshing' \in BOOLEAN
        BY <1>1, <1>2, Zenon
    <2>2. refreshes' \in Nat
        BY <1>1, Unpacked
    <2>3. UNCHANGED <<world, store, issued, hmeLock, fence, generation, stopping, ops>>
        BY <1>1
    <2> QED BY <1>3, <2>1, <2>2, <2>3, Unpacked DEF TypeOK, world, store, fence, stopping
<1>5. FlightStep(t)
    BY <1>1, <1>3 DEF FlightStep
<1>6. \A a \in Alias : apple[a] <= apple'[a]
    BY <1>1, Unpacked DEF world
<1> QED BY <1>1, <1>3, <1>4, <1>5, <1>6, Unpacked, LocalPreserves

\* What a step may do to a row and to the stored session.
Monotone == (\A a \in Alias : row'[a] >= row[a]) /\ session' >= session

\* A list that knows every row moves the rows forward, and no further than Apple.
LEMMA ReconciledFacts ==
    ASSUME IInv, NEW l \in [Alias -> History],
           \A a \in Alias : l[a] <= apple[a] /\ Behind(l, a)
    PROVE  /\ Reconciled(l) \in [Alias -> History \cup {Removed}]
           /\ \A a \in Alias : Reconciled(l)[a] >= row[a]
           /\ \A a \in Alias : IF Reconciled(l)[a] = Removed THEN apple[a] = Gone
                               ELSE Reconciled(l)[a] <= apple[a]
<1>1. SUFFICES ASSUME NEW a \in Alias
               PROVE  /\ Reconciled(l)[a] \in History \cup {Removed}
                      /\ Reconciled(l)[a] >= row[a]
                      /\ IF Reconciled(l)[a] = Removed THEN apple[a] = Gone
                         ELSE Reconciled(l)[a] <= apple[a]
    BY DEF Reconciled
<1>2. /\ row[a] \in History \cup {Removed} /\ apple[a] \in History /\ l[a] \in History
      /\ l[a] <= apple[a]
      /\ IF row[a] = Removed THEN l[a] = Gone ELSE row[a] <= l[a]
      /\ IF row[a] = Removed THEN apple[a] = Gone ELSE row[a] <= apple[a]
    BY DEF IInv, TypeOK, Behind, NeverAheadOfApple
<1>3. CASE a \in Listed(l)
    <2>1. Reconciled(l)[a] = l[a] /\ l[a] \in Live
        BY <1>3 DEF Reconciled, Listed
    <2> QED BY <1>2, <2>1, NumberFacts DEF Live, History
<1>4. CASE a \notin Listed(l)
    <2>1. l[a] \notin Live
        BY <1>4 DEF Listed
    <2>2. Reconciled(l)[a] = row[a] \/ (Reconciled(l)[a] = Gone /\ HasRow(a))
        BY <1>4 DEF Reconciled
    <2>3. CASE Reconciled(l)[a] = row[a]
        BY <1>2, <2>3, NumberFacts DEF History
    <2>4. CASE Reconciled(l)[a] = Gone /\ HasRow(a)
        BY <1>2, <2>1, <2>4, NumberFacts DEF History, HasRow, Live
    <2> QED BY <2>2, <2>3, <2>4
<1> QED BY <1>3, <1>4

LEMMA CommitPreserves ==
    ASSUME IInv, NEW t \in Thread, Commit(t)
    PROVE  IInv' /\ Monotone
<1>1. /\ th[t].at = "commit" /\ th[t].at \in Fetching
      /\ th' = [th EXCEPT ![t] = Finished(@, session' = 0)]
      /\ UNCHANGED <<world, issued, hmeLock, fence, flight, stopping, ops>>
    BY DEF Commit, Fetching
<1>2. th[t].list \in [Alias -> History] /\ th[t].cand \in Nat /\ th[t].seen \in Nat
    BY Unpacked DEF Locals
<1>3. \A a \in Alias : row[a] \in Int
    BY NumberFacts DEF IInv, TypeOK, History
<1>4. /\ generation' \in Nat /\ generation <= generation'
      /\ row' \in [Alias -> History \cup {Removed}] /\ session' \in 0 .. issued
      /\ DataStep(t) /\ NeverAheadOfApple' /\ Monotone
      /\ active' /\ ~active => generation < generation'
    <2>1. CASE Stale(t) /\ UNCHANGED <<store, generation>>
        <3>1. row' = row /\ session' = session /\ generation' = generation
              /\ apple' = apple /\ active' = active
            BY <1>1, <2>1 DEF store, world, fence
        <3>2. NeverAheadOfApple'
            BY <3>1 DEF IInv, NeverAheadOfApple, Behind
        <3>3. DataStep(t)
            BY <3>1 DEF DataStep
        <3>4. row' \in [Alias -> History \cup {Removed}] /\ session' \in 0 .. issued
            BY <3>1, Unpacked DEF TypeOK
        <3>5. Monotone
            BY <1>3, <3>1, <3>4, Unpacked DEF Monotone
        <3>6. active' /\ ~active => generation < generation'
            BY <3>1
        <3>7. generation' \in Nat /\ generation <= generation'
            BY <3>1, Unpacked
        <3> QED BY <3>2, <3>3, <3>4, <3>5, <3>6, <3>7, Zenon
    <2>2. CASE /\ ~Stale(t)
               /\ session' = IF th[t].task = "sync" THEN session ELSE th[t].cand
               /\ row' = IF During(t) THEN row ELSE Reconciled(th[t].list)
               /\ generation' = generation + 1
        <3>1. Current(t) /\ (active => During(t))
            BY <1>1, <2>2 DEF Stale, Current
        <3>2. session' \in 0 .. issued /\ session' >= session
            BY <1>1, <1>2, <2>2, <3>1, Unpacked DEF SnapshotCurrent, Coherent, TypeOK
        <3>3. \A a \in Alias : th[t].list[a] <= apple[a] /\ Behind(th[t].list, a)
            BY <1>1, <3>1, Unpacked DEF SnapshotCurrent
        <3>4. /\ row' \in [Alias -> History \cup {Removed}]
              /\ \A a \in Alias : row'[a] >= row[a]
              /\ \A a \in Alias : IF row'[a] = Removed THEN apple[a] = Gone
                                  ELSE row'[a] <= apple[a]
            <4>1. CASE During(t)
                BY <1>3, <2>2, <4>1 DEF IInv, TypeOK, NeverAheadOfApple, Behind
            <4>2. CASE ~During(t)
                BY <1>2, <2>2, <3>3, <4>2, ReconciledFacts
            <4> QED BY <4>1, <4>2
        <3>5. NeverAheadOfApple'
            BY <1>1, <3>4 DEF NeverAheadOfApple, Behind, world
        <3>6. active \/ ~During(t)
            BY <1>1, NumberFacts DEF During, IInv, FenceHeld
        <3>7. generation' \in Nat /\ generation < generation' /\ generation <= generation'
            BY <2>2, Unpacked
        <3>8. DataStep(t)
            BY <3>1, <3>6, <3>7 DEF DataStep, During
        <3>9. Monotone
            BY <3>2, <3>4 DEF Monotone
        <3> QED BY <3>2, <3>4, <3>5, <3>7, <3>8, <3>9
    <2> QED BY <1>1, <2>1, <2>2 DEF Commit
<1>5. UNCHANGED issued /\ (session' = 0) \in BOOLEAN
    BY <1>1
<1>6. /\ th' \in [Thread -> Locals] /\ Moves(t)
      /\ KeepsLock(th'[t]) <=> KeepsLock(th[t])
      /\ HoldsFence(th'[t]) <=> HoldsFence(th[t])
      /\ th[t].at # "activate" /\ th'[t].at # "activate"
      /\ InFlight(th'[t]) <=> InFlight(th[t])
      /\ Own(t)'
    BY <1>1, <1>4, <1>5, FinishedStep
<1>7. TypeOK'
    BY <1>1, <1>4, <1>6, Unpacked DEF TypeOK, world, fence, flight, stopping
<1>8. LockStep(t)
    BY <1>1, <1>6 DEF LockStep, IInv, LockHeld
<1>9. FenceStep(t)
    BY <1>1, <1>4, <1>6 DEF FenceStep, IInv, FenceHeld, fence
<1>10. Forward
    BY <1>1, <1>4, Unpacked DEF Forward, world, stopping
<1>11. FlightStep(t)
    BY <1>1, <1>6 DEF FlightStep, flight
<1>12. IInv'
    BY <1>4, <1>6, <1>7, <1>8, <1>9, <1>10, <1>11, StepPreserves
<1> QED BY <1>4, <1>12

-----------------------------------------------------------------------------
(* Writes.                                                                 *)

\* A step of a write that keeps the fence as it is.
LEMMA WritePreserves ==
    ASSUME IInv, NEW t \in Thread, th[t].at \in Fenced, th'[t].at \in Fenced \cup {"enter"},
           TypeOK', Moves(t), UNCHANGED <<fence, flight, stopping>>,
           HoldsFence(th'[t]), LockStep(t), Own(t)',
           \A a \in Alias : apple[a] <= apple'[a], issued <= issued',
           generation <= generation', NeverAheadOfApple'
    PROVE  IInv'
<1>1. active /\ remoteWrite = t
    BY NumberFacts DEF IInv, FenceHeld, HoldsFence, Fenced
<1>2. ~InFlight(th[t]) /\ ~InFlight(th'[t]) /\ th[t].at # "activate" /\ th'[t].at # "activate"
    BY DEF InFlight, Fetching, Fenced
<1>3. FenceStep(t)
    BY <1>1, <1>2 DEF FenceStep, fence
<1>4. DataStep(t)
    BY <1>1 DEF DataStep
<1>5. FlightStep(t)
    BY <1>2 DEF FlightStep, flight
<1>6. Forward
    BY DEF Forward, stopping
<1> QED BY <1>3, <1>4, <1>5, <1>6, StepPreserves

\* A step before the write, or at its end, that does not change any data.
LEMMA OutsidePreserves ==
    ASSUME IInv, NEW t \in Thread, ~InFlight(th[t]), ~InFlight(th'[t]),
           th' \in [Thread -> Locals], Moves(t), Own(t)', LockStep(t), FenceStep(t),
           remoteWrite' \in Thread \cup {None}, active' \in BOOLEAN,
           generation' \in Nat, generation <= generation',
           UNCHANGED <<world, store, issued, hmeLock, flight, stopping, ops>>
    PROVE  IInv'
<1>1. TypeOK'
    BY Unpacked DEF TypeOK, world, store, flight, stopping
<1>2. Forward
    BY Unpacked DEF Forward, world, stopping
<1>3. NeverAheadOfApple'
    BY DEF IInv, NeverAheadOfApple, Behind, world, store
<1>4. DataStep(t)
    BY DEF DataStep, store
<1>5. FlightStep(t)
    BY DEF FlightStep, flight
<1> QED BY <1>1, <1>2, <1>3, <1>4, <1>5, StepPreserves

LEMMA LeaveStep ==
    ASSUME IInv, NEW t \in Thread, Leave(t), issued' \in Nat, generation' \in Nat
    PROVE  /\ th' \in [Thread -> Locals] /\ Moves(t) /\ th'[t].at = "idle"
           /\ ~KeepsLock(th'[t]) /\ ~HoldsFence(th'[t]) /\ ~InFlight(th'[t]) /\ Own(t)'
<1>1. th' \in [Thread -> Locals] /\ Moves(t) /\ th'[t] = Idle
    BY Unpacked, Updated, IdleFacts DEF Leave
<1>2. Own(t)'
    BY <1>1, IdleFacts, OwnPlain DEF Coherent, Fetching
<1> QED BY <1>1, <1>2, IdleFacts

LEMMA EndsStep ==
    ASSUME IInv, NEW t \in Thread, Ends(t), issued' \in Nat, generation' \in Nat
    PROVE  /\ th' \in [Thread -> Locals] /\ Moves(t) /\ th'[t].at = "unfence"
           /\ ~KeepsLock(th'[t]) /\ HoldsFence(th'[t]) /\ ~InFlight(th'[t]) /\ Own(t)'
<1> DEFINE r == [Idle EXCEPT !.at = "unfence"]
<1>1. /\ r \in Locals /\ r.at = "unfence" /\ r.plan = "none" /\ r.back = "idle"
      /\ r.seen = 0 /\ r.cand = 0 /\ r.orig = 0 /\ r.turn = 0
    BY IdleFacts DEF Locals, Step, Fenced
<1>2. th' = [th EXCEPT ![t] = r]
    BY DEF Ends
<1> HIDE DEF r
<1>3. th' \in [Thread -> Locals] /\ Moves(t) /\ th'[t] = r
    BY <1>1, <1>2, Unpacked, Updated
<1>4. Own(t)'
    BY <1>1, <1>3, OwnPlain DEF Coherent, Fetching
<1>5. ~KeepsLock(r) /\ HoldsFence(r) /\ ~InFlight(r)
    BY <1>1 DEF KeepsLock, HoldsFence, InFlight, InRefresh, Fetching, Fenced
<1> QED BY <1>1, <1>3, <1>4, <1>5

\* A write goes on with the same alias, and with a client no older than before.
LEMMA KeptStep ==
    ASSUME IInv, NEW t \in Thread, th[t].plan # "none",
           NEW r \in Locals, th' = [th EXCEPT ![t] = r],
           r.at \in Fenced \cup {"fence", "activate", "enter"}, r.plan # "none",
           r.target = th[t].target, r.seen = th[t].seen, r.cand = th[t].cand,
           issued' \in Nat, issued <= issued', generation' \in Nat, generation <= generation',
           r.turn # 0 => r.orig < r.turn, r.orig <= issued', r.turn <= issued',
           WriteCurrent(t)'
    PROVE  /\ th' \in [Thread -> Locals] /\ Moves(t) /\ th'[t] = r
           /\ ~InFlight(th'[t]) /\ Own(t)'
<1>1. th' \in [Thread -> Locals] /\ Moves(t) /\ th'[t] = r
    BY Unpacked, Updated
<1>2. th[t].seen \in Nat /\ th[t].cand \in Nat
    BY Unpacked DEF Locals
<1>3. SnapshotCurrent(t)'
    BY <1>1, <1>2, Unpacked DEF SnapshotCurrent, Current, Fetching, Fenced
<1>4. Coherent(th[t])'
    BY <1>1, <1>2, Unpacked DEF Coherent, Fetching, Fenced
<1>5. ~InFlight(r)
    BY DEF InFlight, Fetching, Fenced
<1> QED BY <1>1, <1>3, <1>4, <1>5 DEF Own

\* A thread that goes on with its write needs nothing new there.
LEMMA GoesOn ==
    ASSUME IInv, NEW t \in Thread, th[t].plan # "none",
           NEW r \in Locals, th' = [th EXCEPT ![t] = r],
           r.at \in Fenced \cup {"fence", "activate", "enter"}, r.plan = th[t].plan,
           r.target = th[t].target, r.seen = th[t].seen, r.cand = th[t].cand,
           r.orig = th[t].orig, r.turn = th[t].turn,
           issued' \in Nat, issued <= issued', generation' \in Nat, generation <= generation',
           WriteCurrent(t)'
    PROVE  /\ th' \in [Thread -> Locals] /\ Moves(t) /\ th'[t] = r
           /\ ~InFlight(th'[t]) /\ Own(t)'
<1>1. th[t].orig \in Nat /\ th[t].turn \in Nat
    BY Unpacked DEF Locals
<1>2. (r.turn # 0 => r.orig < r.turn) /\ r.orig <= issued' /\ r.turn <= issued'
    BY <1>1, Unpacked DEF Coherent
<1> QED BY <1>2, KeptStep

\* What the place of a thread in a write says.
LEMMA Planned ==
    ASSUME IInv, NEW t \in Thread,
           th[t].at \in (Fenced \ {"unfence"}) \cup {"fresh", "fence", "activate"}
    PROVE  th[t].plan # "none" /\ th[t].target \in Alias /\ ~InFlight(th[t])
BY Unpacked DEF Coherent, Fetching, Fenced, InFlight

LEMMA FreshPreserves ==
    ASSUME IInv, NEW t \in Thread, Fresh(t)
    PROVE  IInv'
<1>1. /\ th[t].at = "fresh" /\ th[t].plan # "none" /\ th[t].target \in Alias
      /\ ~InFlight(th[t]) /\ ~KeepsLock(th[t]) /\ ~HoldsFence(th[t])
      /\ UNCHANGED <<world, store, issued, hmeLock, fence, generation, flight, stopping, ops>>
    BY Planned DEF Fresh, KeepsLock, HoldsFence, InRefresh, Fetching, Fenced
<1>2. issued' \in Nat /\ issued <= issued' /\ generation' \in Nat /\ generation <= generation'
      /\ remoteWrite' \in Thread \cup {None} /\ active' \in BOOLEAN
    BY <1>1, Unpacked DEF fence, TypeOK
<1>3. /\ th' \in [Thread -> Locals] /\ Moves(t)
      /\ ~KeepsLock(th'[t]) /\ ~HoldsFence(th'[t]) /\ ~InFlight(th'[t])
      /\ th'[t].at # "activate" /\ Own(t)'
    <2>1. CASE Leave(t)
        BY <1>2, <2>1, LeaveStep
    <2>2. CASE Goto(t, "fence")
        <3> DEFINE r == [th[t] EXCEPT !.at = "fence"]
        <3>1. /\ r \in Locals /\ r.at = "fence" /\ r.seen = th[t].seen /\ r.plan = th[t].plan
              /\ r.target = th[t].target /\ r.orig = th[t].orig /\ r.turn = th[t].turn
              /\ r.cand = th[t].cand
            BY Unpacked DEF Locals, Step
        <3>2. th' = [th EXCEPT ![t] = r]
            BY <2>2 DEF Goto
        <3> HIDE DEF r
        <3>3. WriteCurrent(t)'
            BY <3>1, <3>2, Unpacked, Updated DEF WriteCurrent
        <3>4. /\ th' \in [Thread -> Locals] /\ Moves(t) /\ th'[t] = r
              /\ ~InFlight(th'[t]) /\ Own(t)'
            BY <1>1, <1>2, <3>1, <3>2, <3>3, GoesOn
        <3> QED BY <3>1, <3>4 DEF KeepsLock, HoldsFence, InRefresh, Fetching, Fenced
    <2>3. CASE th' = [th EXCEPT ![t].at = "enter", ![t].back = "fence"]
        <3> DEFINE r == [th[t] EXCEPT !.at = "enter", !.back = "fence"]
        <3>1. /\ r \in Locals /\ r.at = "enter" /\ r.back = "fence" /\ r.seen = th[t].seen
              /\ r.plan = th[t].plan /\ r.target = th[t].target /\ r.orig = th[t].orig
              /\ r.turn = th[t].turn /\ r.cand = th[t].cand
            BY Unpacked DEF Locals, Step
        <3>2. th' = [th EXCEPT ![t] = r]
            BY <2>3
        <3> HIDE DEF r
        <3>3. WriteCurrent(t)'
            BY <3>1, <3>2, Unpacked, Updated DEF WriteCurrent
        <3>4. /\ th' \in [Thread -> Locals] /\ Moves(t) /\ th'[t] = r
              /\ ~InFlight(th'[t]) /\ Own(t)'
            BY <1>1, <1>2, <3>1, <3>2, <3>3, GoesOn
        <3> QED BY <3>1, <3>4 DEF KeepsLock, HoldsFence, InRefresh, Fetching, Fenced
    <2> QED BY <2>1, <2>2, <2>3 DEF Fresh
<1>4. LockStep(t)
    BY <1>1, <1>3 DEF LockStep, IInv, LockHeld
<1>5. FenceStep(t)
    BY <1>1, <1>3 DEF FenceStep, IInv, FenceHeld, fence
<1> QED BY <1>1, <1>2, <1>3, <1>4, <1>5, OutsidePreserves

LEMMA FencePreserves ==
    ASSUME IInv, NEW t \in Thread, Fence(t)
    PROVE  IInv'
<1>1. /\ th[t].at = "fence" /\ th[t].plan # "none" /\ th[t].target \in Alias
      /\ ~InFlight(th[t]) /\ ~KeepsLock(th[t]) /\ ~HoldsFence(th[t])
      /\ UNCHANGED <<world, store, issued, hmeLock, active, generation, flight, stopping, ops>>
    BY Planned DEF Fence, KeepsLock, HoldsFence, InRefresh, Fetching, Fenced
<1>2. issued' \in Nat /\ issued <= issued' /\ generation' \in Nat /\ generation <= generation'
      /\ remoteWrite \in Thread \cup {None} /\ active' \in BOOLEAN
    BY <1>1, Unpacked DEF TypeOK
<1>3. remoteWrite # t /\ (remoteWrite = None => ~active) /\ active' = active
    BY <1>1 DEF IInv, FenceHeld
<1>4. CASE Leave(t) /\ UNCHANGED remoteWrite
    <2>1. /\ th' \in [Thread -> Locals] /\ Moves(t)
          /\ ~KeepsLock(th'[t]) /\ ~HoldsFence(th'[t]) /\ ~InFlight(th'[t])
          /\ th'[t].at # "activate" /\ Own(t)'
        BY <1>2, <1>4, LeaveStep
    <2>2. LockStep(t)
        BY <1>1, <2>1 DEF LockStep, IInv, LockHeld
    <2>3. FenceStep(t)
        BY <1>1, <1>3, <1>4, <2>1 DEF FenceStep
    <2> QED BY <1>1, <1>2, <1>4, <2>1, <2>2, <2>3, OutsidePreserves
<1>5. CASE remoteWrite = None /\ remoteWrite' = t /\ Goto(t, "activate")
    <2> DEFINE r == [th[t] EXCEPT !.at = "activate"]
    <2>1. /\ r \in Locals /\ r.at = "activate" /\ r.seen = th[t].seen /\ r.plan = th[t].plan
          /\ r.target = th[t].target /\ r.orig = th[t].orig /\ r.turn = th[t].turn
          /\ r.cand = th[t].cand
        BY Unpacked DEF Locals, Step
    <2>2. th' = [th EXCEPT ![t] = r]
        BY <1>5 DEF Goto
    <2> HIDE DEF r
    <2>3. WriteCurrent(t)'
        BY <2>1, <2>2, Unpacked, Updated DEF WriteCurrent
    <2>4. /\ th' \in [Thread -> Locals] /\ Moves(t) /\ th'[t] = r
          /\ ~InFlight(th'[t]) /\ Own(t)'
        BY <1>1, <1>2, <2>1, <2>2, <2>3, GoesOn
    <2>5. ~KeepsLock(th'[t]) /\ HoldsFence(th'[t])
        BY <2>1, <2>4 DEF KeepsLock, HoldsFence, InRefresh, Fetching, Fenced
    <2>6. LockStep(t)
        BY <1>1, <2>5 DEF LockStep, IInv, LockHeld
    <2>7. FenceStep(t)
        BY <1>1, <1>3, <1>5, <2>1, <2>4, <2>5 DEF FenceStep
    <2> QED BY <1>1, <1>2, <1>5, <2>4, <2>6, <2>7, OutsidePreserves
<1> QED BY <1>4, <1>5 DEF Fence

LEMMA ActivatePreserves ==
    ASSUME IInv, NEW t \in Thread, Activate(t)
    PROVE  IInv'
<1>1. /\ th[t].at = "activate" /\ th[t].plan # "none" /\ th[t].target \in Alias
      /\ ~InFlight(th[t]) /\ ~KeepsLock(th[t]) /\ HoldsFence(th[t])
      /\ UNCHANGED <<world, store, issued, hmeLock, flight, stopping, ops>>
    BY Planned DEF Activate, KeepsLock, HoldsFence, InRefresh, Fetching, Fenced
<1>2. remoteWrite = t /\ ~active /\ active \in BOOLEAN /\ issued' \in Nat /\ issued <= issued'
    BY <1>1, Unpacked DEF IInv, FenceHeld
<1>3. CASE Leave(t) /\ remoteWrite' = None /\ UNCHANGED <<active, generation>>
    <2>0. generation' \in Nat /\ generation <= generation' /\ ~active' /\ active' \in BOOLEAN
        BY <1>2, <1>3, Unpacked
    <2>1. /\ th' \in [Thread -> Locals] /\ Moves(t)
          /\ ~KeepsLock(th'[t]) /\ ~HoldsFence(th'[t]) /\ ~InFlight(th'[t]) /\ Own(t)'
        BY <1>2, <1>3, <2>0, LeaveStep
    <2>2. LockStep(t)
        BY <1>1, <2>1 DEF LockStep, IInv, LockHeld
    <2>3. FenceStep(t)
        BY <1>2, <1>3, <2>0, <2>1, NumberFacts DEF FenceStep
    <2> QED BY <1>1, <1>3, <2>0, <2>1, <2>2, <2>3, OutsidePreserves
<1>4. CASE /\ active' = TRUE /\ generation' = generation + 1
           /\ Goto(t, "open") /\ UNCHANGED remoteWrite
    <2> DEFINE r == [th[t] EXCEPT !.at = "open"]
    <2>0. generation' \in Nat /\ generation < generation' /\ generation <= generation'
        BY <1>4, Unpacked
    <2>1. /\ r \in Locals /\ r.at = "open" /\ r.seen = th[t].seen /\ r.plan = th[t].plan
          /\ r.target = th[t].target /\ r.orig = th[t].orig /\ r.turn = th[t].turn
          /\ r.cand = th[t].cand /\ r.at \in Fenced
        BY Unpacked DEF Locals, Step, Fenced
    <2>2. th' = [th EXCEPT ![t] = r]
        BY <1>4 DEF Goto
    <2> HIDE DEF r
    <2>3. WriteCurrent(t)'
        BY <2>1, <2>2, Unpacked, Updated DEF WriteCurrent
    <2>4. /\ th' \in [Thread -> Locals] /\ Moves(t) /\ th'[t] = r
          /\ ~InFlight(th'[t]) /\ Own(t)'
        BY <1>1, <1>2, <2>0, <2>1, <2>2, <2>3, GoesOn
    <2>5. ~KeepsLock(th'[t]) /\ HoldsFence(th'[t])
        BY <2>1, <2>4 DEF KeepsLock, HoldsFence, InRefresh, Fetching, Fenced
    <2>6. LockStep(t)
        BY <1>1, <2>5 DEF LockStep, IInv, LockHeld
    <2>7. FenceStep(t)
        BY <1>2, <1>4, <2>0, <2>1, <2>4, <2>5 DEF FenceStep
    <2>8. remoteWrite' \in Thread \cup {None} /\ active' \in BOOLEAN
        BY <1>2, <1>4, Zenon
    <2> QED BY <1>1, <2>0, <2>4, <2>6, <2>7, <2>8, OutsidePreserves
<1> QED BY <1>3, <1>4 DEF Activate

LEMMA UnfencePreserves ==
    ASSUME IInv, NEW t \in Thread, Unfence(t)
    PROVE  IInv'
<1>1. /\ th[t].at = "unfence" /\ ~InFlight(th[t]) /\ ~KeepsLock(th[t]) /\ HoldsFence(th[t])
      /\ active' = FALSE /\ remoteWrite' = None /\ Leave(t)
      /\ UNCHANGED <<world, store, issued, hmeLock, generation, flight, stopping, ops>>
    BY DEF Unfence, KeepsLock, HoldsFence, InFlight, InRefresh, Fetching, Fenced
<1>2. remoteWrite = t /\ issued' \in Nat /\ generation' \in Nat /\ generation <= generation'
    BY <1>1, Unpacked DEF IInv, FenceHeld
<1>3. /\ th' \in [Thread -> Locals] /\ Moves(t)
      /\ ~KeepsLock(th'[t]) /\ ~HoldsFence(th'[t]) /\ ~InFlight(th'[t]) /\ Own(t)'
    BY <1>1, <1>2, LeaveStep
<1>4. LockStep(t)
    BY <1>1, <1>3 DEF LockStep, IInv, LockHeld
<1>5. FenceStep(t)
    BY <1>1, <1>2, <1>3, NumberFacts DEF FenceStep
<1>6. remoteWrite' \in Thread \cup {None} /\ active' \in BOOLEAN
    BY <1>1, Zenon
<1> QED BY <1>1, <1>2, <1>3, <1>4, <1>5, <1>6, OutsidePreserves

\* A step of a write that changes nothing but Apple.
LEMMA AskingPreserves ==
    ASSUME IInv, NEW t \in Thread, th[t].at \in Fenced, th'[t].at \in Fenced \cup {"enter"},
           th' \in [Thread -> Locals], Moves(t), Own(t)',
           HoldsFence(th'[t]), KeepsLock(th'[t]) <=> KeepsLock(th[t]),
           apple' \in [Alias -> History], \A a \in Alias : apple[a] <= apple'[a],
           UNCHANGED <<external, store, issued, hmeLock, fence, generation, flight,
                       stopping, ops>>
    PROVE  IInv'
<1>1. TypeOK'
    BY Unpacked DEF TypeOK, store, fence, flight, stopping
<1>2. NeverAheadOfApple'
    <2>1. \A a \in Alias : apple[a] \in History /\ apple'[a] \in History
        BY Unpacked DEF TypeOK
    <2>2. \A a \in Alias : row[a] \in Int
        BY NumberFacts DEF IInv, TypeOK, History
    <2> QED BY <2>1, <2>2, NumberFacts
            DEF IInv, NeverAheadOfApple, Behind, store, History
<1>3. LockStep(t)
    BY DEF LockStep, IInv, LockHeld
<1>4. issued <= issued' /\ generation <= generation'
    BY Unpacked
<1> QED BY <1>1, <1>2, <1>3, <1>4, WritePreserves

LEMMA WrittenFacts ==
    ASSUME NEW p, NEW h \in History
    PROVE  Written(p, h) \in History /\ h <= Written(p, h)
<1>1. CASE h \notin Live
    BY <1>1, NumberFacts DEF Written, History
<1>2. CASE h \in Live
    <2>1. Written(p, h) \in {Gone, h + 1, h}
        BY <1>2 DEF Written
    <2> QED BY <1>2, <2>1, NumberFacts DEF History, Live
<1> QED BY <1>1, <1>2

LEMMA OpenPreserves ==
    ASSUME IInv, NEW t \in Thread, Open(t)
    PROVE  IInv'
<1>1. /\ th[t].at = "open" /\ th[t].at \in Fenced
      /\ th[t].plan # "none" /\ th[t].target \in Alias /\ ~KeepsLock(th[t])
      /\ UNCHANGED <<world, store, issued, hmeLock, fence, generation, flight, stopping, ops>>
    BY Planned DEF Open, KeepsLock, InRefresh, Fetching, Fenced
<1>2. issued' \in Nat /\ issued <= issued' /\ generation' \in Nat /\ generation <= generation'
      /\ apple' \in [Alias -> History] /\ \A a \in Alias : apple[a] <= apple'[a]
    BY <1>1, Unpacked DEF world, TypeOK
<1>3. CASE HasRow(th[t].target) /\ Goto(t, "write")
    <2> DEFINE r == [th[t] EXCEPT !.at = "write"]
    <2>1. /\ r \in Locals /\ r.at = "write" /\ r.seen = th[t].seen /\ r.plan = th[t].plan
          /\ r.target = th[t].target /\ r.orig = th[t].orig /\ r.turn = th[t].turn
          /\ r.cand = th[t].cand /\ r.at \in Fenced
        BY Unpacked DEF Locals, Step, Fenced
    <2>2. th' = [th EXCEPT ![t] = r]
        BY <1>3 DEF Goto
    <2> HIDE DEF r
    <2>3. WriteCurrent(t)'
        BY <1>1, <1>3, <2>1, <2>2, Unpacked, Updated DEF WriteCurrent, HasRow, store
    <2>4. /\ th' \in [Thread -> Locals] /\ Moves(t) /\ th'[t] = r
          /\ ~InFlight(th'[t]) /\ Own(t)'
        BY <1>1, <1>2, <2>1, <2>2, <2>3, GoesOn
    <2>5. ~KeepsLock(th'[t]) /\ HoldsFence(th'[t])
        BY <2>1, <2>4 DEF KeepsLock, HoldsFence, InRefresh, Fetching, Fenced
    <2> QED BY <1>1, <1>2, <2>1, <2>4, <2>5, AskingPreserves DEF world
<1>4. CASE Ends(t)
    <2>1. /\ th' \in [Thread -> Locals] /\ Moves(t) /\ th'[t].at \in Fenced
          /\ ~KeepsLock(th'[t]) /\ HoldsFence(th'[t]) /\ Own(t)'
        BY <1>2, <1>4, EndsStep DEF Fenced
    <2> QED BY <1>1, <1>2, <2>1, AskingPreserves DEF world
<1> QED BY <1>3, <1>4 DEF Open

LEMMA WritePreservesIt ==
    ASSUME IInv, NEW t \in Thread, Write(t)
    PROVE  IInv'
<1>1. /\ th[t].at = "write" /\ th[t].at \in Fenced
      /\ th[t].plan # "none" /\ th[t].target \in Alias /\ ~KeepsLock(th[t])
      /\ UNCHANGED <<external, store, issued, hmeLock, fence, generation, flight, stopping, ops>>
    BY Planned DEF Write, KeepsLock, InRefresh, Fetching, Fenced
<1>2. issued' \in Nat /\ issued <= issued' /\ generation' \in Nat /\ generation <= generation'
    BY <1>1, Unpacked
<1>3. /\ apple' \in [Alias -> History] /\ \A a \in Alias : apple[a] <= apple'[a]
      /\ Goto(t, "confirm") \/ Ends(t)
            \/ th' = [th EXCEPT ![t].at = "enter", ![t].back = "unfence"]
    <2>1. apple \in [Alias -> History]
        BY Unpacked DEF TypeOK
    <2>2. CASE UNCHANGED apple
        BY <2>1, <2>2, Unpacked DEF Write
    <2>3. CASE /\ apple' = [apple EXCEPT ![th[t].target] =
                                Written(th[t].plan, apple[th[t].target])]
               /\ Goto(t, "confirm") \/ Ends(t)
        BY <1>1, <2>1, <2>3, Unpacked, WrittenFacts
    <2> QED BY <2>2, <2>3 DEF Write
<1>4. HasRow(th[t].target)
    BY <1>1, Unpacked DEF WriteCurrent
<1>5. CASE Goto(t, "confirm")
    <2> DEFINE r == [th[t] EXCEPT !.at = "confirm"]
    <2>1. /\ r \in Locals /\ r.at = "confirm" /\ r.seen = th[t].seen /\ r.plan = th[t].plan
          /\ r.target = th[t].target /\ r.orig = th[t].orig /\ r.turn = th[t].turn
          /\ r.cand = th[t].cand /\ r.at \in Fenced
        BY Unpacked DEF Locals, Step, Fenced
    <2>2. th' = [th EXCEPT ![t] = r]
        BY <1>5 DEF Goto
    <2> HIDE DEF r
    <2>3. WriteCurrent(t)'
        BY <1>1, <1>4, <2>1, <2>2, Unpacked, Updated DEF WriteCurrent, HasRow, store
    <2>4. /\ th' \in [Thread -> Locals] /\ Moves(t) /\ th'[t] = r
          /\ ~InFlight(th'[t]) /\ Own(t)'
        BY <1>1, <1>2, <2>1, <2>2, <2>3, GoesOn
    <2>5. ~KeepsLock(th'[t]) /\ HoldsFence(th'[t])
        BY <2>1, <2>4 DEF KeepsLock, HoldsFence, InRefresh, Fetching, Fenced
    <2> QED BY <1>1, <1>3, <2>1, <2>4, <2>5, AskingPreserves
<1>6. CASE Ends(t)
    <2>1. /\ th' \in [Thread -> Locals] /\ Moves(t) /\ th'[t].at \in Fenced
          /\ ~KeepsLock(th'[t]) /\ HoldsFence(th'[t]) /\ Own(t)'
        BY <1>2, <1>6, EndsStep DEF Fenced
    <2> QED BY <1>1, <1>3, <2>1, AskingPreserves
<1>7. CASE th' = [th EXCEPT ![t].at = "enter", ![t].back = "unfence"]
    <2> DEFINE r == [th[t] EXCEPT !.at = "enter", !.back = "unfence"]
    <2>1. /\ r \in Locals /\ r.at = "enter" /\ r.back = "unfence" /\ r.seen = th[t].seen
          /\ r.plan = th[t].plan /\ r.target = th[t].target /\ r.orig = th[t].orig
          /\ r.turn = th[t].turn /\ r.cand = th[t].cand
        BY Unpacked DEF Locals, Step
    <2>2. th' = [th EXCEPT ![t] = r]
        BY <1>7
    <2> HIDE DEF r
    <2>3. WriteCurrent(t)'
        BY <2>1, <2>2, Unpacked, Updated DEF WriteCurrent
    <2>4. /\ th' \in [Thread -> Locals] /\ Moves(t) /\ th'[t] = r
          /\ ~InFlight(th'[t]) /\ Own(t)'
        BY <1>1, <1>2, <2>1, <2>2, <2>3, GoesOn
    <2>5. ~KeepsLock(th'[t]) /\ HoldsFence(th'[t])
        BY <2>1, <2>4 DEF KeepsLock, HoldsFence, InRefresh, Fetching, Fenced
    <2> QED BY <1>1, <1>3, <2>1, <2>4, <2>5, AskingPreserves
<1> QED BY <1>3, <1>5, <1>6, <1>7

LEMMA ConfirmPreserves ==
    ASSUME IInv, NEW t \in Thread, Confirm(t)
    PROVE  IInv'
<1>1. /\ th[t].at = "confirm" /\ th[t].at \in Fenced
      /\ th[t].plan # "none" /\ th[t].target \in Alias /\ ~KeepsLock(th[t])
      /\ UNCHANGED <<world, store, issued, hmeLock, fence, generation, flight, stopping, ops>>
    BY Planned DEF Confirm, KeepsLock, InRefresh, Fetching, Fenced
<1>2. issued' \in Nat /\ issued <= issued' /\ generation' \in Nat /\ generation <= generation'
      /\ apple' \in [Alias -> History] /\ \A a \in Alias : apple[a] <= apple'[a]
    BY <1>1, Unpacked DEF world, TypeOK
<1>3. CASE /\ Confirms(th[t].plan, apple[th[t].target])
           /\ th' = [th EXCEPT ![t].at = "apply", ![t].list = apple]
    <2> DEFINE r == [th[t] EXCEPT !.at = "apply", !.list = apple]
    <2>0. apple \in [Alias -> History]
        BY Unpacked DEF TypeOK
    <2>1. /\ r \in Locals /\ r.at = "apply" /\ r.seen = th[t].seen /\ r.plan = th[t].plan
          /\ r.target = th[t].target /\ r.orig = th[t].orig /\ r.turn = th[t].turn
          /\ r.cand = th[t].cand /\ r.list = apple /\ r.at \in Fenced
        BY <2>0, Unpacked DEF Locals, Step, Fenced
    <2>2. th' = [th EXCEPT ![t] = r]
        BY <1>3
    <2> HIDE DEF r
    <2>3. WriteCurrent(t)'
        <3>1. th'[t] = r
            BY <2>1, <2>2, Unpacked, Updated
        <3>2. row' = row /\ apple' = apple
            BY <1>1 DEF world, store
        <3>3. row'[th'[t].target] \in 0 .. Gone
            BY <1>1, <2>1, <3>1, <3>2, Unpacked DEF WriteCurrent, HasRow
        <3>4. \A a \in Alias : th'[t].list[a] <= apple'[a] /\ Behind(th[t].list, a)'
            BY <2>1, <3>1, <3>2, Unpacked DEF IInv, NeverAheadOfApple, Behind
        <3>5. th'[t].plan = "delete" => th'[t].list[th'[t].target] \notin Live
            BY <1>3, <2>1, <3>1 DEF Confirms
        <3>6. th'[t].at = "apply"
            BY <2>1, <3>1
        <3> QED BY <3>3, <3>4, <3>5, <3>6 DEF WriteCurrent, HasRow, Behind
    <2>4. /\ th' \in [Thread -> Locals] /\ Moves(t) /\ th'[t] = r
          /\ ~InFlight(th'[t]) /\ Own(t)'
        BY <1>1, <1>2, <2>1, <2>2, <2>3, GoesOn
    <2>5. ~KeepsLock(th'[t]) /\ HoldsFence(th'[t])
        BY <2>1, <2>4 DEF KeepsLock, HoldsFence, InRefresh, Fetching, Fenced
    <2> QED BY <1>1, <1>2, <2>1, <2>4, <2>5, AskingPreserves DEF world
<1>4. CASE Ends(t)
    <2>1. /\ th' \in [Thread -> Locals] /\ Moves(t) /\ th'[t].at \in Fenced
          /\ ~KeepsLock(th'[t]) /\ HoldsFence(th'[t]) /\ Own(t)'
        BY <1>2, <1>4, EndsStep DEF Fenced
    <2> QED BY <1>1, <1>2, <2>1, AskingPreserves DEF world
<1> QED BY <1>3, <1>4 DEF Confirm

LEMMA ApplyPreserves ==
    ASSUME IInv, NEW t \in Thread, Apply(t)
    PROVE  IInv' /\ Monotone
<1>1. /\ th[t].at = "apply" /\ th[t].at \in Fenced
      /\ th[t].target \in Alias /\ ~KeepsLock(th[t])
      /\ generation' = generation + 1 /\ Ends(t)
      /\ row' = [a \in Alias |->
                    IF th[t].plan = "delete" /\ a = th[t].target THEN Removed
                    ELSE Reconciled(th[t].list)[a]]
      /\ UNCHANGED <<world, session, issued, hmeLock, fence, flight, stopping, ops>>
    BY Planned DEF Apply, KeepsLock, InRefresh, Fetching, Fenced
<1>2. issued' \in Nat /\ issued <= issued' /\ generation' \in Nat /\ generation <= generation'
      /\ \A a \in Alias : apple[a] <= apple'[a]
    BY <1>1, Unpacked DEF world
<1>3. /\ th' \in [Thread -> Locals] /\ Moves(t) /\ th'[t].at \in Fenced
      /\ ~KeepsLock(th'[t]) /\ HoldsFence(th'[t]) /\ Own(t)'
    BY <1>1, <1>2, EndsStep DEF Fenced
<1>4. /\ th[t].list \in [Alias -> History]
      /\ \A a \in Alias : th[t].list[a] <= apple[a] /\ Behind(th[t].list, a)
    BY <1>1, Unpacked DEF WriteCurrent, Locals
<1>5. /\ row' \in [Alias -> History \cup {Removed}]
      /\ \A a \in Alias : row'[a] >= row[a]
      /\ \A a \in Alias : IF row'[a] = Removed THEN apple[a] = Gone ELSE row'[a] <= apple[a]
    <2>1. SUFFICES ASSUME NEW a \in Alias
                   PROVE  /\ row'[a] \in History \cup {Removed} /\ row'[a] >= row[a]
                          /\ IF row'[a] = Removed THEN apple[a] = Gone
                             ELSE row'[a] <= apple[a]
        BY <1>1
    <2>2. CASE th[t].plan = "delete" /\ a = th[t].target
        <3>1. row'[a] = Removed
            BY <1>1, <2>2
        <3>2. /\ row[a] \in 0 .. Gone /\ th[t].list[a] \notin Live
              /\ th[t].list[a] \in History /\ row[a] <= th[t].list[a]
              /\ th[t].list[a] <= apple[a] /\ apple[a] \in History
            BY <1>1, <1>4, <2>2, Unpacked, NumberFacts
               DEF WriteCurrent, HasRow, Behind, TypeOK
        <3> QED BY <3>1, <3>2, NumberFacts DEF History, Live
    <2>3. CASE ~(th[t].plan = "delete" /\ a = th[t].target)
        <3>1. row'[a] = Reconciled(th[t].list)[a]
            BY <1>1, <2>3
        <3> QED BY <1>4, <3>1, ReconciledFacts
    <2> QED BY <2>2, <2>3
<1>6. NeverAheadOfApple'
    BY <1>1, <1>5 DEF NeverAheadOfApple, Behind, world
<1>7. TypeOK'
    BY <1>1, <1>2, <1>3, <1>5, Unpacked DEF TypeOK, world, fence, flight, stopping
<1>8. LockStep(t)
    BY <1>1, <1>3 DEF LockStep, IInv, LockHeld
<1>9. IInv'
    BY <1>1, <1>2, <1>3, <1>6, <1>7, <1>8, WritePreserves
<1>10. Monotone
    <2>1. session' >= session
        BY <1>1, Unpacked DEF TypeOK
    <2> QED BY <1>5, <2>1 DEF Monotone
<1> QED BY <1>9, <1>10

-----------------------------------------------------------------------------
(* Creations.                                                              *)

\* A client that was closed leaves a session no older than the stored one.
LEMMA PersistedFacts ==
    ASSUME IInv, NEW t \in Thread,
           NEW r \in Locals, r.turn # 0 => r.orig < r.turn, r.turn <= issued'
    PROVE  /\ issued' \in Nat /\ issued <= issued' => Persisted(r) \in 0 .. issued'
           /\ Persisted(r) >= session
<1>1. r.turn \in Nat /\ r.orig \in Nat /\ session \in 0 .. issued
    BY Unpacked DEF Locals, TypeOK
<1> QED BY <1>1, Unpacked DEF Persisted

\* What a creation may rely on between its calls.
LEMMA Creating ==
    ASSUME IInv, NEW t \in Thread,
           th[t].at \in {"open", "call", "reopen", "lookup", "store", "release", "closeout"}
    PROVE  /\ th[t].plan # "none" /\ th[t].target \in Alias /\ th[t].at \in Fenced
           /\ active /\ remoteWrite = t
           /\ th[t].at \in {"open", "closeout"} => ~KeepsLock(th[t])
           /\ th[t].at \notin {"open", "closeout"} => KeepsLock(th[t]) /\ hmeLock = t
           /\ th[t].turn # 0 => th[t].orig < th[t].turn
           /\ th[t].orig <= issued /\ th[t].turn <= issued
           /\ th[t].orig \in Nat /\ th[t].turn \in Nat
<1>1. th[t].at \in Fenced /\ HoldsFence(th[t])
    BY DEF Fenced, HoldsFence
<1>2. active /\ remoteWrite = t
    BY <1>1, NumberFacts DEF IInv, FenceHeld
<1>3. /\ th[t].at \in {"open", "closeout"} => ~KeepsLock(th[t])
      /\ th[t].at \notin {"open", "closeout"} => KeepsLock(th[t])
    BY DEF KeepsLock, InRefresh, Fetching
<1>4. KeepsLock(th[t]) => hmeLock = t
    BY DEF IInv, LockHeld
<1> QED BY <1>1, <1>2, <1>3, <1>4, Planned, Unpacked DEF Coherent, Locals

\* A step of a creation: the locals are those of a client that goes on.
LEMMA CreatingPreserves ==
    ASSUME IInv, NEW t \in Thread, th[t].at \in Fenced, th[t].plan # "none",
           NEW r \in Locals, th' = [th EXCEPT ![t] = r],
           r.at \in {"call", "reopen", "lookup", "store", "release", "closeout"}
             \/ (r.at = "enter" /\ r.back \in {"reopen", "closeout"}),
           r.plan # "none", r.target = th[t].target, r.seen = th[t].seen,
           r.cand = th[t].cand,
           r.turn # 0 => r.orig < r.turn, r.orig <= issued', r.turn <= issued',
           r.at = "store" => r.list[r.target] \in Live /\ \A a \in Alias :
                                r.list[a] <= apple'[a] /\ (row' = row /\ Behind(r.list, a)),
           issued' \in Nat, issued <= issued',
           apple' \in [Alias -> History], \A a \in Alias : apple[a] <= apple'[a],
           row' = row, session' \in 0 .. issued', session' >= session,
           hmeLock \in {None, t}, hmeLock' \in {None, t},
           hmeLock' = t <=> r.at # "closeout" /\ ~(r.at = "enter" /\ r.back = "closeout"),
           UNCHANGED <<external, fence, generation, flight, stopping, ops>>
    PROVE  IInv' /\ Monotone
<1>1. generation' \in Nat /\ generation <= generation'
    BY Unpacked
<1>2. WriteCurrent(t)'
    <2>1. th'[t] = r
        BY Unpacked, Updated
    <2>2. r.at \notin {"write", "confirm", "apply"}
        OBVIOUS
    <2>3. r.at = "store" => \A a \in Alias : r.list[a] <= apple'[a]
                               /\ (IF row'[a] = Removed THEN r.list[a] = Gone
                                   ELSE row'[a] <= r.list[a])
        BY DEF Behind
    <2> QED BY <2>1, <2>2, <2>3 DEF WriteCurrent, Behind
<1>3. r.at \in Fenced \cup {"fence", "activate", "enter"}
    BY DEF Fenced
<1>4. /\ th' \in [Thread -> Locals] /\ Moves(t) /\ th'[t] = r
      /\ ~InFlight(th'[t]) /\ Own(t)'
    BY <1>1, <1>2, <1>3, KeptStep
<1>5. HoldsFence(r) /\ r.at \in Fenced \cup {"enter"}
    BY DEF HoldsFence, InRefresh, Fenced
<1>6. KeepsLock(r) <=> r.at # "closeout" /\ ~(r.at = "enter" /\ r.back = "closeout")
    BY DEF KeepsLock, InRefresh, Fetching
<1>7. LockStep(t)
    BY <1>4, <1>6 DEF LockStep
<1>8. TypeOK'
    BY <1>1, <1>4, Unpacked DEF TypeOK, fence, flight, stopping
<1>9. NeverAheadOfApple'
    <2>1. \A a \in Alias : apple[a] \in History /\ apple'[a] \in History
        BY Unpacked DEF TypeOK
    <2>2. \A a \in Alias : row[a] \in Int
        BY NumberFacts DEF IInv, TypeOK, History
    <2> QED BY <2>1, <2>2, NumberFacts DEF IInv, NeverAheadOfApple, Behind, History
<1>10. Monotone
    BY NumberFacts DEF Monotone, IInv, TypeOK, History
<1>11. IInv'
    BY <1>1, <1>4, <1>5, <1>7, <1>8, <1>9, WritePreserves
<1> QED BY <1>10, <1>11

LEMMA OpenCreatePreserves ==
    ASSUME IInv, NEW t \in Thread, OpenCreate(t)
    PROVE  IInv' /\ Monotone
<1>1. /\ th[t].at = "open" /\ th[t].at \in Fenced
      /\ hmeLock \in {None, t} /\ ~KeepsLock(th[t])
      /\ UNCHANGED <<world, store, issued, fence, generation, flight, stopping, ops>>
    BY Creating DEF OpenCreate, MayLock
<1>2. hmeLock # t
    BY <1>1 DEF IInv, LockHeld
<1>3. /\ issued' \in Nat /\ issued <= issued' /\ issued' = issued
      /\ apple' \in [Alias -> History] /\ \A a \in Alias : apple[a] <= apple'[a]
      /\ row' = row /\ session' \in 0 .. issued' /\ session' >= session
      /\ session \in 0 .. issued
      /\ UNCHANGED <<external, fence, generation, flight, stopping, ops>>
    BY <1>1, Unpacked DEF world, store, TypeOK
<1>4. CASE /\ UNCHANGED hmeLock
           /\ th' = [th EXCEPT ![t].at = "enter", ![t].back = "closeout"]
    <2> DEFINE r == [th[t] EXCEPT !.at = "enter", !.back = "closeout"]
    <2>1. /\ r \in Locals /\ r.at = "enter" /\ r.back = "closeout" /\ r.seen = th[t].seen
          /\ r.plan = th[t].plan /\ r.target = th[t].target /\ r.orig = th[t].orig
          /\ r.turn = th[t].turn /\ r.cand = th[t].cand
        BY Unpacked DEF Locals, Step
    <2>2. th' = [th EXCEPT ![t] = r]
        BY <1>4
    <2> HIDE DEF r
    <2>3. (r.turn # 0 => r.orig < r.turn) /\ r.orig <= issued' /\ r.turn <= issued'
          /\ th[t].plan # "none"
        BY <1>1, <1>3, <2>1, Creating
    <2>4. hmeLock' \in {None, t} /\ hmeLock' # t
        BY <1>1, <1>2, <1>4
    <2> QED BY <1>1, <1>3, <2>1, <2>2, <2>3, <2>4, CreatingPreserves
<1>5. CASE /\ hmeLock' = t
           /\ th' = [th EXCEPT ![t].at = IF th[t].plan = "resume" THEN "reopen" ELSE "call",
                               ![t].orig = session, ![t].turn = 0]
    <2> DEFINE place == IF th[t].plan = "resume" THEN "reopen" ELSE "call"
               r == [th[t] EXCEPT !.at = place, !.orig = session, !.turn = 0]
    <2>0. place \in {"reopen", "call"} /\ place \in Step /\ session \in Nat
        BY <1>3 DEF Step, Fenced
    <2> HIDE DEF place
    <2>1. /\ r \in Locals /\ r.at \in {"reopen", "call"} /\ r.seen = th[t].seen
          /\ r.plan = th[t].plan /\ r.target = th[t].target /\ r.orig = session
          /\ r.turn = 0 /\ r.cand = th[t].cand
        BY <2>0, Unpacked DEF Locals
    <2>2. th' = [th EXCEPT ![t] = r]
        BY <1>5 DEF place
    <2> HIDE DEF r
    <2>3. r.orig <= issued' /\ r.turn <= issued' /\ th[t].plan # "none"
        BY <1>1, <1>3, <2>1, Creating
    <2>4. hmeLock' \in {None, t}
        BY <1>5
    <2> QED BY <1>1, <1>3, <1>5, <2>1, <2>2, <2>3, <2>4, CreatingPreserves
<1> QED BY <1>4, <1>5 DEF OpenCreate

\* The session that a client may have rotated to.
LEMMA TurnedFacts ==
    ASSUME IInv, NEW t \in Thread, Rotates, th[t].at \in {"call", "lookup"}
    PROVE  /\ issued' \in Nat /\ issued <= issued'
           /\ Turned(th[t].turn) \in Nat /\ Turned(th[t].turn) <= issued'
           /\ Turned(th[t].turn) # 0 => th[t].orig < Turned(th[t].turn)
           /\ th[t].orig <= issued'
BY Unpacked, Creating DEF Rotates, Turned

LEMMA CallPreserves ==
    ASSUME IInv, NEW t \in Thread, Call(t)
    PROVE  IInv' /\ Monotone
<1>1. /\ th[t].at = "call" /\ th[t].at \in Fenced /\ th[t].plan # "none"
      /\ th[t].target \in Alias /\ hmeLock = t
      /\ UNCHANGED <<external, store, fence, generation, flight, stopping, ops>>
    BY Creating DEF Call
<1>2. /\ issued' \in Nat /\ issued <= issued'
      /\ Turned(th[t].turn) \in Nat /\ Turned(th[t].turn) <= issued'
      /\ Turned(th[t].turn) # 0 => th[t].orig < Turned(th[t].turn)
      /\ th[t].orig <= issued'
    BY <1>1, TurnedFacts DEF Call
<1>3. row' = row /\ session' \in 0 .. issued' /\ session' >= session
    BY <1>1, <1>2, Unpacked DEF store, TypeOK
<1> DEFINE n == Turned(th[t].turn)
           r == [th[t] EXCEPT !.turn = n]
<1>4. /\ r \in Locals /\ r.turn = n /\ r.plan = th[t].plan /\ r.target = th[t].target
      /\ r.seen = th[t].seen /\ r.cand = th[t].cand /\ r.orig = th[t].orig
    BY <1>2, Unpacked DEF Locals
<1>5. \/ /\ apple[th[t].target] = Unborn /\ apple' = [apple EXCEPT ![th[t].target] = 0]
         /\ UNCHANGED hmeLock
         /\ \/ th' = [th EXCEPT ![t] = [r EXCEPT !.at = "store", !.list = apple']]
            \/ th' = [th EXCEPT ![t] = [r EXCEPT !.at = "reopen"]]
      \/ /\ UNCHANGED <<apple, hmeLock>>
         /\ th' = [th EXCEPT ![t] = [r EXCEPT !.at = "reopen"]]
      \/ /\ hmeLock' = None /\ UNCHANGED apple
         /\ \/ th' = [th EXCEPT ![t] = [r EXCEPT !.at = "closeout"]]
            \/ th' = [th EXCEPT ![t] = [r EXCEPT !.at = "enter", !.back = "closeout"]]
    BY DEF Call
<1> HIDE DEF n, r
<1>6. n \in Nat /\ n <= issued' /\ (n # 0 => th[t].orig < n)
    BY <1>2 DEF n
<1>7. /\ apple' \in [Alias -> History] /\ \A a \in Alias : apple[a] <= apple'[a]
      /\ hmeLock' \in {None, t}
    <2>1. apple \in [Alias -> History] /\ 0 \in History
        BY Unpacked, NumberFacts DEF TypeOK, History
    <2> QED BY <1>1, <1>5, <2>1, Unpacked, NumberFacts
<1>8. CASE /\ apple[th[t].target] = Unborn /\ apple' = [apple EXCEPT ![th[t].target] = 0]
           /\ UNCHANGED hmeLock
           /\ th' = [th EXCEPT ![t] = [r EXCEPT !.at = "store", !.list = apple']]
    <2> DEFINE x == [r EXCEPT !.at = "store", !.list = apple']
    <2>1. /\ x \in Locals /\ x.at = "store" /\ x.turn = n /\ x.plan = th[t].plan
          /\ x.target = th[t].target /\ x.seen = th[t].seen /\ x.cand = th[t].cand
          /\ x.orig = th[t].orig /\ x.list = apple'
        BY <1>4, <1>7 DEF Locals, Step, Fenced
    <2>2. th' = [th EXCEPT ![t] = x]
        BY <1>8
    <2> HIDE DEF x
    <2>3. apple'[th[t].target] = 0 /\ 0 \in Live
        BY <1>1, <1>8, Unpacked, NumberFacts DEF TypeOK, Live
    <2>4. \A a \in Alias : apple'[a] <= apple'[a] /\ Behind(apple', a)
        <3>1. SUFFICES ASSUME NEW a \in Alias PROVE apple'[a] <= apple'[a] /\ Behind(apple', a)
            OBVIOUS
        <3>2. apple[a] \in History /\ apple'[a] \in History /\ apple[a] <= apple'[a]
              /\ row[a] \in History \cup {Removed}
            BY <1>7, Unpacked DEF TypeOK
        <3> QED BY <3>2, NumberFacts DEF IInv, NeverAheadOfApple, Behind, History
    <2>5. x.at = "store" => x.list[x.target] \in Live /\ \A a \in Alias :
                             x.list[a] <= apple'[a] /\ (row' = row /\ Behind(x.list, a))
        BY <1>3, <2>1, <2>3, <2>4
    <2>6. hmeLock' = t /\ hmeLock \in {None, t}
        BY <1>1, <1>8
    <2> QED BY <1>1, <1>2, <1>3, <1>6, <1>7, <2>1, <2>2, <2>5, <2>6, CreatingPreserves
<1>9. CASE UNCHANGED hmeLock /\ th' = [th EXCEPT ![t] = [r EXCEPT !.at = "reopen"]]
    <2> DEFINE x == [r EXCEPT !.at = "reopen"]
    <2>1. /\ x \in Locals /\ x.at = "reopen" /\ x.turn = n /\ x.plan = th[t].plan
          /\ x.target = th[t].target /\ x.seen = th[t].seen /\ x.cand = th[t].cand
          /\ x.orig = th[t].orig
        BY <1>4 DEF Locals, Step, Fenced
    <2>2. th' = [th EXCEPT ![t] = x]
        BY <1>9
    <2> HIDE DEF x
    <2>3. hmeLock' = t /\ hmeLock \in {None, t}
        BY <1>1, <1>9
    <2> QED BY <1>1, <1>2, <1>3, <1>6, <1>7, <2>1, <2>2, <2>3, CreatingPreserves
<1>10. CASE hmeLock' = None /\ th' = [th EXCEPT ![t] = [r EXCEPT !.at = "closeout"]]
    <2> DEFINE x == [r EXCEPT !.at = "closeout"]
    <2>1. /\ x \in Locals /\ x.at = "closeout" /\ x.turn = n /\ x.plan = th[t].plan
          /\ x.target = th[t].target /\ x.seen = th[t].seen /\ x.cand = th[t].cand
          /\ x.orig = th[t].orig
        BY <1>4 DEF Locals, Step, Fenced
    <2>2. th' = [th EXCEPT ![t] = x]
        BY <1>10
    <2> HIDE DEF x
    <2>3. hmeLock' # t /\ hmeLock \in {None, t} /\ hmeLock' \in {None, t}
        BY <1>1, <1>10, NumberFacts
    <2> QED BY <1>1, <1>2, <1>3, <1>6, <1>7, <2>1, <2>2, <2>3, CreatingPreserves
<1>11. CASE /\ hmeLock' = None
            /\ th' = [th EXCEPT ![t] = [r EXCEPT !.at = "enter", !.back = "closeout"]]
    <2> DEFINE x == [r EXCEPT !.at = "enter", !.back = "closeout"]
    <2>1. /\ x \in Locals /\ x.at = "enter" /\ x.back = "closeout" /\ x.turn = n
          /\ x.plan = th[t].plan /\ x.target = th[t].target /\ x.seen = th[t].seen
          /\ x.cand = th[t].cand /\ x.orig = th[t].orig
        BY <1>4 DEF Locals, Step
    <2>2. th' = [th EXCEPT ![t] = x]
        BY <1>11
    <2> HIDE DEF x
    <2>3. hmeLock' # t /\ hmeLock \in {None, t} /\ hmeLock' \in {None, t}
        BY <1>1, <1>11, NumberFacts
    <2> QED BY <1>1, <1>2, <1>3, <1>6, <1>7, <2>1, <2>2, <2>3, CreatingPreserves
<1> QED BY <1>5, <1>8, <1>9, <1>10, <1>11

LEMMA ReopenPreserves ==
    ASSUME IInv, NEW t \in Thread, Reopen(t)
    PROVE  IInv' /\ Monotone
<1>1. /\ th[t].at = "reopen" /\ th[t].at \in Fenced /\ th[t].plan # "none" /\ hmeLock = t
      /\ session' = Persisted(th[t]) /\ issued' = issued /\ hmeLock' = t
      /\ UNCHANGED <<world, row, fence, generation, flight, stopping, ops>>
    BY Creating DEF Reopen
<1>2. issued' \in Nat /\ issued <= issued' /\ session' \in 0 .. issued' /\ session' >= session
    BY <1>1, Creating, PersistedFacts, Unpacked
<1>3. apple' \in [Alias -> History] /\ (\A a \in Alias : apple[a] <= apple'[a])
      /\ UNCHANGED <<external, fence, generation, flight, stopping, ops>>
    BY <1>1, Unpacked DEF world, TypeOK
<1> DEFINE place == IF stop \/ session' = 0 THEN "release" ELSE "lookup"
           r == [th[t] EXCEPT !.at = place, !.orig = session', !.turn = 0]
<1>4. place \in {"release", "lookup"} /\ place \in Step /\ session' \in Nat
    BY <1>2 DEF Step, Fenced
<1>5. th' = [th EXCEPT ![t] = r]
    BY DEF Reopen
<1> HIDE DEF place
<1>6. /\ r \in Locals /\ r.at = place /\ r.plan = th[t].plan /\ r.target = th[t].target
      /\ r.seen = th[t].seen /\ r.cand = th[t].cand /\ r.orig = session' /\ r.turn = 0
    BY <1>4, Unpacked DEF Locals
<1> HIDE DEF r
<1>7. r.at \in {"release", "lookup"} /\ r.orig <= issued' /\ r.turn <= issued'
      /\ hmeLock \in {None, t} /\ hmeLock' \in {None, t}
    BY <1>1, <1>2, <1>4, <1>6
<1> QED BY <1>1, <1>2, <1>3, <1>5, <1>6, <1>7, CreatingPreserves

LEMMA LookupPreserves ==
    ASSUME IInv, NEW t \in Thread, Lookup(t)
    PROVE  IInv' /\ Monotone
<1>1. /\ th[t].at = "lookup" /\ th[t].at \in Fenced /\ th[t].plan # "none"
      /\ th[t].target \in Alias /\ hmeLock = t /\ hmeLock' = t
      /\ UNCHANGED <<world, row, fence, generation, flight, stopping, ops>>
    BY Creating DEF Lookup
<1>2. /\ issued' \in Nat /\ issued <= issued'
      /\ Turned(th[t].turn) \in Nat /\ Turned(th[t].turn) <= issued'
      /\ Turned(th[t].turn) # 0 => th[t].orig < Turned(th[t].turn)
      /\ th[t].orig <= issued'
    BY <1>1, TurnedFacts DEF Lookup
<1>3. apple' = apple /\ apple' \in [Alias -> History]
      /\ (\A a \in Alias : apple[a] <= apple'[a]) /\ row' = row
      /\ UNCHANGED <<external, fence, generation, flight, stopping, ops>>
      /\ hmeLock \in {None, t} /\ hmeLock' \in {None, t}
    BY <1>1, Unpacked DEF world, TypeOK
<1> DEFINE n == Turned(th[t].turn)
           r == [th[t] EXCEPT !.turn = n]
<1>4. /\ r \in Locals /\ r.turn = n /\ r.plan = th[t].plan /\ r.target = th[t].target
      /\ r.seen = th[t].seen /\ r.cand = th[t].cand /\ r.orig = th[t].orig
    BY <1>2, Unpacked DEF Locals
<1>5. \/ /\ th[t].target \in Listed(apple) /\ UNCHANGED session
         /\ th' = [th EXCEPT ![t] = [r EXCEPT !.at = "store", !.list = apple]]
      \/ /\ session' = Persisted(r)
         /\ th' = [th EXCEPT ![t].at = "call", ![t].plan = "create",
                             ![t].orig = session', ![t].turn = 0]
      \/ /\ UNCHANGED session
         /\ th' = [th EXCEPT ![t] = [r EXCEPT !.at = "release"]]
      \/ /\ UNCHANGED session
         /\ th' = [th EXCEPT ![t] = [r EXCEPT !.at = "enter", !.back = "reopen",
                                              !.tried = TRUE]]
    BY DEF Lookup
<1> HIDE DEF n, r
<1>6. n \in Nat /\ n <= issued' /\ (n # 0 => th[t].orig < n)
    BY <1>2 DEF n
<1>7. UNCHANGED session => session' \in 0 .. issued' /\ session' >= session
    BY <1>2, Unpacked DEF TypeOK
<1>8. CASE /\ th[t].target \in Listed(apple) /\ UNCHANGED session
           /\ th' = [th EXCEPT ![t] = [r EXCEPT !.at = "store", !.list = apple]]
    <2> DEFINE x == [r EXCEPT !.at = "store", !.list = apple]
    <2>1. /\ x \in Locals /\ x.at = "store" /\ x.turn = n /\ x.plan = th[t].plan
          /\ x.target = th[t].target /\ x.seen = th[t].seen /\ x.cand = th[t].cand
          /\ x.orig = th[t].orig /\ x.list = apple
        BY <1>3, <1>4 DEF Locals, Step, Fenced
    <2>2. th' = [th EXCEPT ![t] = x]
        BY <1>8
    <2> HIDE DEF x
    <2>3. x.at = "store" => x.list[x.target] \in Live /\ \A a \in Alias :
                             x.list[a] <= apple'[a] /\ (row' = row /\ Behind(x.list, a))
        BY <1>3, <1>8, <2>1 DEF Listed, IInv, NeverAheadOfApple
    <2> QED BY <1>1, <1>2, <1>3, <1>6, <1>7, <1>8, <2>1, <2>2, <2>3, CreatingPreserves
<1>9. CASE /\ session' = Persisted(r)
           /\ th' = [th EXCEPT ![t].at = "call", ![t].plan = "create",
                               ![t].orig = session', ![t].turn = 0]
    <2> DEFINE x == [th[t] EXCEPT !.at = "call", !.plan = "create", !.orig = session',
                                  !.turn = 0]
    <2>0. session' \in 0 .. issued' /\ session' >= session
        BY <1>2, <1>4, <1>6, <1>9, PersistedFacts
    <2>1. /\ x \in Locals /\ x.at = "call" /\ x.turn = 0 /\ x.plan = "create"
          /\ x.target = th[t].target /\ x.seen = th[t].seen /\ x.cand = th[t].cand
          /\ x.orig = session'
        <3>1. session' \in Nat /\ "create" \in Plan /\ "call" \in Step
            BY <1>2, <2>0 DEF Plan, Step, Fenced
        <3> QED BY <3>1, Unpacked DEF Locals
    <2>2. th' = [th EXCEPT ![t] = x]
        BY <1>9
    <2> HIDE DEF x
    <2>3. x.orig <= issued' /\ x.turn <= issued'
        BY <1>2, <2>0, <2>1
    <2> QED BY <1>1, <1>2, <1>3, <2>0, <2>1, <2>2, <2>3, CreatingPreserves
<1>10. CASE UNCHANGED session /\ th' = [th EXCEPT ![t] = [r EXCEPT !.at = "release"]]
    <2> DEFINE x == [r EXCEPT !.at = "release"]
    <2>1. /\ x \in Locals /\ x.at = "release" /\ x.turn = n /\ x.plan = th[t].plan
          /\ x.target = th[t].target /\ x.seen = th[t].seen /\ x.cand = th[t].cand
          /\ x.orig = th[t].orig
        BY <1>4 DEF Locals, Step, Fenced
    <2>2. th' = [th EXCEPT ![t] = x]
        BY <1>10
    <2> HIDE DEF x
    <2> QED BY <1>1, <1>2, <1>3, <1>6, <1>7, <1>10, <2>1, <2>2, CreatingPreserves
<1>11. CASE /\ UNCHANGED session
            /\ th' = [th EXCEPT ![t] = [r EXCEPT !.at = "enter", !.back = "reopen",
                                                 !.tried = TRUE]]
    <2> DEFINE x == [r EXCEPT !.at = "enter", !.back = "reopen", !.tried = TRUE]
    <2>1. /\ x \in Locals /\ x.at = "enter" /\ x.back = "reopen" /\ x.turn = n
          /\ x.plan = th[t].plan /\ x.target = th[t].target /\ x.seen = th[t].seen
          /\ x.cand = th[t].cand /\ x.orig = th[t].orig
        BY <1>4 DEF Locals, Step
    <2>2. th' = [th EXCEPT ![t] = x]
        BY <1>11
    <2> HIDE DEF x
    <2> QED BY <1>1, <1>2, <1>3, <1>6, <1>7, <1>11, <2>1, <2>2, CreatingPreserves
<1> QED BY <1>5, <1>8, <1>9, <1>10, <1>11

\* The row of the alias that was created.
LEMMA StorePreserves ==
    ASSUME IInv, NEW t \in Thread, Store(t)
    PROVE  IInv' /\ Monotone
<1>1. /\ th[t].at = "store" /\ th[t].at \in Fenced /\ th[t].plan # "none"
      /\ th[t].target \in Alias /\ hmeLock = t
      /\ row' = [row EXCEPT ![th[t].target] = th[t].list[th[t].target]]
      /\ UNCHANGED <<world, session, issued, hmeLock, fence, generation, flight, stopping, ops>>
    BY Creating DEF Store
<1>2. issued' \in Nat /\ issued <= issued' /\ generation' \in Nat /\ generation <= generation'
      /\ \A a \in Alias : apple[a] <= apple'[a]
    BY <1>1, Unpacked DEF world
<1> DEFINE h == th[t].list[th[t].target]
           r == [th[t] EXCEPT !.at = "release", !.list = NoList]
<1>3. /\ h \in Live /\ h \in History /\ h <= apple[th[t].target]
      /\ Behind(th[t].list, th[t].target)
    BY <1>1, Unpacked DEF WriteCurrent, Locals
<1>4. /\ row' \in [Alias -> History \cup {Removed}]
      /\ \A a \in Alias : row'[a] >= row[a]
      /\ \A a \in Alias : IF row'[a] = Removed THEN apple[a] = Gone ELSE row'[a] <= apple[a]
    <2>1. row \in [Alias -> History \cup {Removed}] /\ NeverAheadOfApple
        BY Unpacked DEF IInv, TypeOK
    <2>2. row' = [row EXCEPT ![th[t].target] = h]
        BY <1>1
    <2> HIDE DEF h
    <2>3. row' \in [Alias -> History \cup {Removed}]
        BY <1>1, <1>3, <2>1, <2>2
    <2>4. SUFFICES ASSUME NEW a \in Alias
                   PROVE  /\ row'[a] >= row[a]
                          /\ IF row'[a] = Removed THEN apple[a] = Gone
                             ELSE row'[a] <= apple[a]
        BY <2>3
    <2>5. CASE a = th[t].target
        <3>1. row'[a] = h /\ h = th[t].list[a] /\ row[a] \in History \cup {Removed}
            BY <1>1, <2>1, <2>2, <2>5 DEF h
        <3> QED BY <1>3, <2>5, <3>1, NumberFacts DEF Behind, Live, History
    <2>6. CASE a # th[t].target
        <3>1. row'[a] = row[a] /\ row[a] \in Int
            BY <1>1, <2>1, <2>2, <2>6, NumberFacts DEF History
        <3> QED BY <2>1, <3>1 DEF NeverAheadOfApple, Behind
    <2> QED BY <2>5, <2>6
<1>5. NeverAheadOfApple'
    BY <1>1, <1>4 DEF NeverAheadOfApple, Behind, world
<1>6. /\ r \in Locals /\ r.at = "release" /\ r.plan = th[t].plan /\ r.target = th[t].target
      /\ r.seen = th[t].seen /\ r.cand = th[t].cand /\ r.orig = th[t].orig
      /\ r.turn = th[t].turn /\ r.at \in Fenced
    BY IdleFacts, Unpacked DEF Locals, Step, Fenced
<1>7. th' = [th EXCEPT ![t] = r]
    BY DEF Store
<1> HIDE DEF r, h
<1>8. WriteCurrent(t)'
    BY <1>6, <1>7, Unpacked, Updated DEF WriteCurrent
<1>9. /\ th' \in [Thread -> Locals] /\ Moves(t) /\ th'[t] = r
      /\ ~InFlight(th'[t]) /\ Own(t)'
    BY <1>1, <1>2, <1>6, <1>7, <1>8, GoesOn
<1>10. KeepsLock(th'[t]) /\ HoldsFence(th'[t])
    BY <1>6, <1>9 DEF KeepsLock, HoldsFence, Fenced
<1>11. LockStep(t)
    BY <1>1, <1>10 DEF LockStep
<1>12. TypeOK'
    BY <1>1, <1>2, <1>4, <1>9, Unpacked DEF TypeOK, world, fence, flight, stopping
<1>13. IInv'
    BY <1>1, <1>2, <1>5, <1>6, <1>9, <1>10, <1>11, <1>12, WritePreserves
<1>14. Monotone
    <2>1. session' >= session
        BY <1>1, Unpacked DEF TypeOK
    <2> QED BY <1>4, <2>1 DEF Monotone
<1> QED BY <1>13, <1>14

\* A client is closed at the end of its creation, in the lock or out of it.
LEMMA ClosingPreserves ==
    ASSUME IInv, NEW t \in Thread, th[t].at \in {"release", "closeout"},
           session' = Persisted(th[t]), hmeLock \in {None, t}, hmeLock' \in {None, t},
           hmeLock' # t, Ends(t),
           UNCHANGED <<world, row, issued, fence, generation, flight, stopping, ops>>
    PROVE  IInv' /\ Monotone
<1>1. th[t].at \in Fenced
    BY Creating
<1>2. issued' \in Nat /\ issued <= issued' /\ generation' \in Nat /\ generation <= generation'
      /\ \A a \in Alias : apple[a] <= apple'[a]
    BY Unpacked DEF world
<1>3. session' \in 0 .. issued' /\ session' >= session
    BY <1>2, Creating, PersistedFacts, Unpacked
<1>4. /\ th' \in [Thread -> Locals] /\ Moves(t) /\ th'[t].at \in Fenced
      /\ ~KeepsLock(th'[t]) /\ HoldsFence(th'[t]) /\ Own(t)'
    BY <1>2, EndsStep DEF Fenced
<1>5. NeverAheadOfApple'
    BY DEF IInv, NeverAheadOfApple, Behind, world
<1>6. TypeOK'
    BY <1>2, <1>3, <1>4, Unpacked DEF TypeOK, world, fence, flight, stopping
<1>7. LockStep(t)
    BY <1>4 DEF LockStep
<1>8. IInv'
    BY <1>1, <1>2, <1>4, <1>5, <1>6, <1>7, WritePreserves
<1>9. Monotone
    <2>1. row' = row /\ \A a \in Alias : row[a] \in Int
        BY NumberFacts DEF IInv, TypeOK, History
    <2> QED BY <1>3, <2>1 DEF Monotone
<1> QED BY <1>8, <1>9

LEMMA ReleasePreserves ==
    ASSUME IInv, NEW t \in Thread, Release(t)
    PROVE  IInv' /\ Monotone
<1>1. th[t].at = "release" /\ hmeLock = t
    BY Creating DEF Release
<1> QED BY <1>1, ClosingPreserves, NumberFacts DEF Release

LEMMA CloseoutPreserves ==
    ASSUME IInv, NEW t \in Thread, Closeout(t)
    PROVE  IInv' /\ Monotone
<1>1. th[t].at = "closeout" /\ ~KeepsLock(th[t])
    BY Creating DEF Closeout
<1>2. hmeLock # t
    BY <1>1 DEF IInv, LockHeld
<1> QED BY <1>1, <1>2, ClosingPreserves DEF Closeout, MayLock

-----------------------------------------------------------------------------
(* The rest of the world.                                                  *)

\* A step that moves no thread, lock, row or session.
LEMMA WorldPreserves ==
    ASSUME IInv, UNCHANGED <<store, issued, hmeLock, fence, generation, flight, th, ops>>,
           apple' \in [Alias -> History], \A a \in Alias : apple[a] <= apple'[a],
           external' \in Nat, stopAsked' \in BOOLEAN, stop' \in BOOLEAN, stop => stop'
    PROVE  IInv' /\ Monotone
<1>1. /\ row' = row /\ session' = session /\ issued' = issued /\ hmeLock' = hmeLock
      /\ remoteWrite' = remoteWrite /\ active' = active /\ generation' = generation
      /\ refreshing' = refreshing /\ th' = th
    BY DEF store, fence, flight
<1>2. TypeOK'
    BY DEF IInv, TypeOK, store, fence, flight
<1>3. \A a \in Alias : apple[a] \in History /\ apple'[a] \in History
    BY DEF IInv, TypeOK
<1>4. \A a \in Alias : row[a] \in Int
    BY NumberFacts DEF IInv, TypeOK, History
<1>5. NeverAheadOfApple'
    BY <1>1, <1>3, <1>4, NumberFacts DEF IInv, NeverAheadOfApple, Behind, History
<1>6. LockHeld' /\ FenceHeld'
    BY <1>1 DEF IInv, LockHeld, FenceHeld, KeepsLock, HoldsFence, InRefresh
<1>7. ASSUME NEW t \in Thread
      PROVE  SnapshotCurrent(t)' /\ WriteCurrent(t)' /\ Coherent(th[t])'
    <2>1. \A a \in Alias : th[t].list[a] \in Int /\ apple[a] \in Int /\ apple'[a] \in Int
        BY <1>3, Unpacked, NumberFacts DEF Locals, History
    <2>2. SnapshotCurrent(t)'
        BY <1>1, <2>1, Unpacked DEF SnapshotCurrent, Current, During, Behind
    <2>3. WriteCurrent(t)'
        BY <1>1, <2>1, Unpacked DEF WriteCurrent, HasRow, Behind
    <2>4. Coherent(th[t])'
        BY <1>1, Unpacked DEF Coherent
    <2> QED BY <2>2, <2>3, <2>4
<1>8. SingleFlight' /\ FlightFlagged'
    BY <1>1 DEF IInv, SingleFlight, FlightFlagged, InFlight
<1>9. Monotone
    BY <1>1, <1>4 DEF Monotone, IInv, TypeOK
<1> QED BY <1>2, <1>5, <1>6, <1>7, <1>8, <1>9 DEF IInv

LEMMA ElsewherePreserves ==
    ASSUME IInv, NEW a \in Alias, Elsewhere(a)
    PROVE  IInv' /\ Monotone
<1>1. apple \in [Alias -> History] /\ external \in Nat
    BY DEF IInv, TypeOK
<1>2. PICK h \in {apple[a] + 1, Gone} :
          apple[a] # Gone /\ (apple[a] = Unborn => h = 0) /\ apple' = [apple EXCEPT ![a] = h]
    BY DEF Elsewhere
<1>3. h \in History /\ apple[a] <= h
    BY <1>1, <1>2, NumberFacts DEF History
<1>4. apple' \in [Alias -> History] /\ \A b \in Alias : apple[b] <= apple'[b]
    BY <1>1, <1>2, <1>3, NumberFacts DEF History
<1>5. external' \in Nat /\ stopAsked' \in BOOLEAN /\ stop' \in BOOLEAN /\ (stop => stop')
    BY <1>1 DEF Elsewhere, stopping, IInv, TypeOK
<1> QED BY <1>4, <1>5, WorldPreserves DEF Elsewhere

LEMMA StopPreserves ==
    ASSUME IInv, AskStop \/ SetStop
    PROVE  IInv' /\ Monotone
<1>1. apple' \in [Alias -> History] /\ (\A b \in Alias : apple[b] <= apple'[b])
      /\ external' \in Nat
    BY NumberFacts DEF AskStop, SetStop, world, IInv, TypeOK, History
<1>2. stopAsked' \in BOOLEAN /\ stop' \in BOOLEAN /\ (stop => stop')
    <2>1. stopAsked \in BOOLEAN /\ stop \in BOOLEAN
        BY DEF IInv, TypeOK
    <2>2. CASE AskStop BY <2>1, <2>2, Zenon DEF AskStop
    <2>3. CASE SetStop BY <2>1, <2>3, Zenon DEF SetStop
    <2> QED BY <2>2, <2>3
<1> QED BY <1>1, <1>2, WorldPreserves DEF AskStop, SetStop

-----------------------------------------------------------------------------
(* The theorems.                                                           *)

LEMMA StoreUnchanged ==
    ASSUME IInv, UNCHANGED store
    PROVE  Monotone
<1>1. row' = row /\ session' = session
    BY DEF store
<1>2. \A a \in Alias : row[a] \in Int
    BY NumberFacts DEF IInv, TypeOK, History
<1>3. session \in Int
    BY DEF IInv, TypeOK
<1> QED BY <1>1, <1>2, <1>3 DEF Monotone

LEMMA InitInvariant == Init => IInv
<1> SUFFICES ASSUME Init PROVE IInv
    OBVIOUS
<1>1. \A t \in Thread : th[t] = Idle
    BY DEF Init
<1>2. th \in [Thread -> Locals]
    BY IdleFacts DEF Init
<1>3. apple \in [Alias -> History] /\ row \in [Alias -> History \cup {Removed}]
      /\ \A a \in Alias : row[a] \in {Unborn, 0} /\ row[a] <= apple[a]
    BY NumberFacts DEF Init, History
<1>4. TypeOK
    <2>1. /\ active \in BOOLEAN /\ refreshing \in BOOLEAN /\ refreshError \in BOOLEAN
          /\ stopAsked \in BOOLEAN /\ stop \in BOOLEAN
        BY Zenon DEF Init
    <2>2. /\ external \in Nat /\ session \in 0 .. issued /\ issued \in Nat
          /\ hmeLock \in Thread \cup {None} /\ remoteWrite \in Thread \cup {None}
          /\ generation \in Nat /\ refreshes \in Nat /\ ops \in Nat
        BY DEF Init
    <2> QED BY <1>2, <1>3, <2>1, <2>2 DEF TypeOK
<1>5. NeverAheadOfApple
    BY <1>3, NumberFacts DEF NeverAheadOfApple, Behind
<1>6. LockHeld /\ FenceHeld
    BY <1>1, IdleFacts, NumberFacts DEF Init, LockHeld, FenceHeld
<1>7. \A t \in Thread : SnapshotCurrent(t) /\ WriteCurrent(t) /\ Coherent(th[t])
    BY <1>1, IdleFacts
       DEF Init, SnapshotCurrent, WriteCurrent, Coherent, Current, Fetching
<1>8. SingleFlight /\ FlightFlagged
    BY <1>1, IdleFacts DEF SingleFlight, FlightFlagged
<1> QED BY <1>4, <1>5, <1>6, <1>7, <1>8 DEF IInv

LEMMA NextPreserves == IInv /\ [Next]_vars => IInv' /\ Monotone
<1> SUFFICES ASSUME IInv, [Next]_vars PROVE IInv' /\ Monotone
    OBVIOUS
<1>1. ASSUME NEW t \in Thread, Start(t) PROVE IInv' /\ Monotone
    <2>1. UNCHANGED store
        BY <1>1 DEF Start, BeginSnapshot, BeginRefresh, BeginWrite, Begins
    <2> QED BY <1>1, <2>1, StartPreserves, StoreUnchanged
<1>2. ASSUME NEW t \in Thread, Refreshes(t) PROVE IInv' /\ Monotone
    <2>1. CASE Commit(t) BY <2>1, CommitPreserves
    <2>2. CASE Enter(t)
        BY <2>2, EnterPreserves, StoreUnchanged DEF Enter
    <2>3. CASE Wake(t)
        BY <2>3, WakePreserves, StoreUnchanged DEF Wake
    <2>4. CASE Begin(t)
        BY <2>4, BeginPreserves, StoreUnchanged DEF Begin
    <2>5. CASE Read(t)
        BY <2>5, ReadPreserves, StoreUnchanged DEF Read
    <2>6. CASE Ask(t)
        BY <2>6, AskPreserves, StoreUnchanged DEF Ask
    <2>7. CASE List(t)
        BY <2>7, ListPreserves, StoreUnchanged DEF List
    <2>8. CASE End(t)
        BY <2>8, EndPreserves, StoreUnchanged DEF End
    <2> QED BY <1>2, <2>1, <2>2, <2>3, <2>4, <2>5, <2>6, <2>7, <2>8 DEF Refreshes
<1>3. ASSUME NEW t \in Thread, Writes(t) PROVE IInv' /\ Monotone
    <2>1. CASE Apply(t) BY <2>1, ApplyPreserves
    <2>2. CASE Fresh(t)
        BY <2>2, FreshPreserves, StoreUnchanged DEF Fresh
    <2>3. CASE Fence(t)
        BY <2>3, FencePreserves, StoreUnchanged DEF Fence
    <2>4. CASE Activate(t)
        BY <2>4, ActivatePreserves, StoreUnchanged DEF Activate
    <2>5. CASE Open(t)
        BY <2>5, OpenPreserves, StoreUnchanged DEF Open
    <2>6. CASE Write(t)
        BY <2>6, WritePreservesIt, StoreUnchanged DEF Write
    <2>7. CASE Confirm(t)
        BY <2>7, ConfirmPreserves, StoreUnchanged DEF Confirm
    <2>8. CASE Unfence(t)
        BY <2>8, UnfencePreserves, StoreUnchanged DEF Unfence
    <2> QED BY <1>3, <2>1, <2>2, <2>3, <2>4, <2>5, <2>6, <2>7, <2>8 DEF Writes
<1>4. ASSUME NEW t \in Thread, Creates(t) PROVE IInv' /\ Monotone
    BY <1>4, OpenCreatePreserves, CallPreserves, ReopenPreserves, LookupPreserves,
       StorePreserves, ReleasePreserves, CloseoutPreserves DEF Creates
<1>5. ASSUME NEW a \in Alias, Elsewhere(a) PROVE IInv' /\ Monotone
    BY <1>5, ElsewherePreserves
<1>6. CASE AskStop \/ SetStop
    BY <1>6, StopPreserves
<1>7. CASE UNCHANGED vars
    <2>1. UNCHANGED <<store, issued, hmeLock, fence, generation, flight, th, ops>>
          /\ apple' = apple /\ external' = external /\ stopAsked' = stopAsked /\ stop' = stop
        BY <1>7 DEF vars, world, stopping
    <2>2. apple' \in [Alias -> History] /\ (\A a \in Alias : apple[a] <= apple'[a])
          /\ external' \in Nat /\ stopAsked' \in BOOLEAN /\ stop' \in BOOLEAN
        BY <2>1, NumberFacts DEF IInv, TypeOK, History
    <2> QED BY <2>1, <2>2, WorldPreserves
<1> QED BY <1>1, <1>2, <1>3, <1>4, <1>5, <1>6, <1>7 DEF Next, Run

\* Every reachable state satisfies the inductive invariant: the list, the session
\* and the flag that a thread relies on are those of its own snapshot or write.
THEOREM Invariant == Spec => []IInv
<1> QED BY InitInvariant, NextPreserves, PTL DEF Spec

\* Every variable ranges over the values the code can give it.
THEOREM TypeCorrect == Spec => []TypeOK
<1>1. IInv => TypeOK
    BY DEF IInv
<1> QED BY <1>1, Invariant, PTL

\* No row reflects what has not happened at Apple, whatever the threads that
\* synchronise, write and create, and whatever Apple's user does meanwhile.
THEOREM RowsNeverAhead == Spec => []NeverAheadOfApple
<1>1. IInv => NeverAheadOfApple
    BY DEF IInv
<1> QED BY <1>1, Invariant, PTL

\* Until the process stops at most one thread refreshes the session.
THEOREM OneRefresh == Spec => []SingleFlight
<1>1. IInv => SingleFlight
    BY DEF IInv
<1> QED BY <1>1, Invariant, PTL

\* No stale list takes a row back, and no deleted row returns.
THEOREM RowsMoveForward == Spec => SnapshotsMoveForward
<1>1. IInv /\ [Next]_vars => [\A a \in Alias : row'[a] >= row[a]]_vars
    BY NextPreserves DEF Monotone
<1> QED BY <1>1, Invariant, PTL DEF Spec, SnapshotsMoveForward

\* No thread, the closing client of a creation included, puts an older session
\* in the place of a newer one.
THEOREM StoredSessionMovesForward == Spec => SessionsMoveForward
<1>1. IInv /\ [Next]_vars => [session' >= session]_vars
    BY NextPreserves DEF Monotone
<1> QED BY <1>1, Invariant, PTL DEF Spec, SessionsMoveForward

\* Once the stop event is set no write at Apple is admitted.
THEOREM NoWriteAdmitted == Spec => NoWriteAfterStop
<1>1. [Next]_vars => [stop /\ ~active => ~active']_vars
    <2> SUFFICES ASSUME Next, stop, ~active PROVE ~active'
        BY DEF vars, fence
    <2>1. ASSUME NEW t \in Thread, Start(t) PROVE ~active'
        BY <2>1 DEF Start, BeginSnapshot, BeginRefresh, BeginWrite, Begins, fence
    <2>2. ASSUME NEW t \in Thread, Refreshes(t) PROVE ~active'
        BY <2>2 DEF Refreshes, Enter, Wake, Begin, Read, Ask, List, Commit, End, fence
    <2>3. ASSUME NEW t \in Thread, Writes(t) PROVE ~active'
        BY <2>3 DEF Writes, Fresh, Fence, Activate, Open, Write, Confirm, Apply, Unfence, fence
    <2>4. ASSUME NEW t \in Thread, Creates(t) PROVE ~active'
        BY <2>4 DEF Creates, OpenCreate, Call, Reopen, Lookup, Store, Release, Closeout, fence
    <2>5. ASSUME NEW a \in Alias, Elsewhere(a) PROVE ~active'
        BY <2>5 DEF Elsewhere, fence
    <2>6. CASE AskStop \/ SetStop
        BY <2>6 DEF AskStop, SetStop, fence
    <2> QED BY <2>1, <2>2, <2>3, <2>4, <2>5, <2>6 DEF Next, Run
<1> QED BY <1>1, PTL DEF Spec, NoWriteAfterStop
=============================================================================
