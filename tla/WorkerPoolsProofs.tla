------------------------- MODULE WorkerPoolsProofs --------------------------
(***************************************************************************)
(* The worker pools are correct for every number of pools, items and       *)
(* places.  One inductive invariant carries all of it: the items before    *)
(* the launcher's position are decided or running, those from it on are    *)
(* untouched, and the two counters count what they are meant to count.     *)
(***************************************************************************)
EXTENDS WorkerPools, FiniteSetTheorems, TLAPS

(***************************************************************************)
(* The batch is split by the launcher's position.                          *)
(***************************************************************************)
Decided(p, i) ==
  \/ worker[p][i] = "none" /\ outcome[p][i] = Skipped /\ cancelled
  \/ worker[p][i] = "running" /\ outcome[p][i] = Undecided
  \/ worker[p][i] \in {"stored", "released", "exited"} /\ outcome[p][i] \in Result[p]

Untouched(p, i) == worker[p][i] = "none" /\ outcome[p][i] = Undecided

Split(p) ==
  /\ next[p] <= Size[p] + 1
  /\ pc[p] \in {"select", "parked"} => next[p] <= Size[p]
  /\ pc[p] \in {"wait", "done"} => next[p] = Size[p] + 1
  /\ pc[p] = "idle" => next[p] = 1
  /\ \A i \in Item(p) : IF i < next[p] THEN Decided(p, i) ELSE Untouched(p, i)

(***************************************************************************)
(* The semaphore counts the holders of a token, the WaitGroup the living.  *)
(***************************************************************************)
Counted(p) ==
  /\ sem[p] = Cardinality(Holding(p))
  /\ sem[p] <= Limit[p]
  /\ wg[p] = Cardinality(Alive(p))
  /\ pc[p] = "done" => wg[p] = 0

(***************************************************************************)
(* A late start leaves the launcher before its check, where the done       *)
(* context stops it.                                                       *)
(***************************************************************************)
Late(p) ==
  /\ cancelled => pc[p] # "parked"
  /\ late[p] # 0 => cancelled /\ late[p] = 1 /\ pc[p] # "select"

IInv ==
  /\ TypeOK
  /\ \A p \in Pool : Split(p) /\ Counted(p) /\ Late(p)

(***************************************************************************)
(* Every item of a pool is a natural number within a finite batch.         *)
(***************************************************************************)
LEMMA BatchFinite ==
  ASSUME NEW p \in Pool
  PROVE  /\ Size[p] \in Nat
         /\ Limit[p] \in Nat \ {0}
         /\ Item(p) \subseteq Nat
         /\ IsFiniteSet(Item(p))
         /\ \A S \in SUBSET Item(p) : IsFiniteSet(S) /\ Cardinality(S) \in Nat
<1>1. Size[p] \in Nat /\ Limit[p] \in Nat \ {0}
  BY PoolAssumption
<1>2. IsFiniteSet(Item(p))
  BY <1>1, FS_Interval DEF Item
<1>3. \A S \in SUBSET Item(p) : IsFiniteSet(S) /\ Cardinality(S) \in Nat
  BY <1>2, FS_Subset, FS_CardinalityType
<1>4. QED
  BY <1>1, <1>2, <1>3 DEF Item

(***************************************************************************)
(* Adding or removing one item changes the count of a set of items by one. *)
(***************************************************************************)
LEMMA CountOne ==
  ASSUME NEW p \in Pool, NEW S \in SUBSET Item(p), NEW i \in Item(p)
  PROVE  /\ i \notin S => Cardinality(S \cup {i}) = Cardinality(S) + 1
         /\ i \in S => Cardinality(S \ {i}) = Cardinality(S) - 1
         /\ i \in S => Cardinality(S) > 0
<1>1. IsFiniteSet(S) /\ Cardinality(S) \in Nat
  BY BatchFinite
<1>2. Cardinality(S \cup {i}) = IF i \in S THEN Cardinality(S) ELSE Cardinality(S) + 1
  BY <1>1, FS_AddElement
<1>3. Cardinality(S \ {i}) = IF i \in S THEN Cardinality(S) - 1 ELSE Cardinality(S)
  BY <1>1, FS_RemoveElement
<1>4. i \in S => Cardinality(S) # 0
  BY <1>1, FS_EmptySet
<1>5. QED
  BY <1>1, <1>2, <1>3, <1>4

LEMMA CountNone ==
  ASSUME NEW p \in Pool, NEW S \in SUBSET Item(p), Cardinality(S) = 0
  PROVE  S = {}
BY BatchFinite, FS_EmptySet

LEMMA InitIInv == Init => IInv
<1> SUFFICES ASSUME Init PROVE IInv
  OBVIOUS
<1>1. ASSUME NEW p \in Pool PROVE Typed(p)
  BY <1>1 DEF Init, Typed, LauncherState, WorkerState
<1>2. ASSUME NEW p \in Pool PROVE Split(p) /\ Counted(p) /\ Late(p)
  <2>1. Holding(p) = {} /\ Alive(p) = {}
    BY <1>2 DEF Init, Holding, Alive
  <2>2. Counted(p)
    BY <1>2, <2>1, BatchFinite, FS_EmptySet DEF Init, Counted
  <2>3. Split(p)
    BY <1>2, BatchFinite DEF Init, Split, Untouched, Item
  <2>4. Late(p)
    BY <1>2 DEF Init, Late
  <2>5. QED
    BY <2>2, <2>3, <2>4
<1>3. QED
  BY <1>1, <1>2 DEF IInv, TypeOK, Init

(***************************************************************************)
(* A step of one pool leaves the invariant of every other pool alone: all  *)
(* it mentions is the context and that pool's own components.              *)
(***************************************************************************)
SamePool(q) ==
  /\ pc'[q] = pc[q]
  /\ next'[q] = next[q]
  /\ sem'[q] = sem[q]
  /\ wg'[q] = wg[q]
  /\ worker'[q] = worker[q]
  /\ outcome'[q] = outcome[q]
  /\ late'[q] = late[q]

LEMMA Frame ==
  ASSUME NEW q \in Pool, SamePool(q), cancelled' = cancelled,
         Typed(q), Split(q), Counted(q), Late(q)
  PROVE  Typed(q)' /\ Split(q)' /\ Counted(q)' /\ Late(q)'
<1>1. Holding(q)' = Holding(q) /\ Alive(q)' = Alive(q)
  BY DEF SamePool, Holding, Alive, Item
<1>2. Split(q)'
  BY DEF SamePool, Split, Decided, Untouched, Item
<1>3. Counted(q)'
  BY <1>1 DEF SamePool, Counted
<1>4. Late(q)'
  BY DEF SamePool, Late
<1>5. Typed(q)'
  BY DEF SamePool, Typed, Item
<1>6. QED
  BY <1>2, <1>3, <1>4, <1>5

Local(p) == Typed(p) /\ Split(p) /\ Counted(p) /\ Late(p)

Step(p) == Open(p) \/ Launch(p) \/ \E i \in Item(p) : Work(p, i)

Domains ==
  /\ DOMAIN pc = Pool /\ DOMAIN next = Pool /\ DOMAIN sem = Pool /\ DOMAIN wg = Pool
  /\ DOMAIN worker = Pool /\ DOMAIN outcome = Pool /\ DOMAIN late = Pool

LEMMA StepFrame ==
  ASSUME Domains, NEW p \in Pool, Step(p)
  PROVE  /\ cancelled' = cancelled
         /\ Domains'
         /\ \A q \in Pool \ {p} : SamePool(q)
<1>1. CASE Open(p)
  BY <1>1 DEF Open, Domains, SamePool
<1>2. CASE CheckContext(p)
  BY <1>2 DEF CheckContext, Skip, Domains, SamePool
<1>3. CASE SelectDone(p)
  BY <1>3 DEF SelectDone, Skip, Domains, SamePool
<1>4. CASE SelectAcquire(p)
  BY <1>4 DEF SelectAcquire, Start, Domains, SamePool
<1>5. CASE Park(p) \/ EnterWait(p) \/ Join(p)
  BY <1>5 DEF Park, EnterWait, Join, Domains, SamePool
<1>6. ASSUME NEW i \in Item(p), Store(p, i)
      PROVE  cancelled' = cancelled /\ Domains' /\ \A q \in Pool \ {p} : SamePool(q)
  BY <1>6 DEF Store, Domains, SamePool
<1>7. ASSUME NEW i \in Item(p), ReleaseFree(p, i) \/ Exit(p, i)
      PROVE  cancelled' = cancelled /\ Domains' /\ \A q \in Pool \ {p} : SamePool(q)
  BY <1>7 DEF ReleaseFree, Exit, Domains, SamePool
<1>8. ASSUME NEW i \in Item(p), ReleaseHandover(p, i)
      PROVE  cancelled' = cancelled /\ Domains' /\ \A q \in Pool \ {p} : SamePool(q)
  BY <1>8 DEF ReleaseHandover, Domains, SamePool
<1>9. QED
  BY <1>1, <1>2, <1>3, <1>4, <1>5, <1>6, <1>7, <1>8 DEF Step, Launch, Work

(***************************************************************************)
(* The launcher's steps that touch neither a worker nor a slot.            *)
(***************************************************************************)
LEMMA QuietLauncher ==
  ASSUME Domains, cancelled \in BOOLEAN, NEW p \in Pool, Local(p),
         \/ Open(p) \/ Park(p) \/ EnterWait(p) \/ Join(p)
         \/ CheckContext(p) /\ ~cancelled
  PROVE  Local(p)'
<1>1. /\ cancelled' = cancelled
      /\ next'[p] = next[p] /\ sem'[p] = sem[p] /\ wg'[p] = wg[p]
      /\ worker'[p] = worker[p] /\ outcome'[p] = outcome[p] /\ late'[p] = late[p]
  BY DEF Open, Park, EnterWait, Join, CheckContext, Skip
<1>2. Holding(p)' = Holding(p) /\ Alive(p)' = Alive(p)
  BY <1>1 DEF Holding, Alive, Item
<1>3. /\ pc'[p] \in LauncherState
      /\ pc'[p] # "idle"
      /\ pc'[p] = "select" => ~cancelled /\ next[p] <= Size[p]
      /\ pc'[p] = "parked" => ~cancelled /\ next[p] <= Size[p]
      /\ pc'[p] \in {"wait", "done"} => next[p] = Size[p] + 1
      /\ pc'[p] = "done" => wg[p] = 0
  BY BatchFinite DEF Local, Typed, Split, Domains, LauncherState, Open, Park, EnterWait, Join,
                     CheckContext, Skip
<1>4. Typed(p)'
  BY <1>1, <1>3 DEF Local, Typed, Item
<1>5. Split(p)'
  BY <1>1, <1>3 DEF Local, Split, Decided, Untouched, Item
<1>6. Counted(p)'
  BY <1>1, <1>2, <1>3 DEF Local, Counted
<1>7. Late(p)'
  BY <1>1, <1>3 DEF Local, Late
<1>8. QED
  BY <1>4, <1>5, <1>6, <1>7 DEF Local

(***************************************************************************)
(* The launcher stores "skipped" at its position and moves on.             *)
(***************************************************************************)
LEMMA SkipStep ==
  ASSUME Domains, cancelled \in BOOLEAN, NEW p \in Pool, Local(p),
         SelectDone(p) \/ (CheckContext(p) /\ cancelled)
  PROVE  Local(p)'
<1>1. /\ cancelled /\ cancelled' = cancelled
      /\ sem'[p] = sem[p] /\ wg'[p] = wg[p] /\ worker'[p] = worker[p] /\ late'[p] = late[p]
      /\ next'[p] = next[p] + 1
      /\ pc'[p] = "check"
      /\ outcome'[p] = [outcome[p] EXCEPT ![next[p]] = Skipped]
      /\ next[p] <= Size[p]
  BY DEF Domains, Local, Split, SelectDone, CheckContext, Skip
<1>2. next[p] \in Item(p)
  BY <1>1, BatchFinite DEF Local, Typed, Item
<1>3. Holding(p)' = Holding(p) /\ Alive(p)' = Alive(p)
  BY <1>1 DEF Holding, Alive, Item
<1>4. Typed(p)'
  <2>1. outcome'[p] \in [Item(p) -> Result[p] \cup {Skipped, Undecided}]
    BY <1>1 DEF Local, Typed
  <2>2. QED
    BY <1>1, <2>1 DEF Local, Typed, LauncherState, Item
<1>5. Split(p)'
  <2>1. next'[p] <= Size[p] + 1
    BY <1>1, BatchFinite DEF Local, Typed
  <2>2. ASSUME NEW i \in Item(p)
        PROVE  IF i < next[p] + 1 THEN Decided(p, i)' ELSE Untouched(p, i)'
    <3>1. CASE i = next[p]
      <4>1. worker[p][i] = "none" /\ outcome'[p][i] = Skipped
        BY <1>1, <1>2, <3>1, BatchFinite DEF Local, Typed, Split, Untouched
      <4>2. QED
        BY <1>1, <3>1, <4>1, BatchFinite DEF Local, Typed, Decided
    <3>2. CASE i # next[p]
      <4>1. outcome'[p][i] = outcome[p][i] /\ worker'[p][i] = worker[p][i]
        BY <1>1, <3>2 DEF Local, Typed
      <4>2. i < next[p] + 1 <=> i < next[p]
        BY <3>2, BatchFinite DEF Local, Typed
      <4>3. QED
        BY <1>1, <4>1, <4>2 DEF Local, Split, Decided, Untouched
    <3>3. QED
      BY <3>1, <3>2
  <2>3. QED
    BY <1>1, <2>1, <2>2 DEF Split, Item
<1>6. Counted(p)'
  BY <1>1, <1>3 DEF Local, Counted
<1>7. Late(p)'
  BY <1>1 DEF Local, Late
<1>8. QED
  BY <1>4, <1>5, <1>6, <1>7 DEF Local

(***************************************************************************)
(* The launcher's send succeeds and the worker of its position starts.     *)
(***************************************************************************)
LEMMA AcquireStep ==
  ASSUME Domains, cancelled \in BOOLEAN, NEW p \in Pool, Local(p), SelectAcquire(p)
  PROVE  Local(p)'
<1>1. /\ cancelled' = cancelled
      /\ pc[p] = "select" /\ pc'[p] = "check"
      /\ sem[p] < Limit[p] /\ sem'[p] = sem[p] + 1 /\ wg'[p] = wg[p] + 1
      /\ next'[p] = next[p] + 1 /\ next[p] <= Size[p]
      /\ outcome'[p] = outcome[p]
      /\ worker'[p] = [worker[p] EXCEPT ![next[p]] = "running"]
      /\ late'[p] = IF cancelled THEN late[p] + 1 ELSE late[p]
  BY DEF Domains, Local, Split, SelectAcquire, Start
<1>2. next[p] \in Item(p)
  BY <1>1, BatchFinite DEF Local, Typed, Item
<1>3. worker[p][next[p]] = "none" /\ outcome[p][next[p]] = Undecided
  BY <1>2, BatchFinite DEF Local, Typed, Split, Untouched
<1>4. /\ Holding(p)' = Holding(p) \cup {next[p]} /\ next[p] \notin Holding(p)
      /\ Alive(p)' = Alive(p) \cup {next[p]} /\ next[p] \notin Alive(p)
  BY <1>1, <1>2, <1>3 DEF Local, Typed, Holding, Alive, Item
<1>5. Typed(p)'
  <2>1. worker'[p] \in [Item(p) -> WorkerState]
    BY <1>1 DEF Local, Typed, WorkerState
  <2>2. late'[p] \in Nat /\ next'[p] \in Nat \ {0} /\ sem'[p] \in Nat /\ wg'[p] \in Nat
    BY <1>1 DEF Local, Typed
  <2>3. QED
    BY <1>1, <2>1, <2>2 DEF Local, Typed, LauncherState, Item
<1>6. Split(p)'
  <2>1. next'[p] <= Size[p] + 1
    BY <1>1, BatchFinite DEF Local, Typed
  <2>2. ASSUME NEW i \in Item(p)
        PROVE  IF i < next[p] + 1 THEN Decided(p, i)' ELSE Untouched(p, i)'
    <3>1. CASE i = next[p]
      <4>1. worker'[p][i] = "running" /\ outcome'[p][i] = Undecided
        BY <1>1, <1>2, <1>3, <3>1 DEF Local, Typed
      <4>2. QED
        BY <3>1, <4>1, BatchFinite DEF Local, Typed, Decided
    <3>2. CASE i # next[p]
      <4>1. outcome'[p][i] = outcome[p][i] /\ worker'[p][i] = worker[p][i]
        BY <1>1, <3>2 DEF Local, Typed
      <4>2. i < next[p] + 1 <=> i < next[p]
        BY <3>2, BatchFinite DEF Local, Typed
      <4>3. QED
        BY <1>1, <4>1, <4>2 DEF Local, Split, Decided, Untouched
    <3>3. QED
      BY <3>1, <3>2
  <2>3. QED
    BY <1>1, <2>1, <2>2 DEF Split, Item
<1>7. Counted(p)'
  <2>1. Holding(p) \in SUBSET Item(p) /\ Alive(p) \in SUBSET Item(p)
    BY DEF Holding, Alive
  <2>2. /\ Cardinality(Holding(p)') = Cardinality(Holding(p)) + 1
        /\ Cardinality(Alive(p)') = Cardinality(Alive(p)) + 1
    BY <1>2, <1>4, <2>1, CountOne
  <2>3. QED
    BY <1>1, <2>2, BatchFinite DEF Local, Typed, Counted
<1>8. Late(p)'
  BY <1>1 DEF Local, Typed, Late
<1>9. QED
  BY <1>5, <1>6, <1>7, <1>8 DEF Local

(***************************************************************************)
(* A worker's own steps: the launcher does not move.                       *)
(***************************************************************************)
LEMMA StoreStep ==
  ASSUME Domains, cancelled \in BOOLEAN, NEW p \in Pool, Local(p),
         NEW i \in Item(p), Store(p, i)
  PROVE  Local(p)'
<1> PICK r \in Result[p] : outcome' = [outcome EXCEPT ![p][i] = r]
  BY DEF Store
<1>1. /\ cancelled' = cancelled
      /\ pc'[p] = pc[p] /\ next'[p] = next[p] /\ late'[p] = late[p]
      /\ sem'[p] = sem[p] /\ wg'[p] = wg[p]
      /\ worker[p][i] = "running"
      /\ worker'[p] = [worker[p] EXCEPT ![i] = "stored"]
      /\ outcome'[p] = [outcome[p] EXCEPT ![i] = r]
  BY DEF Domains, Store
<1>2. Holding(p)' = Holding(p) /\ Alive(p)' = Alive(p)
  BY <1>1 DEF Local, Typed, Holding, Alive, Item
<1>3. Typed(p)'
  <2>1. worker'[p] \in [Item(p) -> WorkerState]
    BY <1>1 DEF Local, Typed, WorkerState
  <2>2. outcome'[p] \in [Item(p) -> Result[p] \cup {Skipped, Undecided}]
    BY <1>1 DEF Local, Typed
  <2>3. QED
    BY <1>1, <2>1, <2>2 DEF Local, Typed, Item
<1>4. Split(p)'
  <2>1. ASSUME NEW j \in Item(p)
        PROVE  IF j < next[p] THEN Decided(p, j)' ELSE Untouched(p, j)'
    <3>1. CASE j = i
      <4>1. i < next[p]
        BY <1>1 DEF Local, Split, Untouched
      <4>2. worker'[p][i] = "stored" /\ outcome'[p][i] = r
        BY <1>1 DEF Local, Typed
      <4>3. QED
        BY <3>1, <4>1, <4>2 DEF Decided
    <3>2. CASE j # i
      <4>1. outcome'[p][j] = outcome[p][j] /\ worker'[p][j] = worker[p][j]
        BY <1>1, <3>2 DEF Local, Typed
      <4>2. QED
        BY <1>1, <4>1 DEF Local, Split, Decided, Untouched
    <3>3. QED
      BY <3>1, <3>2
  <2>2. QED
    BY <1>1, <2>1 DEF Local, Split, Item
<1>5. Counted(p)'
  BY <1>1, <1>2 DEF Local, Counted
<1>6. Late(p)'
  BY <1>1 DEF Local, Late
<1>7. QED
  BY <1>3, <1>4, <1>5, <1>6 DEF Local

(***************************************************************************)
(* A worker that moves from one settled state to the next keeps the split. *)
(***************************************************************************)
LEMMA Unwinding ==
  ASSUME NEW p \in Pool, Local(p), NEW i \in Item(p), NEW to \in {"released", "exited"},
         worker[p][i] \in {"stored", "released"},
         worker'[p] = [worker[p] EXCEPT ![i] = to],
         cancelled' = cancelled, pc'[p] = pc[p], next'[p] = next[p], outcome'[p] = outcome[p]
  PROVE  Split(p)' /\ worker'[p] \in [Item(p) -> WorkerState]
<1>1. ASSUME NEW j \in Item(p)
      PROVE  IF j < next[p] THEN Decided(p, j)' ELSE Untouched(p, j)'
  <2>1. CASE j = i
    <3>1. i < next[p] /\ outcome[p][i] \in Result[p]
      BY DEF Local, Split, Untouched, Decided
    <3>2. worker'[p][i] = to
      BY DEF Local, Typed
    <3>3. QED
      BY <2>1, <3>1, <3>2 DEF Decided
  <2>2. CASE j # i
    <3>1. worker'[p][j] = worker[p][j]
      BY <2>2 DEF Local, Typed
    <3>2. QED
      BY <3>1 DEF Local, Split, Decided, Untouched
  <2>3. QED
    BY <2>1, <2>2
<1>2. Split(p)'
  BY <1>1 DEF Local, Split, Item
<1>3. worker'[p] \in [Item(p) -> WorkerState]
  BY DEF Local, Typed, WorkerState
<1>4. QED
  BY <1>2, <1>3

LEMMA ReleaseFreeStep ==
  ASSUME Domains, cancelled \in BOOLEAN, NEW p \in Pool, Local(p),
         NEW i \in Item(p), ReleaseFree(p, i)
  PROVE  Local(p)'
<1>1. /\ cancelled' = cancelled
      /\ pc'[p] = pc[p] /\ next'[p] = next[p] /\ late'[p] = late[p]
      /\ sem'[p] = sem[p] - 1 /\ wg'[p] = wg[p] /\ outcome'[p] = outcome[p]
      /\ worker[p][i] = "stored"
      /\ worker'[p] = [worker[p] EXCEPT ![i] = "released"]
  BY DEF Domains, ReleaseFree
<1>2. /\ Holding(p)' = Holding(p) \ {i} /\ i \in Holding(p)
      /\ Alive(p)' = Alive(p)
  BY <1>1 DEF Local, Typed, Holding, Alive, Item
<1>3. Split(p)' /\ worker'[p] \in [Item(p) -> WorkerState]
  BY <1>1, Unwinding
<1>4. Cardinality(Holding(p)') = Cardinality(Holding(p)) - 1 /\ Cardinality(Holding(p)) > 0
  <2>1. Holding(p) \in SUBSET Item(p)
    BY DEF Holding
  <2>2. QED
    BY <1>2, <2>1, CountOne
<1>5. sem'[p] \in Nat /\ sem'[p] <= Limit[p]
  BY <1>1, <1>4, BatchFinite DEF Local, Typed, Counted
<1>6. Typed(p)'
  BY <1>1, <1>3, <1>5 DEF Local, Typed, Item
<1>7. Counted(p)'
  BY <1>1, <1>2, <1>4, <1>5 DEF Local, Counted
<1>8. Late(p)'
  BY <1>1 DEF Local, Late
<1>9. QED
  BY <1>3, <1>6, <1>7, <1>8 DEF Local

LEMMA ExitStep ==
  ASSUME Domains, cancelled \in BOOLEAN, NEW p \in Pool, Local(p),
         NEW i \in Item(p), Exit(p, i)
  PROVE  Local(p)'
<1>1. /\ cancelled' = cancelled
      /\ pc'[p] = pc[p] /\ next'[p] = next[p] /\ late'[p] = late[p]
      /\ sem'[p] = sem[p] /\ wg'[p] = wg[p] - 1 /\ outcome'[p] = outcome[p]
      /\ worker[p][i] = "released"
      /\ worker'[p] = [worker[p] EXCEPT ![i] = "exited"]
  BY DEF Domains, Exit
<1>2. /\ Holding(p)' = Holding(p)
      /\ Alive(p)' = Alive(p) \ {i} /\ i \in Alive(p)
  BY <1>1 DEF Local, Typed, Holding, Alive, Item
<1>3. Split(p)' /\ worker'[p] \in [Item(p) -> WorkerState]
  BY <1>1, Unwinding
<1>4. Cardinality(Alive(p)') = Cardinality(Alive(p)) - 1 /\ Cardinality(Alive(p)) > 0
  <2>1. Alive(p) \in SUBSET Item(p)
    BY DEF Alive
  <2>2. QED
    BY <1>2, <2>1, CountOne
<1>5. wg'[p] \in Nat /\ wg[p] # 0
  BY <1>1, <1>4 DEF Local, Typed, Counted
<1>6. Typed(p)'
  BY <1>1, <1>3, <1>5 DEF Local, Typed, Item
<1>7. Counted(p)'
  BY <1>1, <1>2, <1>4, <1>5 DEF Local, Counted
<1>8. Late(p)'
  BY <1>1 DEF Local, Late
<1>9. QED
  BY <1>3, <1>6, <1>7, <1>8 DEF Local

(***************************************************************************)
(* The parked launcher's send completes with a worker's receive: one       *)
(* holder goes, the next one comes.                                        *)
(***************************************************************************)
LEMMA HandoverStep ==
  ASSUME Domains, cancelled \in BOOLEAN, NEW p \in Pool, Local(p),
         NEW i \in Item(p), ReleaseHandover(p, i)
  PROVE  Local(p)'
<1>1. /\ cancelled' = cancelled /\ ~cancelled
      /\ pc[p] = "parked" /\ pc'[p] = "check"
      /\ next'[p] = next[p] + 1 /\ next[p] <= Size[p]
      /\ late'[p] = late[p] /\ sem'[p] = sem[p] /\ wg'[p] = wg[p] + 1
      /\ outcome'[p] = outcome[p]
      /\ worker[p][i] = "stored"
      /\ worker'[p] = [worker[p] EXCEPT ![i] = "released", ![next[p]] = "running"]
  BY DEF Domains, ReleaseHandover, Local, Split, Late
<1>2. next[p] \in Item(p)
  BY <1>1, BatchFinite DEF Local, Typed, Item
<1>3. worker[p][next[p]] = "none" /\ outcome[p][next[p]] = Undecided
  BY <1>2, BatchFinite DEF Local, Typed, Split, Untouched
<1>4. i # next[p]
  BY <1>1, <1>3
<1>5. /\ worker'[p][i] = "released" /\ worker'[p][next[p]] = "running"
      /\ \A j \in Item(p) \ {i, next[p]} : worker'[p][j] = worker[p][j]
      /\ worker'[p] \in [Item(p) -> WorkerState]
  BY <1>1, <1>2, <1>4 DEF Local, Typed, WorkerState
<1>6. /\ Holding(p)' = (Holding(p) \ {i}) \cup {next[p]}
      /\ i \in Holding(p) /\ next[p] \notin Holding(p)
      /\ Alive(p)' = Alive(p) \cup {next[p]} /\ next[p] \notin Alive(p)
  BY <1>1, <1>2, <1>3, <1>4, <1>5 DEF Holding, Alive, Item
<1>7. /\ Cardinality(Holding(p)') = Cardinality(Holding(p))
      /\ Cardinality(Alive(p)') = Cardinality(Alive(p)) + 1
  <2>1. /\ Holding(p) \in SUBSET Item(p) /\ Alive(p) \in SUBSET Item(p)
        /\ Holding(p) \ {i} \in SUBSET Item(p)
    BY DEF Holding, Alive
  <2>2. /\ Cardinality(Holding(p) \ {i}) = Cardinality(Holding(p)) - 1
        /\ Cardinality(Alive(p) \cup {next[p]}) = Cardinality(Alive(p)) + 1
    BY <1>2, <1>6, <2>1, CountOne
  <2>3. Cardinality((Holding(p) \ {i}) \cup {next[p]}) = Cardinality(Holding(p) \ {i}) + 1
    BY <1>2, <1>6, <2>1, CountOne
  <2>4. Cardinality(Holding(p)) \in Nat
    BY <2>1, BatchFinite
  <2>5. QED
    BY <1>6, <2>2, <2>3, <2>4
<1>8. Typed(p)'
  <2>1. next'[p] \in Nat \ {0} /\ wg'[p] \in Nat
    BY <1>1 DEF Local, Typed
  <2>2. QED
    BY <1>1, <1>5, <2>1 DEF Local, Typed, LauncherState, Item
<1>9. Split(p)'
  <2>1. next'[p] <= Size[p] + 1
    BY <1>1, BatchFinite DEF Local, Typed
  <2>2. ASSUME NEW j \in Item(p)
        PROVE  IF j < next[p] + 1 THEN Decided(p, j)' ELSE Untouched(p, j)'
    <3>1. CASE j = next[p]
      BY <1>1, <1>3, <1>5, <3>1, BatchFinite DEF Local, Typed, Decided
    <3>2. CASE j = i
      <4>1. i < next[p] + 1 /\ outcome[p][i] \in Result[p]
        BY <1>1, BatchFinite DEF Local, Typed, Split, Untouched, Decided
      <4>2. QED
        BY <1>1, <1>5, <3>2, <4>1 DEF Decided
    <3>3. CASE j \notin {i, next[p]}
      <4>1. j < next[p] + 1 <=> j < next[p]
        BY <3>3, BatchFinite DEF Local, Typed
      <4>2. QED
        BY <1>1, <1>5, <3>3, <4>1 DEF Local, Split, Decided, Untouched
    <3>4. QED
      BY <3>1, <3>2, <3>3
  <2>3. QED
    BY <1>1, <2>1, <2>2 DEF Split, Item
<1>10. Counted(p)'
  BY <1>1, <1>7 DEF Local, Counted
<1>11. Late(p)'
  BY <1>1 DEF Local, Late
<1>12. QED
  BY <1>8, <1>9, <1>10, <1>11 DEF Local

(***************************************************************************)
(* Cancellation touches every pool: a parked launcher skips its item.      *)
(***************************************************************************)
LEMMA CancelStep ==
  ASSUME Domains, cancelled \in BOOLEAN, NEW p \in Pool, Local(p), Cancel
  PROVE  Local(p)'
<1>1. /\ ~cancelled /\ cancelled'
      /\ sem'[p] = sem[p] /\ wg'[p] = wg[p] /\ worker'[p] = worker[p] /\ late'[p] = late[p]
  BY DEF Cancel
<1>2. Holding(p)' = Holding(p) /\ Alive(p)' = Alive(p)
  BY <1>1 DEF Holding, Alive, Item
<1>3. late[p] = 0
  BY <1>1 DEF Local, Late
<1>4. CASE pc[p] # "parked"
  <2>1. pc'[p] = pc[p] /\ next'[p] = next[p] /\ outcome'[p] = outcome[p]
    BY <1>4 DEF Cancel, Parked
  <2>2. QED
    BY <1>1, <1>2, <1>3, <1>4, <2>1
       DEF Local, Typed, Split, Counted, Late, Decided, Untouched, Item
<1>5. CASE pc[p] = "parked"
  <2>1. /\ pc'[p] = "check" /\ next'[p] = next[p] + 1 /\ next[p] <= Size[p]
        /\ outcome'[p] = [outcome[p] EXCEPT ![next[p]] = Skipped]
    BY <1>5 DEF Cancel, Parked, Local, Split
  <2>2. next[p] \in Item(p)
    BY <2>1, BatchFinite DEF Local, Typed, Item
  <2>3. Typed(p)'
    <3>1. outcome'[p] \in [Item(p) -> Result[p] \cup {Skipped, Undecided}]
      BY <2>1 DEF Local, Typed
    <3>2. next'[p] \in Nat \ {0}
      BY <2>1 DEF Local, Typed
    <3>3. QED
      BY <1>1, <2>1, <3>1, <3>2 DEF Local, Typed, LauncherState, Item
  <2>4. Split(p)'
    <3>1. next'[p] <= Size[p] + 1
      BY <2>1, BatchFinite DEF Local, Typed
    <3>2. ASSUME NEW i \in Item(p)
          PROVE  IF i < next[p] + 1 THEN Decided(p, i)' ELSE Untouched(p, i)'
      <4>1. CASE i = next[p]
        <5>1. worker[p][i] = "none" /\ outcome'[p][i] = Skipped
          BY <2>1, <2>2, <4>1, BatchFinite DEF Local, Typed, Split, Untouched
        <5>2. QED
          BY <1>1, <4>1, <5>1, BatchFinite DEF Local, Typed, Decided
      <4>2. CASE i # next[p]
        <5>1. outcome'[p][i] = outcome[p][i] /\ worker'[p][i] = worker[p][i]
          BY <1>1, <2>1, <4>2 DEF Local, Typed
        <5>2. i < next[p] + 1 <=> i < next[p]
          BY <4>2, BatchFinite DEF Local, Typed
        <5>3. QED
          BY <1>1, <5>1, <5>2 DEF Local, Split, Decided, Untouched
      <4>3. QED
        BY <4>1, <4>2
    <3>3. QED
      BY <2>1, <3>1, <3>2 DEF Split, Item
  <2>5. Counted(p)'
    BY <1>1, <1>2, <2>1 DEF Local, Counted
  <2>6. Late(p)'
    BY <1>1, <1>3, <2>1 DEF Late
  <2>7. QED
    BY <2>3, <2>4, <2>5, <2>6 DEF Local
<1>6. QED
  BY <1>4, <1>5

LEMMA NextIInv == IInv /\ [Next]_vars => IInv'
<1> SUFFICES ASSUME IInv, [Next]_vars PROVE IInv'
  OBVIOUS
<1>1. Domains /\ cancelled \in BOOLEAN /\ \A p \in Pool : Local(p)
  BY DEF IInv, TypeOK, Domains, Local
<1>2. ASSUME Domains', cancelled' \in BOOLEAN, \A p \in Pool : Local(p)'
      PROVE  IInv'
  BY <1>2 DEF IInv, TypeOK, Domains, Local
<1>3. CASE UNCHANGED vars
  <2>1. ASSUME NEW p \in Pool PROVE Local(p)'
    <3>1. SamePool(p) /\ cancelled' = cancelled
      BY <1>3 DEF vars, SamePool
    <3>2. QED
      BY <1>1, <3>1, Frame DEF Local
  <2>2. Domains' /\ cancelled' \in BOOLEAN
    BY <1>1, <1>3 DEF vars, Domains
  <2>3. QED
    BY <1>2, <2>1, <2>2
<1>4. CASE Cancel
  <2>1. \A p \in Pool : Local(p)'
    BY <1>1, <1>4, CancelStep
  <2>2. Domains' /\ cancelled' \in BOOLEAN
    BY <1>1, <1>4 DEF Cancel, Domains
  <2>3. QED
    BY <1>2, <2>1, <2>2
<1>5. ASSUME NEW p \in Pool, Step(p) PROVE IInv'
  <2>1. /\ cancelled' = cancelled /\ Domains'
        /\ \A q \in Pool \ {p} : SamePool(q)
    BY <1>1, <1>5, StepFrame
  <2>2. ASSUME NEW q \in Pool \ {p} PROVE Local(q)'
    BY <1>1, <2>1, Frame DEF Local
  <2>3. Local(p)'
    <3>1. CASE \/ Open(p) \/ Park(p) \/ EnterWait(p) \/ Join(p)
               \/ CheckContext(p) /\ ~cancelled
      BY <1>1, <3>1, QuietLauncher
    <3>2. CASE SelectDone(p) \/ (CheckContext(p) /\ cancelled)
      BY <1>1, <3>2, SkipStep
    <3>3. CASE SelectAcquire(p)
      BY <1>1, <3>3, AcquireStep
    <3>4. ASSUME NEW i \in Item(p), Work(p, i) PROVE Local(p)'
      BY <1>1, <3>4, StoreStep, ReleaseFreeStep, HandoverStep, ExitStep DEF Work
    <3>5. QED
      BY <1>5, <3>1, <3>2, <3>3, <3>4 DEF Step, Launch
  <2>4. QED
    BY <1>1, <1>2, <2>1, <2>2, <2>3
<1>6. QED
  BY <1>3, <1>4, <1>5 DEF Next, Step

THEOREM InductiveInvariant == Spec => []IInv
<1>1. QED
  BY InitIInv, NextIInv, PTL DEF Spec

-----------------------------------------------------------------------------
(* What the invariant gives. *)

(***************************************************************************)
(* Every variable of the pools keeps its type.                             *)
(***************************************************************************)
THEOREM TypeCorrect == Spec => []TypeOK
<1>1. IInv => TypeOK
  BY DEF IInv
<1>2. QED
  BY <1>1, InductiveInvariant, PTL

(***************************************************************************)
(* No pool runs more functions at once than its concurrency.               *)
(***************************************************************************)
THEOREM ConcurrencyBound == Spec => []LimitRespected
<1>1. ASSUME IInv, NEW p \in Pool
      PROVE  Cardinality(InFlight(p)) <= Limit[p]
  <2>1. Holding(p) \in SUBSET Item(p) /\ InFlight(p) \in SUBSET Holding(p)
    BY DEF Holding, InFlight
  <2>2. IsFiniteSet(Holding(p)) /\ Cardinality(Holding(p)) \in Nat
    BY <2>1, BatchFinite
  <2>3. Cardinality(InFlight(p)) <= Cardinality(Holding(p)) /\ Cardinality(InFlight(p)) \in Nat
    BY <2>1, <2>2, FS_Subset, FS_CardinalityType
  <2>4. Cardinality(Holding(p)) <= Limit[p]
    BY <1>1 DEF IInv, Counted
  <2>5. QED
    BY <2>2, <2>3, <2>4, BatchFinite
<1>2. IInv => LimitRespected
  BY <1>1 DEF LimitRespected
<1>3. QED
  BY <1>2, InductiveInvariant, PTL

(***************************************************************************)
(* When wg.Wait() has returned, every slot is stored and no worker lives.  *)
(***************************************************************************)
LEMMA DoneMeansDecided ==
  ASSUME IInv, NEW p \in Pool, pc[p] = "done", NEW i \in Item(p)
  PROVE  outcome[p][i] # Undecided /\ worker[p][i] \in {"none", "exited"}
<1>1. Typed(p) /\ Split(p) /\ Counted(p)
  BY DEF IInv, TypeOK
<1>2. i < next[p]
  BY <1>1, BatchFinite DEF Split, Item
<1>3. Decided(p, i)
  BY <1>1, <1>2 DEF Split
<1>4. i \notin Alive(p)
  <2>1. Alive(p) \in SUBSET Item(p) /\ Cardinality(Alive(p)) = 0
    BY <1>1 DEF Counted, Alive
  <2>2. QED
    BY <2>1, CountNone
<1>5. worker[p][i] \in {"none", "exited"}
  BY <1>1, <1>4 DEF Typed, WorkerState, Alive
<1>6. QED
  BY <1>3, <1>5, PoolAssumption DEF Decided

THEOREM BarrierComplete == Spec => []NothingLeftBehind
<1>1. IInv => NothingLeftBehind
  BY DoneMeansDecided DEF NothingLeftBehind
<1>2. QED
  BY <1>1, InductiveInvariant, PTL

(***************************************************************************)
(* After cancellation each pool starts at most one more function.          *)
(***************************************************************************)
THEOREM LateStartBound == Spec => []AtMostOneLateStart
<1>1. ASSUME IInv, NEW p \in Pool
      PROVE  /\ late[p] <= 1
             /\ ~cancelled => \A i \in Item(p) : outcome[p][i] # Skipped
  <2>1. Typed(p) /\ Split(p) /\ Late(p)
    BY <1>1 DEF IInv, TypeOK
  <2>2. late[p] <= 1
    BY <2>1 DEF Late, Typed
  <2>3. ASSUME ~cancelled, NEW i \in Item(p) PROVE outcome[p][i] # Skipped
    BY <2>1, <2>3, PoolAssumption DEF Split, Decided, Untouched
  <2>4. QED
    BY <2>2, <2>3
<1>2. IInv => AtMostOneLateStart
  BY <1>1 DEF AtMostOneLateStart
<1>3. QED
  BY <1>2, InductiveInvariant, PTL

(***************************************************************************)
(* A step changes a slot only from undecided, and only once its pool is    *)
(* open; it starts no worker for a skipped item.                           *)
(***************************************************************************)
LEMMA SlotStep ==
  ASSUME IInv, IInv', Next, NEW p \in Pool, NEW i \in Item(p)
  PROVE  /\ \/ outcome'[p][i] = outcome[p][i]
            \/ /\ pc[p] # "idle" /\ outcome[p][i] = Undecided
               /\ outcome'[p][i] \in Result[p] \cup {Skipped}
         /\ outcome[p][i] = Skipped => worker'[p][i] = "none"
<1>1. /\ Typed(p) /\ Split(p) /\ Domains
      /\ Typed(p)' /\ Split(p)'
  BY DEF IInv, TypeOK, Domains
<1>0. DOMAIN outcome[p] = Item(p)
  BY <1>1 DEF Typed
<1>2. Size[p] \in Nat /\ i \in Nat /\ i >= 1
  BY BatchFinite DEF Item
<1>9. i = next[p] => outcome[p][i] = Undecided
  <2>1. next[p] \in Nat
    BY <1>1 DEF Typed
  <2>2. i = next[p] => ~(i < next[p])
    BY <2>1, <1>2
  <2>3. QED
    BY <1>1, <2>2 DEF Split, Untouched
<1>3. \/ outcome'[p][i] = outcome[p][i]
      \/ pc[p] # "idle" /\ outcome[p][i] = Undecided
  <2>1. CASE Cancel
    <3>1. CASE pc[p] = "parked" /\ i = next[p]
      BY <1>9, <3>1
    <3>2. CASE ~(pc[p] = "parked" /\ i = next[p])
      <4>1. \/ outcome'[p] = outcome[p]
            \/ pc[p] = "parked" /\ outcome'[p] = [outcome[p] EXCEPT ![next[p]] = Skipped]
        BY <2>1 DEF Cancel, Parked
      <4>2. QED
        BY <1>0, <3>2, <4>1
    <3>3. QED
      BY <3>1, <3>2
  <2>2. ASSUME NEW q \in Pool, Step(q), q # p
        PROVE  outcome'[p][i] = outcome[p][i]
    BY <1>1, <2>2, StepFrame DEF SamePool
  <2>3. CASE SelectDone(p) \/ CheckContext(p)
    <3>1. CASE i = next[p]
      BY <1>9, <2>3, <3>1 DEF SelectDone, CheckContext
    <3>2. CASE i # next[p]
      <4>1. \/ outcome'[p] = outcome[p]
            \/ outcome'[p] = [outcome[p] EXCEPT ![next[p]] = Skipped]
        BY <1>1, <2>3 DEF SelectDone, CheckContext, Skip, Domains
      <4>2. QED
        BY <1>0, <3>2, <4>1
    <3>3. QED
      BY <3>1, <3>2
  <2>4. ASSUME NEW j \in Item(p), Store(p, j)
        PROVE  \/ outcome'[p][i] = outcome[p][i]
               \/ pc[p] # "idle" /\ outcome[p][i] = Undecided
    <3>1. CASE j = i
      <4>1. worker[p][i] = "running"
        BY <2>4, <3>1 DEF Store
      <4>2. i < next[p]
        BY <1>1, <4>1 DEF Split, Untouched
      <4>3. outcome[p][i] = Undecided
        BY <1>1, <4>1, <4>2 DEF Split, Decided
      <4>4. pc[p] # "idle"
        BY <1>1, <1>2, <4>2 DEF Split
      <4>5. QED
        BY <4>3, <4>4
    <3>2. CASE j # i
      BY <1>1, <2>4, <3>2 DEF Store, Domains, Typed
    <3>3. QED
      BY <3>1, <3>2
  <2>5. CASE Open(p) \/ SelectAcquire(p) \/ Park(p) \/ EnterWait(p) \/ Join(p)
    BY <2>5 DEF Open, SelectAcquire, Park, EnterWait, Join
  <2>6. ASSUME NEW j \in Item(p), ReleaseFree(p, j) \/ ReleaseHandover(p, j) \/ Exit(p, j)
        PROVE  outcome'[p][i] = outcome[p][i]
    BY <2>6 DEF ReleaseFree, ReleaseHandover, Exit
  <2>7. QED
    BY <2>1, <2>2, <2>3, <2>4, <2>5, <2>6 DEF Next, Step, Launch, Work
<1>4. outcome'[p][i] = outcome[p][i] \/ outcome'[p][i] \in Result[p] \cup {Skipped}
  <2>1. ASSUME outcome[p][i] = Undecided, outcome'[p][i] # Undecided
        PROVE  outcome'[p][i] \in Result[p] \cup {Skipped}
    BY <1>1, <2>1 DEF Typed, Item
  <2>2. QED
    BY <1>3, <2>1
<1>5. ASSUME outcome[p][i] = Skipped PROVE worker'[p][i] = "none"
  <2>1. outcome'[p][i] = Skipped
    BY <1>3, <1>5, PoolAssumption
  <2>2. QED
    BY <1>1, <2>1, PoolAssumption DEF Split, Decided, Untouched, Item
<1>6. QED
  BY <1>3, <1>4, <1>5

(***************************************************************************)
(* A decided slot keeps its value, and a skipped item's function never     *)
(* runs.                                                                   *)
(***************************************************************************)
THEOREM SlotsDecidedOnce == Spec => DecidedOnce
<1>1. ASSUME IInv, IInv', [Next]_vars
      PROVE  [\A p \in Pool : \A i \in Item(p) :
                /\ (outcome[p][i] # Undecided => outcome'[p][i] = outcome[p][i])
                /\ (outcome[p][i] = Skipped => worker'[p][i] = "none")]_vars
  BY <1>1, SlotStep
<1>2. QED
  BY <1>1, InductiveInvariant, PTL DEF Spec, DecidedOnce

(***************************************************************************)
(* The pools implement the abstract fan-out.                               *)
(***************************************************************************)
THEOREM PoolsRefineFanOut == Spec => ImplementsFanOut
<1>1. Init => Contract!Init
  BY DEF Init, Contract!Init, Contract!Batch, Item
<1>2. ASSUME IInv, IInv', [Next]_vars
      PROVE  [Contract!Next]_(Contract!vars)
  <2>0. Domains /\ Domains'
    BY <1>2 DEF IInv, TypeOK, Domains
  <2>1. CASE UNCHANGED vars
    BY <2>1 DEF vars, Contract!vars
  <2>2. ASSUME NEW p \in Pool, Open(p) PROVE Contract!Open(p)
    BY <2>0, <2>2 DEF Open, Contract!Open, Domains
  <2>3. ASSUME NEW p \in Pool, Join(p) PROVE Contract!Return(p)
    <3>1. pc'[p] = "done"
      BY <2>0, <2>3 DEF Join, Domains
    <3>2. \A i \in Item(p) : outcome'[p][i] # Undecided
      <4>1. ASSUME NEW i \in Item(p) PROVE outcome[p][i] # Undecided
        <5>1. Typed(p) /\ Split(p)
          BY <1>2 DEF IInv, TypeOK
        <5>2. i < next[p]
          BY <2>3, <5>1, BatchFinite DEF Join, Split, Item
        <5>3. Decided(p, i) /\ worker[p][i] # "running"
          <6>1. Alive(p) \in SUBSET Item(p) /\ Cardinality(Alive(p)) = 0
            BY <1>2, <2>3 DEF IInv, Counted, Alive, Join
          <6>2. i \notin Alive(p)
            BY <6>1, CountNone
          <6>3. QED
            BY <5>1, <5>2, <6>2 DEF Split, Alive
        <5>4. QED
          BY <5>3, PoolAssumption DEF Decided
      <4>2. QED
        BY <2>3, <4>1 DEF Join
    <3>3. QED
      BY <2>0, <2>3, <3>1, <3>2 DEF Join, Contract!Return, Contract!Batch, Item, Domains
  <2>4. ASSUME Next, \A p \in Pool : (pc'[p] = "idle" <=> pc[p] = "idle")
                                  /\ (pc'[p] = "done" <=> pc[p] = "done")
        PROVE  Contract!Decide
    <3>1. ASSUME NEW p \in Pool, NEW i \in Item(p)
          PROVE  \/ outcome'[p][i] = outcome[p][i]
                 \/ /\ pc[p] # "idle" /\ outcome[p][i] = Undecided
                    /\ outcome'[p][i] \in Result[p] \cup {Skipped}
      BY <1>2, <2>4, <3>1, SlotStep
    <3>2. DOMAIN outcome' = Pool /\ \A p \in Pool : DOMAIN outcome'[p] = Item(p)
      BY <1>2 DEF IInv, TypeOK, Typed, Item
    <3>3. QED
      BY <2>4, <3>1, <3>2 DEF Contract!Decide, Contract!Batch, Item
  <2>5. ASSUME NEW p \in Pool,
               \/ Cancel \/ CheckContext(p) \/ SelectDone(p) \/ SelectAcquire(p)
               \/ Park(p) \/ EnterWait(p) \/ \E i \in Item(p) : Work(p, i),
               NEW q \in Pool
        PROVE  (pc'[q] = "idle" <=> pc[q] = "idle") /\ (pc'[q] = "done" <=> pc[q] = "done")
    BY <2>0, <2>5 DEF Domains, Cancel, Parked, CheckContext, SelectDone, Skip, SelectAcquire,
                      Start, Park, EnterWait, Work, Store, ReleaseFree, ReleaseHandover, Exit
  <2>6. ASSUME Next,
               ~ \E p \in Pool : Open(p) \/ Join(p)
        PROVE  Contract!Decide
    <3>1. CASE Pool = {}
      BY <2>4, <2>6, <3>1
    <3>2. CASE Pool # {}
      BY <2>4, <2>5, <2>6, <3>2 DEF Next, Launch
    <3>3. QED
      BY <3>1, <3>2
  <2>7. QED
    BY <1>2, <2>1, <2>2, <2>3, <2>6 DEF Contract!Next
<1>3. QED
  BY <1>1, <1>2, InductiveInvariant, PTL DEF Spec, ImplementsFanOut, Contract!Spec

=============================================================================
