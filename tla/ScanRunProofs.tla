--------------------------- MODULE ScanRunProofs ----------------------------
(***************************************************************************)
(* A scan's pools are WorkerPools, so their invariant holds in it; on top  *)
(* of it, the nesting of the pools and the one cancellation check give the *)
(* two facts a pack rests on, for every number of collectors, repositories *)
(* and places.  The command around the scan leaves it alone, so that what  *)
(* holds of a scan holds of the command.                                   *)
(***************************************************************************)
EXTENDS ScanCommand, WorkerPoolsProofs, SequenceTheorems

(***************************************************************************)
(* A repository pool is active only inside its collector's call.           *)
(***************************************************************************)
Nested ==
  \A c \in FansOut :
    pc[RepoPool[c]] \notin {"idle", "done"} => worker[Collectors][c] = "running"

(***************************************************************************)
(* Past the cancellation check nothing was skipped or soiled, and there is *)
(* nobody left who could.                                                  *)
(***************************************************************************)
CleanPack ==
  phase \in {"assembling", "packed"} =>
    /\ pc[Collectors] = "done"
    /\ soiled = {}
    /\ \A p \in Pool : \A i \in Item(p) : outcome[p][i] # Skipped

ScanIInv ==
  /\ Nested
  /\ CleanPack
  /\ soiled # {} => cancelled
  /\ phase = "packed" => \A row \in rows : row[3] # "cancelled"

LEMMA ScanStepsArePoolSteps == ScanNext => [Next]_vars
<1> SUFFICES ASSUME ScanNext PROVE [Next]_vars
  OBVIOUS
<1>1. CASE MainStep
  BY <1>1, ScanAssumption DEF MainStep, Preflight, CheckCancelled, Assemble, Next
<1>2. CASE CancelScan
  BY <1>2 DEF CancelScan, Next
<1>3. ASSUME NEW c \in FansOut, OpenRepos(c) PROVE Next
  BY <1>3, ScanAssumption DEF OpenRepos, Next
<1>4. ASSUME NEW p \in Pool, LaunchStep(p) PROVE Next
  BY <1>4 DEF LaunchStep, Next
<1>5. ASSUME NEW p \in Pool, NEW i \in Item(p), FinishCall(p, i) \/ UnwindCall(p, i)
      PROVE  Next
  BY <1>5 DEF FinishCall, UnwindCall, Work, Next
<1>6. QED
  BY <1>1, <1>2, <1>3, <1>4, <1>5 DEF ScanNext

THEOREM ScanRefinesPools == ScanSpec => Spec
<1>1. ScanInit => Init
  BY DEF ScanInit
<1>2. [ScanNext]_scanVars => [Next]_vars
  BY ScanStepsArePoolSteps DEF scanVars
<1>3. QED
  BY <1>1, <1>2, PTL DEF ScanSpec, Spec

(***************************************************************************)
(* Nobody runs in a pool that is idle or done.                             *)
(***************************************************************************)
LEMMA QuietPool ==
  ASSUME IInv, NEW p \in Pool, pc[p] \in {"idle", "done"}
  PROVE  Alive(p) = {}
<1>1. Typed(p) /\ Split(p) /\ Counted(p)
  BY DEF IInv, TypeOK
<1>2. CASE pc[p] = "idle"
  <2>1. ASSUME NEW i \in Item(p) PROVE worker[p][i] = "none"
    <3>1. ~(i < next[p])
      BY <1>1, <1>2, BatchFinite DEF Split, Item
    <3>2. QED
      BY <1>1, <3>1 DEF Split, Untouched
  <2>2. QED
    BY <2>1 DEF Alive
<1>3. CASE pc[p] = "done"
  <2>1. Alive(p) \in SUBSET Item(p) /\ Cardinality(Alive(p)) = 0
    BY <1>1, <1>3 DEF Counted, Alive
  <2>2. QED
    BY <2>1, CountNone
<1>4. QED
  BY <1>2, <1>3

(***************************************************************************)
(* With the collectors joined, every pool of the scan is quiet.            *)
(***************************************************************************)
LEMMA AllQuiet ==
  ASSUME IInv, Nested, pc[Collectors] = "done"
  PROVE  \A p \in Pool : pc[p] \in {"idle", "done"} /\ Alive(p) = {}
<1>1. Collectors \in Pool /\ Alive(Collectors) = {}
  BY QuietPool, ScanAssumption
<1>2. ASSUME NEW p \in Pool PROVE pc[p] \in {"idle", "done"}
  <2>1. CASE p = Collectors
    BY <2>1
  <2>2. ASSUME NEW c \in FansOut, p = RepoPool[c] PROVE pc[p] \in {"idle", "done"}
    <3>1. c \in Item(Collectors) /\ c \notin Alive(Collectors)
      BY <1>1, ScanAssumption
    <3>2. worker[Collectors][c] # "running"
      BY <3>1 DEF Alive
    <3>3. QED
      BY <2>2, <3>2 DEF Nested
  <2>3. QED
    BY <2>1, <2>2, ScanAssumption
<1>3. QED
  BY <1>2, QuietPool

LEMMA NestedStep ==
  ASSUME IInv, IInv', Nested, ScanNext \/ UNCHANGED scanVars
  PROVE  Nested'
<1> SUFFICES ASSUME NEW c \in FansOut, pc'[RepoPool[c]] \notin {"idle", "done"}
             PROVE  worker'[Collectors][c] = "running"
  BY DEF Nested
<1> DEFINE r == RepoPool[c]
<1>1. /\ r \in Pool /\ Collectors \in Pool /\ r # Collectors
      /\ c \in Item(Collectors) /\ Domains
  BY ScanAssumption DEF IInv, TypeOK, Domains
<1>2. CASE UNCHANGED scanVars
  BY <1>2 DEF scanVars, vars, Nested
<1>3. CASE CancelScan
  <2>1. worker' = worker /\ pc[r] \notin {"idle", "done"}
    BY <1>1, <1>3 DEF CancelScan, Cancel, Parked
  <2>2. QED
    BY <2>1 DEF Nested
<1>4. CASE MainStep
  <2>1. worker' = worker /\ pc'[r] = pc[r]
    BY <1>1, <1>4 DEF MainStep, Preflight, Open, CheckCancelled, Assemble, Domains, vars
  <2>2. QED
    BY <2>1 DEF Nested
<1>5. ASSUME NEW d \in FansOut, OpenRepos(d)
      PROVE  worker'[Collectors][c] = "running"
  <2>1. worker' = worker
    BY <1>5 DEF OpenRepos, Open
  <2>2. CASE d = c
    BY <1>5, <2>1, <2>2 DEF OpenRepos
  <2>3. CASE d # c
    <3>1. RepoPool[d] # r /\ RepoPool[d] \in Pool
      BY <2>3, ScanAssumption
    <3>2. pc'[r] = pc[r]
      BY <1>1, <1>5, <3>1 DEF OpenRepos, Open, Domains
    <3>3. QED
      BY <2>1, <3>2 DEF Nested
  <2>4. QED
    BY <2>2, <2>3
<1>6. ASSUME NEW p \in Pool, Launch(p) \/ (\E i \in Item(p) : Work(p, i)),
             p = Collectors => worker'[p][c] = "running" \/ worker[p][c] # "running"
      PROVE  worker'[Collectors][c] = "running"
  <2>1. \A q \in Pool \ {p} : SamePool(q)
    BY <1>1, <1>6, StepFrame DEF Step
  <2>2. CASE p = r
    <3>1. worker'[Collectors] = worker[Collectors]
      BY <1>1, <2>1, <2>2 DEF SamePool
    <3>2. pc[r] \notin {"idle", "done"}
      <4>1. CASE pc[r] \in {"idle", "done"}
        <5>1. Alive(r) = {}
          BY <1>1, <4>1, QuietPool
        <5>2. ~ \E i \in Item(r) : Work(r, i)
          BY <5>1 DEF Alive, Work, Store, ReleaseFree, ReleaseHandover, Exit
        <5>3. QED
          BY <1>6, <2>2, <4>1, <5>2 DEF Launch, CheckContext, SelectDone, SelectAcquire,
                                        Park, EnterWait, Join
      <4>2. QED
        BY <4>1
    <3>3. QED
      BY <3>1, <3>2 DEF Nested
  <2>3. CASE p # r
    <3>1. worker[Collectors][c] = "running"
      BY <1>1, <2>1, <2>3 DEF SamePool, Nested
    <3>2. CASE p # Collectors
      BY <1>1, <2>1, <3>1, <3>2 DEF SamePool
    <3>3. CASE p = Collectors
      BY <1>6, <3>1, <3>3
    <3>4. QED
      BY <3>2, <3>3
  <2>4. QED
    BY <2>2, <2>3
<1>7. /\ worker[Collectors] \in [Item(Collectors) -> WorkerState]
  BY <1>1 DEF IInv, TypeOK, Typed
<1>8. ASSUME NEW p \in Pool, LaunchStep(p)
      PROVE  worker'[Collectors][c] = "running"
  <2>1. CASE p = Collectors
    <3>1. worker'[p][c] = "running" \/ worker[p][c] # "running"
      BY <1>1, <1>7, <1>8, <2>1
         DEF LaunchStep, Launch, CheckContext, SelectDone, SelectAcquire, Start, Park,
             EnterWait, Join, Domains
    <3>2. QED
      BY <1>6, <1>8, <2>1, <3>1 DEF LaunchStep
  <2>2. CASE p # Collectors
    BY <1>6, <1>8, <2>2 DEF LaunchStep
  <2>3. QED
    BY <2>1, <2>2
<1>9. ASSUME NEW p \in Pool, NEW i \in Item(p), FinishCall(p, i) \/ UnwindCall(p, i)
      PROVE  worker'[Collectors][c] = "running"
  <2>1. Work(p, i)
    BY <1>9 DEF FinishCall, UnwindCall, Work
  <2>2. CASE p = Collectors /\ i = c /\ FinishCall(p, i)
    <3>1. pc[r] = "done"
      BY <2>2 DEF FinishCall, MayReturn
    <3>2. pc'[r] = pc[r]
      BY <2>2 DEF FinishCall, Store
    <3>3. QED
      BY <3>1, <3>2
  <2>3. CASE p = Collectors /\ ~(i = c /\ FinishCall(p, i))
    <3>1. worker'[p][c] = "running" \/ worker[p][c] # "running"
      BY <1>1, <1>7, <1>9, <2>3
         DEF FinishCall, UnwindCall, Store, ReleaseFree, ReleaseHandover, Exit, Domains
    <3>2. QED
      BY <1>6, <2>1, <2>3, <3>1
  <2>4. CASE p # Collectors
    BY <1>6, <2>1, <2>4
  <2>5. QED
    BY <2>2, <2>3, <2>4
<1>10. QED
  BY <1>2, <1>3, <1>4, <1>5, <1>8, <1>9 DEF ScanNext

(***************************************************************************)
(* A step of a scan whose collectors are joined changes no slot.           *)
(***************************************************************************)
LEMMA JoinedIsFrozen ==
  ASSUME IInv, Nested, pc[Collectors] = "done", ScanNext \/ UNCHANGED scanVars
  PROVE  /\ \A p \in Pool : outcome'[p] = outcome[p]
         /\ soiled' = soiled
         /\ pc'[Collectors] = "done"
<1>1. /\ \A p \in Pool : pc[p] \in {"idle", "done"} /\ Alive(p) = {}
      /\ Collectors \in Pool /\ Domains
  BY AllQuiet, ScanAssumption DEF IInv, TypeOK, Domains
<1>2. CASE UNCHANGED scanVars
  BY <1>2 DEF scanVars, vars
<1>3. CASE CancelScan
  BY <1>1, <1>3 DEF CancelScan, Cancel, Parked
<1>4. CASE MainStep
  BY <1>1, <1>4 DEF MainStep, Preflight, Open, CheckCancelled, Assemble, vars
<1>5. ASSUME NEW c \in FansOut, OpenRepos(c) PROVE FALSE
  <2>1. c \in Alive(Collectors)
    BY <1>5, ScanAssumption DEF OpenRepos, Alive
  <2>2. QED
    BY <1>1, <2>1
<1>6. ASSUME NEW p \in Pool, LaunchStep(p) PROVE FALSE
  BY <1>1, <1>6 DEF LaunchStep, Launch, CheckContext, SelectDone, SelectAcquire, Park,
                    EnterWait, Join
<1>7. ASSUME NEW p \in Pool, NEW i \in Item(p), FinishCall(p, i) \/ UnwindCall(p, i)
      PROVE  FALSE
  <2>1. i \in Alive(p)
    BY <1>7 DEF FinishCall, UnwindCall, Store, ReleaseFree, ReleaseHandover, Exit, Alive
  <2>2. QED
    BY <1>1, <2>1
<1>8. QED
  BY <1>2, <1>3, <1>4, <1>5, <1>6, <1>7 DEF ScanNext

LEMMA ScanInitIInv == ScanInit => ScanIInv
BY ScanAssumption DEF ScanInit, Init, ScanIInv, Nested, CleanPack

(***************************************************************************)
(* The history of soiled calls starts with the cancellation.               *)
(***************************************************************************)
LEMMA SoiledStep ==
  ASSUME soiled # {} => cancelled, ScanNext \/ UNCHANGED scanVars
  PROVE  soiled' # {} => cancelled'
<1>1. CASE UNCHANGED scanVars
  BY <1>1 DEF scanVars, vars
<1>2. CASE MainStep
  BY <1>2 DEF MainStep, Preflight, Open, CheckCancelled, Assemble, vars
<1>3. CASE CancelScan
  BY <1>3 DEF CancelScan, Cancel
<1>4. ASSUME NEW c \in FansOut, OpenRepos(c) PROVE soiled' # {} => cancelled'
  BY <1>4 DEF OpenRepos, Open
<1>5. ASSUME NEW p \in Pool, LaunchStep(p) PROVE soiled' # {} => cancelled'
  BY <1>5 DEF LaunchStep, Launch, CheckContext, SelectDone, SelectAcquire, Park, EnterWait, Join
<1>6. ASSUME NEW p \in Pool, NEW i \in Item(p), FinishCall(p, i) \/ UnwindCall(p, i)
      PROVE  soiled' # {} => cancelled'
  BY <1>6 DEF FinishCall, UnwindCall, Soil, Store, ReleaseFree, ReleaseHandover, Exit
<1>7. QED
  BY <1>1, <1>2, <1>3, <1>4, <1>5, <1>6 DEF ScanNext

LEMMA PhaseStep ==
  ASSUME ScanNext \/ UNCHANGED scanVars
  PROVE  \/ phase' = phase /\ rows' = rows
         \/ phase' \in {"collecting", "aborted"}
         \/ phase = "collecting" /\ CheckCancelled
         \/ phase = "assembling" /\ phase' = "packed" /\ rows' = CollectedRows
BY DEF ScanNext, scanVars, MainStep, Preflight, CheckCancelled, Assemble, CancelScan, OpenRepos,
       LaunchStep, FinishCall, UnwindCall

LEMMA CleanPackStep ==
  ASSUME IInv, Nested, CleanPack, soiled # {} => cancelled, ScanNext \/ UNCHANGED scanVars
  PROVE  CleanPack'
<1> SUFFICES ASSUME phase' \in {"assembling", "packed"}
             PROVE  /\ pc'[Collectors] = "done"
                    /\ soiled' = {}
                    /\ \A p \in Pool : \A i \in Item(p) : outcome'[p][i] # Skipped
  BY DEF CleanPack, Item
<1>1. CASE phase \in {"assembling", "packed"}
  BY <1>1, JoinedIsFrozen DEF CleanPack
<1>2. CASE phase = "collecting" /\ CheckCancelled
  <2>1. ~cancelled /\ pc[Collectors] = "done" /\ UNCHANGED vars /\ soiled' = soiled
    BY <1>2 DEF CheckCancelled
  <2>2. ASSUME NEW p \in Pool, NEW i \in Item(p) PROVE outcome[p][i] # Skipped
    BY <2>1, PoolAssumption DEF IInv, Split, Decided, Untouched
  <2>3. QED
    BY <2>1, <2>2 DEF vars
<1>3. QED
  BY <1>1, <1>2, PhaseStep

LEMMA CleanRowsStep ==
  ASSUME IInv, Nested, CleanPack, ScanNext \/ UNCHANGED scanVars,
         phase = "packed" => \A row \in rows : row[3] # "cancelled"
  PROVE  phase' = "packed" => \A row \in rows' : row[3] # "cancelled"
<1>1. CASE phase = "assembling" /\ rows' = CollectedRows
  <2>1. \A c \in FansOut : \A r \in Item(RepoPool[c]) : outcome[RepoPool[c]][r] # Skipped
    BY <1>1, ScanAssumption DEF CleanPack
  <2>2. ASSUME NEW c \in FansOut, NEW row \in RepoRows(c) PROVE row[3] # "cancelled"
    BY <2>1 DEF RepoRows
  <2>3. ASSUME NEW row \in PlaceholderRows \cup OrgRows PROVE row[3] # "cancelled"
    BY DEF PlaceholderRows, OrgRows
  <2>4. \A row \in CollectedRows : row[3] # "cancelled"
    BY <2>2, <2>3 DEF CollectedRows
  <2>5. QED
    BY <1>1, <2>4
<1>2. CASE phase' = phase /\ rows' = rows
  BY <1>2
<1>3. QED
  BY <1>1, <1>2, PhaseStep DEF CheckCancelled

THEOREM ScanInductiveInvariant == ScanSpec => [](IInv /\ ScanIInv)
<1>1. ScanSpec => []IInv
  BY ScanRefinesPools, InductiveInvariant, PTL
<1>2. ASSUME IInv, IInv', ScanIInv, [ScanNext]_scanVars
      PROVE  ScanIInv'
  BY <1>2, NestedStep, CleanPackStep, SoiledStep, CleanRowsStep DEF ScanIInv
<1>3. QED
  BY <1>1, <1>2, ScanInitIInv, PTL DEF ScanSpec

(***************************************************************************)
(* A scan interrupted at any point yields no pack (runScan's single        *)
(* ctx.Err() check after runCollectors is enough).                         *)
(***************************************************************************)
THEOREM InterruptedScanYieldsNoPack == ScanSpec => []NoPackFromInterruptedScan
<1>1. ScanIInv => NoPackFromInterruptedScan
  BY ScanAssumption DEF ScanIInv, CleanPack, NoPackFromInterruptedScan
<1>2. QED
  BY <1>1, ScanInductiveInvariant, PTL

(***************************************************************************)
(* No goroutine of a scan outlives the call that started it.               *)
(***************************************************************************)
THEOREM NoGoroutineOutlivesItsCall == ScanSpec => []NoOrphanGoroutines
<1>1. ASSUME IInv, ScanIInv PROVE NoOrphanGoroutines
  <2>1. ASSUME NEW c \in FansOut,
               pc[RepoPool[c]] \notin {"idle", "done"} \/ Alive(RepoPool[c]) # {}
        PROVE  worker[Collectors][c] = "running"
    BY <1>1, <2>1, QuietPool, ScanAssumption DEF ScanIInv, Nested
  <2>2. ASSUME phase \in {"assembling", "packed"} PROVE \A p \in Pool : Alive(p) = {}
    BY <1>1, <2>2, AllQuiet DEF ScanIInv, CleanPack
  <2>3. QED
    BY <2>1, <2>2 DEF NoOrphanGoroutines
<1>2. QED
  BY <1>1, ScanInductiveInvariant, PTL
-----------------------------------------------------------------------------
(* The rows. *)

(***************************************************************************)
(* A pack holds what its outcomes contribute: they do not change any more. *)
(***************************************************************************)
RowsCollected ==
  /\ phase = "packed" => rows = CollectedRows
  /\ phase # "packed" => rows = {}

LEMMA RowsCollectedStep ==
  ASSUME IInv, ScanIInv, RowsCollected, [ScanNext]_scanVars
  PROVE  RowsCollected'
<1> USE DEF RowsCollected
<1>1. CASE phase \in {"assembling", "packed"}
  <2>1. \A p \in Pool : outcome'[p] = outcome[p]
    BY <1>1, JoinedIsFrozen DEF ScanIInv, CleanPack
  <2>2. PlaceholderRows' = PlaceholderRows /\ OrgRows' = OrgRows
    BY <2>1, ScanAssumption DEF PlaceholderRows, OrgRows, Item
  <2>3. \A c \in FansOut : RepoRows(c)' = RepoRows(c)
    BY <2>1, ScanAssumption DEF RepoRows, Item
  <2>4. {d \in FansOut : outcome'[Collectors][d] = "returned"}
          = {d \in FansOut : outcome[Collectors][d] = "returned"}
    BY <2>1, ScanAssumption
  <2>5. CollectedRows' = CollectedRows
    BY <2>2, <2>3, <2>4 DEF CollectedRows
  <2>6. CASE phase = "packed"
    <3>1. phase' = phase /\ rows' = rows
      BY <2>6 DEF ScanNext, scanVars, MainStep, Preflight, CheckCancelled, Assemble, CancelScan, OpenRepos,
                  LaunchStep, FinishCall, UnwindCall
    <3>2. QED
      BY <2>5, <2>6, <3>1
  <2>7. CASE phase = "assembling"
    <3>1. \/ phase' \in {"assembling", "aborted"} /\ rows' = rows
          \/ phase' = "packed" /\ rows' = CollectedRows
      BY <2>7 DEF ScanNext, scanVars, MainStep, Preflight, CheckCancelled, Assemble, CancelScan, OpenRepos,
                  LaunchStep, FinishCall, UnwindCall
    <3>2. QED
      BY <2>5, <2>7, <3>1
  <2>8. QED
    BY <1>1, <2>6, <2>7
<1>2. CASE phase \notin {"assembling", "packed"}
  <2>1. phase' # "packed" /\ rows' = rows
    BY <1>2 DEF ScanNext, scanVars, MainStep, Preflight, CheckCancelled, Assemble, CancelScan, OpenRepos,
                LaunchStep, FinishCall, UnwindCall
  <2>2. QED
    BY <1>2, <2>1
<1>3. QED
  BY <1>1, <1>2

LEMMA RowsAreCollected == ScanSpec => []RowsCollected
<1>1. ScanInit => RowsCollected
  BY DEF ScanInit, RowsCollected
<1>2. QED
  BY <1>1, RowsCollectedStep, ScanInductiveInvariant, PTL DEF ScanSpec

(***************************************************************************)
(* The rows of one collector, by what became of it.                        *)
(***************************************************************************)
RowsOf(c) == {row \in CollectedRows : row[1] = c}

LEMMA RowsOfOne ==
  ASSUME NEW c \in Item(Collectors)
  PROVE  RowsOf(c) = IF outcome[Collectors][c] # "returned" THEN {<<c, 0, "placeholder">>}
                     ELSE IF c \notin FansOut THEN {<<c, 0, "own">>}
                     ELSE RepoRows(c)
<1>1. \A d \in FansOut : \A row \in RepoRows(d) : row[1] = d
  BY DEF RepoRows
<1>2. \A row \in PlaceholderRows : outcome[Collectors][row[1]] # "returned" /\ row = <<row[1], 0, "placeholder">>
  BY DEF PlaceholderRows
<1>3. \A row \in OrgRows : /\ outcome[Collectors][row[1]] = "returned" /\ row[1] \notin FansOut
                           /\ row = <<row[1], 0, "own">>
  BY DEF OrgRows
<1>4. \A row \in CollectedRows :
        \/ row \in PlaceholderRows
        \/ row \in OrgRows
        \/ \E d \in FansOut : outcome[Collectors][d] = "returned" /\ row \in RepoRows(d)
  BY DEF CollectedRows
<1>5. CASE outcome[Collectors][c] # "returned"
  <2>1. <<c, 0, "placeholder">> \in CollectedRows
    BY <1>5 DEF CollectedRows, PlaceholderRows
  <2>2. ASSUME NEW row \in CollectedRows, row[1] = c PROVE row = <<c, 0, "placeholder">>
    BY <1>1, <1>2, <1>3, <1>4, <1>5, <2>2
  <2>3. QED
    BY <1>5, <2>1, <2>2 DEF RowsOf
<1>6. CASE outcome[Collectors][c] = "returned" /\ c \notin FansOut
  <2>1. <<c, 0, "own">> \in CollectedRows
    BY <1>6 DEF CollectedRows, OrgRows
  <2>2. ASSUME NEW row \in CollectedRows, row[1] = c PROVE row = <<c, 0, "own">>
    BY <1>1, <1>2, <1>3, <1>4, <1>6, <2>2
  <2>3. QED
    BY <1>6, <2>1, <2>2 DEF RowsOf
<1>7. CASE outcome[Collectors][c] = "returned" /\ c \in FansOut
  <2>1. RepoRows(c) \subseteq CollectedRows
    BY <1>7 DEF CollectedRows
  <2>2. ASSUME NEW row \in CollectedRows, row[1] = c PROVE row \in RepoRows(c)
    BY <1>1, <1>2, <1>3, <1>4, <1>7, <2>2
  <2>3. QED
    BY <1>1, <1>7, <2>1, <2>2 DEF RowsOf
<1>8. QED
  BY <1>5, <1>6, <1>7

(***************************************************************************)
(* A collector that fanned out has one row for each of its repositories.   *)
(***************************************************************************)
LEMMA OneRowPerRepository ==
  ASSUME NEW c \in FansOut
  PROVE  /\ {row[2] : row \in RepoRows(c)} = Item(RepoPool[c])
         /\ Cardinality(RepoRows(c)) = Size[RepoPool[c]]
<1> DEFINE R == Item(RepoPool[c])
           kind(r) == IF outcome[RepoPool[c]][r] = Skipped THEN "cancelled" ELSE "own"
           f == [r \in R |-> <<c, r, kind(r)>>]
<1>1. RepoRows(c) = {<<c, r, kind(r)>> : r \in R}
  BY DEF RepoRows
<1> HIDE DEF R, kind
<1>2. {row[2] : row \in RepoRows(c)} = R
  <2>1. ASSUME NEW row \in RepoRows(c) PROVE row[2] \in R
    BY <1>1
  <2>2. ASSUME NEW r \in R PROVE \E row \in RepoRows(c) : row[2] = r
    <3>1. <<c, r, kind(r)>> \in RepoRows(c)
      BY <1>1
    <3>2. QED
      BY <3>1
  <2>3. QED
    BY <2>1, <2>2
<1>3. f \in Bijection(R, RepoRows(c))
  <2>1. f \in [R -> RepoRows(c)]
    BY <1>1
  <2>2. ASSUME NEW r \in R, NEW q \in R, f[r] = f[q] PROVE r = q
    <3>1. <<c, r, kind(r)>> = <<c, q, kind(q)>>
      BY <2>2
    <3>2. QED
      BY <3>1
  <2>3. \A row \in RepoRows(c) : \E r \in R : f[r] = row
    BY <1>1
  <2> HIDE DEF f
  <2>4. QED
    BY <2>1, <2>2, <2>3 DEF Bijection, Injection, Surjection, IsInjective
<1>4. IsFiniteSet(R) /\ Cardinality(R) = Size[RepoPool[c]]
  <2>1. RepoPool[c] \in Pool /\ Size[RepoPool[c]] \in Nat
    BY ScanAssumption, PoolAssumption
  <2>2. /\ IsFiniteSet(1..Size[RepoPool[c]])
        /\ Cardinality(1..Size[RepoPool[c]]) = IF 1 > Size[RepoPool[c]] THEN 0 ELSE Size[RepoPool[c]] - 1 + 1
    BY <2>1, FS_Interval
  <2>3. QED
    BY <2>1, <2>2 DEF Item, R
<1>5. ExistsBijection(R, RepoRows(c))
  BY <1>3 DEF ExistsBijection
<1>6. Cardinality(RepoRows(c)) = Cardinality(R)
  BY <1>4, <1>5, FS_Bijection
<1>7. QED
  BY <1>2, <1>4, <1>6 DEF R

(***************************************************************************)
(* Nothing is dropped silently: whatever failed, a pack has the placeholder*)
(* of each collector or all of its own rows, and not both (runScan's loop  *)
(* over the outcomes).                                                     *)
(***************************************************************************)
THEOREM EveryCollectorHasItsRows == ScanSpec => []EveryCollectorAccounted
<1>1. ASSUME RowsCollected PROVE EveryCollectorAccounted
  <2> SUFFICES ASSUME phase = "packed", NEW c \in Item(Collectors)
               PROVE  LET mine == {row \in rows : row[1] = c}
                      IN  \/ mine = {<<c, 0, "placeholder">>}
                          \/ /\ c \notin FansOut
                             /\ mine = {<<c, 0, "own">>}
                          \/ /\ c \in FansOut
                             /\ {row[2] : row \in mine} = Item(RepoPool[c])
                             /\ Cardinality(mine) = Size[RepoPool[c]]
    BY DEF EveryCollectorAccounted
  <2>1. {row \in rows : row[1] = c} = RowsOf(c)
    BY <1>1 DEF RowsCollected, RowsOf
  <2>2. QED
    BY <2>1, RowsOfOne, OneRowPerRepository
<1>2. QED
  BY <1>1, RowsAreCollected, PTL

(***************************************************************************)
(* Every variable of a scan keeps its type; a row is of a collector of the *)
(* scan.                                                                   *)
(***************************************************************************)
ScanTyped ==
  /\ phase \in Phase
  /\ soiled \subseteq UNION {{p} \X Item(p) : p \in Pool}

LEMMA ScanTypedStep ==
  ASSUME ScanTyped, [ScanNext]_scanVars
  PROVE  ScanTyped'
<1>1. phase' \in Phase
  BY DEF ScanTyped, Phase, ScanNext, scanVars, MainStep, Preflight, CheckCancelled, Assemble, CancelScan,
         OpenRepos, LaunchStep, FinishCall, UnwindCall
<1>2. \/ soiled' = soiled
      \/ \E p \in Pool : \E i \in Item(p) : soiled' = soiled \cup {<<p, i>>}
  BY DEF ScanNext, scanVars, MainStep, Preflight, CheckCancelled, Assemble, CancelScan,
         OpenRepos, LaunchStep, FinishCall, UnwindCall, Soil
<1>3. soiled' \subseteq UNION {{p} \X Item(p) : p \in Pool}
  BY <1>2 DEF ScanTyped
<1>4. QED
  BY <1>1, <1>3 DEF ScanTyped, Item

LEMMA CollectedRowsTyped == CollectedRows \subseteq Item(Collectors) \X Nat \X RowKind
<1>1. PlaceholderRows \cup OrgRows \subseteq Item(Collectors) \X Nat \X RowKind
  BY DEF PlaceholderRows, OrgRows, RowKind
<1>2. ASSUME NEW c \in FansOut PROVE RepoRows(c) \subseteq Item(Collectors) \X Nat \X RowKind
  <2>1. c \in Item(Collectors) /\ Item(RepoPool[c]) \subseteq Nat
    BY ScanAssumption, BatchFinite
  <2>2. QED
    BY <2>1 DEF RepoRows, RowKind
<1>3. QED
  BY <1>1, <1>2 DEF CollectedRows

THEOREM ScanTypeCorrect == ScanSpec => []ScanTypeOK
<1>1. ScanInit => ScanTyped
  BY DEF ScanInit, ScanTyped, Phase
<1>2. ScanSpec => []ScanTyped
  BY <1>1, ScanTypedStep, PTL DEF ScanSpec
<1>3. ASSUME IInv, RowsCollected, ScanTyped PROVE ScanTypeOK
  <2>1. TypeOK
    BY <1>3 DEF IInv
  <2>2. rows \subseteq Item(Collectors) \X Nat \X RowKind
    BY <1>3, CollectedRowsTyped DEF RowsCollected
  <2>3. QED
    BY <1>3, <2>1, <2>2 DEF ScanTyped, ScanTypeOK
<1>4. QED
  BY <1>2, <1>3, ScanInductiveInvariant, RowsAreCollected, PTL
-----------------------------------------------------------------------------
(* The command. *)

LEMMA CommandStepsAreScanSteps == [CommandNext]_commandVars => [ScanNext]_scanVars
<1> SUFFICES ASSUME [CommandNext]_commandVars PROVE [ScanNext]_scanVars
  OBVIOUS
<1>1. CASE UNCHANGED commandVars
  BY <1>1 DEF commandVars
<1>2. CASE CommandMain
  BY <1>2 DEF CommandMain, ResolveScope, BeginScan, RefuseScan, MainStep, ScanNext
<1>3. CASE Move /\ UNCHANGED scanVars
  BY <1>3
<1>4. CASE CommandNext /\ ~CommandMain /\ ~(Move /\ UNCHANGED scanVars)
  BY <1>4 DEF CommandNext, ScanNext
<1>5. QED
  BY <1>1, <1>2, <1>3, <1>4

(***************************************************************************)
(* Whatever the command is called with and however it finds its scope, it  *)
(* runs one scan (runScanCmd, runScan): what is proved of ScanSpec is true *)
(* of the command.                                                         *)
(***************************************************************************)
THEOREM CommandRunsOneScan == ScanInit /\ [][CommandNext]_commandVars => ScanSpec
<1>1. QED
  BY CommandStepsAreScanSteps, PTL DEF ScanSpec

(***************************************************************************)
(* What the command may be called with: the settings of a file, of which   *)
(* flags may give some again, and an environment.                          *)
(***************************************************************************)
Callable(g) ==
  /\ g = [readable |-> g.readable, file |-> g.file, flags |-> g.flags, env |-> g.env]
  /\ g.file = [f \in Field |-> g.file[f]]
  /\ g.env = [tokens |-> g.env.tokens, github_url |-> g.env.github_url]

Overridden(g, f) == f \in DOMAIN g.flags /\ (f = "gitlab_url" => g.flags[f] # "")

LEMMA FlagHidesFile ==
  ASSUME NEW g, Callable(g), NEW f, Overridden(g, f)
  PROVE  Accepted(WithoutFile(g, f)) = Accepted(g) /\ Configuration(WithoutFile(g, f)) = Configuration(g)
<1> DEFINE h == WithoutFile(g, f)
<1>1. /\ h.readable = g.readable /\ h.flags = g.flags /\ h.env = g.env
      /\ h.file = [g.file EXCEPT ![f] = Blank(f)]
  BY DEF WithoutFile, Callable
<1>2. \A e \in Field : e # f => h.file[e] = g.file[e]
  BY <1>1 DEF Callable
<1>3. Merged(h.file, h.flags) = Merged(g.file, g.flags)
  BY <1>1, <1>2 DEF Merged, Overridden
<1>4. Settings(h) = Settings(g)
  BY <1>3 DEF Settings
<1>5. QED
  BY <1>1, <1>4 DEF Accepted, Configuration

LEMMA OthersEnvironmentUnused ==
  ASSUME NEW g, Callable(g)
  PROVE  /\ Accepted(OwnEnvironment(g)) = Accepted(g)
         /\ Configuration(OwnEnvironment(g)) = Configuration(g)
<1> DEFINE h == OwnEnvironment(g)
           p == Settings(g)["platform"]
<1>1. /\ h.readable = g.readable /\ h.flags = g.flags /\ h.file = g.file
      /\ h.env = [tokens |-> g.env.tokens \cap {p},
                  github_url |-> IF p = "github" THEN g.env.github_url ELSE ""]
  BY DEF OwnEnvironment, Callable
<1> HIDE DEF h, p
<1>2. Settings(h) = Settings(g)
  BY <1>1 DEF Settings
<1>3. h.env.tokens = g.env.tokens \cap {p} /\ (p = "github" => h.env.github_url = g.env.github_url)
  <2> DEFINE e == [tokens |-> g.env.tokens \cap {p},
                   github_url |-> IF p = "github" THEN g.env.github_url ELSE ""]
  <2>1. h.env = e
    BY <1>1
  <2>2. e.tokens = g.env.tokens \cap {p} /\ (p = "github" => e.github_url = g.env.github_url)
    OBVIOUS
  <2> HIDE DEF e
  <2>3. QED
    BY <2>1, <2>2
<1>4. Host(Settings(h), h.env) = Host(Settings(g), g.env)
  <2>1. CASE p = "github"
    BY <1>2, <1>3, <2>1 DEF Host, p
  <2>2. CASE p # "github"
    BY <1>2, <2>2 DEF Host, p
  <2>3. QED
    BY <2>1, <2>2
<1>5. p \in h.env.tokens <=> p \in g.env.tokens
  BY <1>3
<1>6. QED
  BY <1>1, <1>2, <1>4, <1>5 DEF Accepted, Configuration, h, p

(***************************************************************************)
(* Where the command is tells what has become of its settings.             *)
(***************************************************************************)
SettingsKept ==
  /\ stage = "called" => Callable(given) /\ cfg = Done
  /\ stage = "configured" => Callable(given) /\ Accepted(given) /\ cfg = Configuration(given)
  /\ stage = "refused" /\ cfg = Done => Callable(given) /\ ~Accepted(given)
  /\ stage \in {"resolving", "listing", "naming", "listed", "resolved"} => cfg # Done

LEMMA NotDone ==
  /\ \A g : Configuration(g) # Done
  /\ \A c : Needed(c) # Done
<1>1. ASSUME NEW g PROVE Configuration(g) # Done
  <2>1. "org" \in DOMAIN Configuration(g) /\ "org" \notin DOMAIN Done
    BY DEF Configuration, Done
  <2>2. QED
    BY <2>1
<1>2. ASSUME NEW c PROVE Needed(c) # Done
  <2>1. "repos" \in DOMAIN Needed(c) /\ "repos" \notin DOMAIN Done
    BY DEF Needed, Done
  <2>2. QED
    BY <2>1
<1>3. QED
  BY <1>1, <1>2

LEMMA SettingsKeptStep ==
  ASSUME SettingsKept, [CommandNext]_commandVars
  PROVE  SettingsKept'
<1> USE DEF SettingsKept
<1>1. CASE UNCHANGED scopeVars
  BY <1>1 DEF scopeVars
<1>2. CASE Configure
  BY <1>2, NotDone DEF Configure
<1>3. CASE RefuseSettings
  BY <1>3 DEF RefuseSettings
<1>4. CASE CheckAccount \/ NoPreflight
  BY <1>4, NotDone DEF CheckAccount, NoPreflight
<1>5. CASE TakeGiven \/ NothingToList \/ StartListing \/ NameProjects \/ NameUnasked \/ Filter
  BY <1>5 DEF TakeGiven, NothingToList, StartListing, NameProjects, NameUnasked, Filter
<1>6. CASE GitHubPage \/ GitLabPage \/ GogsList
  BY <1>6 DEF GitHubPage, GitLabPage, GogsList
<1>7. CASE CallFails
  BY <1>7, NotDone DEF CallFails, Calling
<1>8. CASE HandOver
  BY <1>8 DEF HandOver
<1>9. CASE Move
  BY <1>9 DEF Move, Create, Delete, Moving
<1>10. QED
  BY <1>1, <1>2, <1>3, <1>4, <1>5, <1>6, <1>7, <1>8, <1>9
     DEF CommandNext, CommandMain, ResolveScope, LocalStep, Reply, BeginScan, RefuseScan, commandVars

(***************************************************************************)
(* Only what was chosen counts, whatever the file, the flags and the       *)
(* environment hold (mergeScanConfig, resolveGitHubURL).                   *)
(***************************************************************************)
THEOREM OnlyChosenSettingsDecide ==
  (\E g : Callable(g) /\ ScopeInit(g)) /\ [][CommandNext]_commandVars => []SettingsDecide
<1>1. (\E g : Callable(g) /\ ScopeInit(g)) => SettingsKept
  BY DEF ScopeInit, SettingsKept
<1>2. ASSUME SettingsKept PROVE SettingsDecide
  <2> SUFFICES ASSUME stage = "configured" \/ (stage = "refused" /\ cfg = Done)
               PROVE  /\ \A f \in DOMAIN given.flags :
                           (f = "gitlab_url" => given.flags[f] # "") => SameOutcome(WithoutFile(given, f))
                      /\ SameOutcome(OwnEnvironment(given))
    BY DEF SettingsDecide
  <2>1. /\ Callable(given)
        /\ stage = "refused" <=> ~Accepted(given)
        /\ stage = "configured" => cfg = Configuration(given)
    BY <1>2 DEF SettingsKept
  <2>2. ASSUME NEW f \in DOMAIN given.flags, f = "gitlab_url" => given.flags[f] # ""
        PROVE  SameOutcome(WithoutFile(given, f))
    BY <2>1, <2>2, FlagHidesFile DEF SameOutcome, Overridden
  <2>3. SameOutcome(OwnEnvironment(given))
    BY <2>1, OthersEnvironmentUnused DEF SameOutcome
  <2>4. QED
    BY <2>2, <2>3
<1>3. QED
  BY <1>1, <1>2, SettingsKeptStep, PTL
-----------------------------------------------------------------------------
(* The listing of an account. *)

LEMMA CountInterval ==
  ASSUME NEW m \in Nat, NEW k \in Nat
  PROVE  IsFiniteSet(m + 1..m + k) /\ Cardinality(m + 1..m + k) = k
<1> DEFINE lo == m + 1
           hi == m + k
<1>1. lo \in Int /\ hi \in Int /\ (lo > hi => k = 0) /\ hi - lo + 1 = k
  OBVIOUS
<1> HIDE DEF lo, hi
<1>2. IsFiniteSet(lo..hi) /\ Cardinality(lo..hi) = IF lo > hi THEN 0 ELSE hi - lo + 1
  BY <1>1, FS_Interval
<1>3. QED
  BY <1>1, <1>2 DEF lo, hi

LEMMA AddOne ==
  ASSUME NEW S, NEW x, IsFiniteSet(S)
  PROVE  /\ IsFiniteSet(S \cup {x}) /\ Cardinality(S \cup {x}) \in Nat
         /\ Cardinality(S \cup {x}) <= Cardinality(S) + 1
<1>1. Cardinality(S) \in Nat
  BY FS_CardinalityType
<1>2. /\ IsFiniteSet(S \cup {x})
      /\ Cardinality(S \cup {x}) = IF x \in S THEN Cardinality(S) ELSE Cardinality(S) + 1
  BY FS_AddElement
<1>3. QED
  BY <1>1, <1>2

\* The names at some places of a listing.
NamesAt(s, I) == {s[i].name : i \in I}

OwnNames(s) == \A i, j \in DOMAIN s : s[i].name = s[j].name => i = j

LEMMA CountNames ==
  ASSUME NEW s \in Seq(Listed), NEW I \in SUBSET DOMAIN s
  PROVE  /\ IsFiniteSet(DOMAIN s) /\ Cardinality(DOMAIN s) = Len(s)
         /\ IsFiniteSet(I) /\ Cardinality(I) \in Nat
         /\ IsFiniteSet(NamesAt(s, I)) /\ Cardinality(NamesAt(s, I)) \in Nat
         /\ Cardinality(NamesAt(s, I)) <= Cardinality(I)
         /\ OwnNames(s) => Cardinality(NamesAt(s, I)) = Cardinality(I)
<1> DEFINE f == [i \in I |-> s[i].name]
           T == NamesAt(s, I)
<1>1. IsFiniteSet(DOMAIN s) /\ Cardinality(DOMAIN s) = Len(s)
  <2>1. DOMAIN s = 1..Len(s) /\ Len(s) \in Nat
    BY LenProperties
  <2>2. 1 \in Int /\ Len(s) \in Int /\ (1 > Len(s) => Len(s) = 0)
    BY <2>1
  <2>3. IsFiniteSet(1..Len(s)) /\ Cardinality(1..Len(s)) = IF 1 > Len(s) THEN 0 ELSE Len(s) - 1 + 1
    BY <2>2, FS_Interval
  <2>4. QED
    BY <2>1, <2>2, <2>3
<1>2. IsFiniteSet(I) /\ Cardinality(I) \in Nat
  BY <1>1, FS_Subset, FS_CardinalityType
<1>3. f \in Surjection(I, T)
  BY DEF Surjection, NamesAt
<1>4. IsFiniteSet(T) /\ Cardinality(T) <= Cardinality(I)
      /\ (Cardinality(T) = Cardinality(I) <=> f \in Injection(I, T))
  BY <1>2, <1>3, FS_Surjection
<1>5. OwnNames(s) => f \in Injection(I, T)
  BY DEF OwnNames, Injection, IsInjective, NamesAt
<1>6. QED
  BY <1>1, <1>2, <1>4, <1>5, FS_CardinalityType

(***************************************************************************)
(* What is put in leaves those before its place where they are and moves   *)
(* the others on; what is taken out moves them back.                       *)
(***************************************************************************)
Inserted(s, i, e) == SubSeq(s, 1, i) \o <<e>> \o SubSeq(s, i + 1, Len(s))
Removed(s, i) == SubSeq(s, 1, i - 1) \o SubSeq(s, i + 1, Len(s))

LEMMA Parts ==
  ASSUME NEW s \in Seq(Listed), NEW m \in Nat \ {0}, NEW n \in 0..Len(s)
  PROVE  /\ SubSeq(s, m, n) \in Seq(Listed)
         /\ Len(SubSeq(s, m, n)) = IF m <= n THEN n - m + 1 ELSE 0
         /\ \A k \in 1..n - m + 1 : SubSeq(s, m, n)[k] = s[m + k - 1]
<1>1. \A k \in m..n : s[k] \in Listed
  BY ElementOfSeq, LenProperties
<1>2. m \in Int /\ n \in Int
  BY LenProperties
<1>3. QED
  BY <1>1, <1>2, SubSeqProperties

LEMMA InsertedIs ==
  ASSUME NEW s \in Seq(Listed), NEW i \in 0..Len(s), NEW e \in Listed
  PROVE  /\ Inserted(s, i, e) \in Seq(Listed)
         /\ Len(Inserted(s, i, e)) = Len(s) + 1
         /\ \A k \in 1..Len(s) + 1 :
              Inserted(s, i, e)[k] = IF k <= i THEN s[k] ELSE IF k = i + 1 THEN e ELSE s[k - 1]
<1> DEFINE p == SubSeq(s, 1, i)
           q == SubSeq(s, i + 1, Len(s))
           r == p \o <<e>>
<1>0. Len(s) \in Nat
  BY LenProperties
<1>1. p \in Seq(Listed) /\ Len(p) = i /\ \A k \in 1..i : p[k] = s[k]
  <2>1. /\ p \in Seq(Listed) /\ Len(p) = (IF 1 <= i THEN i - 1 + 1 ELSE 0)
        /\ \A k \in 1..i - 1 + 1 : p[k] = s[1 + k - 1]
    BY Parts
  <2> HIDE DEF p
  <2>2. QED
    BY <1>0, <2>1
<1>2. q \in Seq(Listed) /\ Len(q) = Len(s) - i /\ \A k \in 1..Len(s) - i : q[k] = s[i + k]
  <2>1. i + 1 \in Nat \ {0} /\ Len(s) \in 0..Len(s)
    BY <1>0
  <2>2. /\ q \in Seq(Listed) /\ Len(q) = (IF i + 1 <= Len(s) THEN Len(s) - (i + 1) + 1 ELSE 0)
        /\ \A k \in 1..Len(s) - (i + 1) + 1 : q[k] = s[i + 1 + k - 1]
    BY <2>1, Parts
  <2> HIDE DEF q
  <2>3. QED
    BY <1>0, <2>2
<1>3. <<e>> \in Seq(Listed) /\ Len(<<e>>) = 1 /\ <<e>>[1] = e
  OBVIOUS
<1> HIDE DEF p, q
<1>4. /\ r \in Seq(Listed) /\ Len(r) = i + 1
      /\ \A k \in 1..i + 1 : r[k] = IF k <= i THEN s[k] ELSE e
  <2>1. /\ r \in Seq(Listed) /\ Len(r) = Len(p) + Len(<<e>>)
        /\ \A k \in 1..Len(p) + Len(<<e>>) : r[k] = IF k <= Len(p) THEN p[k] ELSE <<e>>[k - Len(p)]
    BY <1>1, <1>3, ConcatProperties
  <2>2. QED
    BY <1>0, <1>1, <1>3, <2>1
<1> HIDE DEF r
<1> DEFINE t == r \o q
<1>5. /\ t \in Seq(Listed) /\ Len(t) = Len(r) + Len(q)
      /\ \A k \in 1..Len(r) + Len(q) : t[k] = IF k <= Len(r) THEN r[k] ELSE q[k - Len(r)]
  BY <1>2, <1>4, ConcatProperties
<1>6. Inserted(s, i, e) = t
  BY DEF Inserted, r, p, q
<1> HIDE DEF t
<1>7. ASSUME NEW k \in 1..Len(s) + 1
      PROVE  t[k] = IF k <= i THEN s[k] ELSE IF k = i + 1 THEN e ELSE s[k - 1]
  <2>1. k \in 1..Len(r) + Len(q)
    BY <1>0, <1>2, <1>4
  <2>2. CASE k <= i + 1
    BY <1>0, <1>4, <1>5, <2>1, <2>2
  <2>3. CASE k > i + 1
    <3>1. k - (i + 1) \in 1..Len(s) - i
      BY <1>0, <2>3
    <3>2. t[k] = q[k - (i + 1)]
      BY <1>0, <1>4, <1>5, <2>1, <2>3
    <3>3. q[k - (i + 1)] = s[i + (k - (i + 1))]
      BY <1>2, <3>1
    <3>4. i + (k - (i + 1)) = k - 1
      BY <1>0
    <3>5. QED
      BY <1>0, <2>3, <3>2, <3>3, <3>4
  <2>4. k <= i + 1 \/ k > i + 1
    BY <1>0
  <2>5. QED
    BY <2>2, <2>3, <2>4
<1>8. QED
  BY <1>0, <1>2, <1>4, <1>5, <1>6, <1>7

LEMMA RemovedIs ==
  ASSUME NEW s \in Seq(Listed), NEW i \in DOMAIN s
  PROVE  /\ Removed(s, i) \in Seq(Listed)
         /\ Len(Removed(s, i)) = Len(s) - 1
         /\ \A k \in 1..Len(s) - 1 : Removed(s, i)[k] = IF k < i THEN s[k] ELSE s[k + 1]
<1> DEFINE p == SubSeq(s, 1, i - 1)
           q == SubSeq(s, i + 1, Len(s))
<1>0. Len(s) \in Nat /\ i \in 1..Len(s)
  BY LenProperties
<1>1. p \in Seq(Listed) /\ Len(p) = i - 1 /\ \A k \in 1..i - 1 : p[k] = s[k]
  <2>1. /\ p \in Seq(Listed) /\ Len(p) = (IF 1 <= i - 1 THEN i - 1 - 1 + 1 ELSE 0)
        /\ \A k \in 1..i - 1 - 1 + 1 : p[k] = s[1 + k - 1]
    <3>1. i - 1 \in 0..Len(s)
      BY <1>0
    <3>2. QED
      BY <3>1, Parts
  <2> HIDE DEF p
  <2>2. QED
    BY <1>0, <2>1
<1>2. q \in Seq(Listed) /\ Len(q) = Len(s) - i /\ \A k \in 1..Len(s) - i : q[k] = s[i + k]
  <2>1. i + 1 \in Nat \ {0} /\ Len(s) \in 0..Len(s)
    BY <1>0
  <2>2. /\ q \in Seq(Listed) /\ Len(q) = (IF i + 1 <= Len(s) THEN Len(s) - (i + 1) + 1 ELSE 0)
        /\ \A k \in 1..Len(s) - (i + 1) + 1 : q[k] = s[i + 1 + k - 1]
    BY <2>1, Parts
  <2> HIDE DEF q
  <2>3. QED
    BY <1>0, <2>2
<1> HIDE DEF p, q
<1> DEFINE t == p \o q
<1>3. /\ t \in Seq(Listed) /\ Len(t) = Len(p) + Len(q)
      /\ \A k \in 1..Len(p) + Len(q) : t[k] = IF k <= Len(p) THEN p[k] ELSE q[k - Len(p)]
  BY <1>1, <1>2, ConcatProperties
<1>4. Removed(s, i) = t
  BY DEF Removed, p, q
<1> HIDE DEF t
<1>5. ASSUME NEW k \in 1..Len(s) - 1
      PROVE  t[k] = IF k < i THEN s[k] ELSE s[k + 1]
  <2>1. k \in 1..Len(p) + Len(q)
    BY <1>0, <1>1, <1>2
  <2>2. CASE k < i
    BY <1>0, <1>1, <1>3, <2>1, <2>2
  <2>3. CASE k >= i
    <3>1. k - (i - 1) \in 1..Len(s) - i
      BY <1>0, <2>3
    <3>2. t[k] = q[k - (i - 1)]
      BY <1>0, <1>1, <1>3, <2>1, <2>3
    <3>3. q[k - (i - 1)] = s[i + (k - (i - 1))]
      BY <1>2, <3>1
    <3>4. i + (k - (i - 1)) = k + 1
      BY <1>0
    <3>5. QED
      BY <1>0, <2>3, <3>2, <3>3, <3>4
  <2>4. k < i \/ k >= i
    BY <1>0
  <2>5. QED
    BY <2>2, <2>3, <2>4
<1>6. QED
  BY <1>0, <1>1, <1>2, <1>3, <1>4, <1>5


(***************************************************************************)
(* A page ends at the same place of the listing however the account moves: *)
(* what stands before it has been passed, the rest is to come.  A          *)
(* repository passed without being listed was moved over by a deletion;    *)
(* one to come that is listed already was moved on by a creation.          *)
(***************************************************************************)
Behind(n) == (n - 1) * PageSize
Passed(a, n) == NamesAt(a, {i \in DOMAIN a : i <= Behind(n)})
Coming(a, n) == NamesAt(a, {i \in DOMAIN a : i > Behind(n)})

Tally(a, g, there, n, added, gone) ==
  /\ Cardinality((there \cap Passed(a, n)) \ Names(g)) <= gone
  /\ Len(g) + Cardinality(Coming(a, n) \cap Names(g)) <= Cardinality(Names(g)) + added

LEMMA BehindPage ==
  ASSUME NEW n \in Nat \ {0}
  PROVE  /\ Behind(n) \in Nat /\ Behind(n + 1) = Behind(n) + PageSize
         /\ n * PageSize = Behind(n + 1) /\ n <= Behind(n + 1)
<1>1. PageSize \in Nat /\ PageSize >= 1 /\ n \in Nat /\ n >= 1
  BY ListingAssumption
<1>2. Behind(n + 1) = n * PageSize
  <2>1. (n + 1) - 1 = n
    BY <1>1
  <2>2. QED
    BY <2>1 DEF Behind
<1>3. n * PageSize = (n - 1) * PageSize + PageSize
  BY <1>1
<1>4. (n - 1) * PageSize \in Nat
  BY <1>1
<1>5. n * PageSize >= n
  BY <1>1
<1>6. QED
  BY <1>1, <1>2, <1>3, <1>4, <1>5 DEF Behind

(***************************************************************************)
(* A page holds what stands between its place and the next one's.          *)
(***************************************************************************)
LEMMA PageIs ==
  ASSUME account \in Seq(Listed), NEW n \in Nat \ {0}
  PROVE  LET L == Len(PageOf(n)) IN
         /\ PageOf(n) \in Seq(Listed) /\ L \in Nat
         /\ \A k \in 1..L : PageOf(n)[k] = account[Behind(n) + k]
         /\ {j \in DOMAIN account : Behind(n) < j /\ j <= Behind(n + 1)}
              = Behind(n) + 1..Behind(n) + L
<1> DEFINE b == Behind(n)
           u == Upto(n)
           q == SubSeq(account, b + 1, u)
<1>1. /\ b \in Nat /\ Behind(n + 1) = b + PageSize /\ n * PageSize = b + PageSize
      /\ PageSize \in Nat
  BY BehindPage, ListingAssumption
<1>2. Len(account) \in Nat /\ DOMAIN account = 1..Len(account)
  BY LenProperties
<1>3. u \in 0..Len(account) /\ u = IF b + PageSize < Len(account) THEN b + PageSize ELSE Len(account)
  BY <1>1, <1>2 DEF Upto
<1>4. PageOf(n) = q
  BY <1>1 DEF PageOf, From, Behind
<1> HIDE DEF b, u
<1>5. /\ q \in Seq(Listed)
      /\ Len(q) = IF b + 1 <= u THEN u - (b + 1) + 1 ELSE 0
      /\ \A k \in 1..u - (b + 1) + 1 : q[k] = account[b + 1 + k - 1]
  <2>1. b + 1 \in Nat \ {0}
    BY <1>1
  <2>2. QED
    BY <1>3, <2>1, Parts
<1> DEFINE z == Len(account)
           L == Len(q)
<1> HIDE DEF q, z, L
<1>6. z \in Nat /\ u \in 0..z /\ u = IF b + PageSize < z THEN b + PageSize ELSE z
  BY <1>2, <1>3 DEF z
<1>7. L = IF b + 1 <= u THEN u - (b + 1) + 1 ELSE 0
  BY <1>5 DEF L
<1>8. L \in Nat /\ L = IF b + 1 <= u THEN u - b ELSE 0
  BY <1>1, <1>6, <1>7
<1>9. ASSUME NEW k \in 1..L PROVE q[k] = account[b + k]
  <2>1. k \in 1..u - (b + 1) + 1 /\ b + 1 + k - 1 = b + k
    BY <1>1, <1>6, <1>8
  <2>2. QED
    BY <1>5, <2>1
<1>10. ASSUME NEW k PROVE (k \in 1..z /\ b < k /\ k <= b + PageSize) <=> k \in b + 1..b + L
  <2>1. (k \in 1..z /\ b < k /\ k <= b + PageSize) <=> k \in b + 1..u
    BY <1>1, <1>6
  <2>2. k \in b + 1..u <=> k \in b + 1..b + L
    BY <1>1, <1>6, <1>8
  <2>3. QED
    BY <2>1, <2>2
<1>11. {k \in DOMAIN account : b < k /\ k <= b + PageSize} = b + 1..b + L
  BY <1>2, <1>10 DEF z
<1>12. Behind(n + 1) = b + PageSize
  BY <1>1
<1>13. QED
  BY <1>4, <1>5, <1>8, <1>9, <1>11, <1>12 DEF b, L

(***************************************************************************)
(* Reading a page keeps the tally, for the place the next one has.         *)
(***************************************************************************)
LEMMA PageKeepsTally ==
  ASSUME account \in Seq(Listed), OwnNames(account), got \in Seq(Listed), NEW n \in Nat \ {0},
         stood \subseteq Plain(account), left \in Nat, came \in Nat,
         Tally(account, got, stood, n, came, left)
  PROVE  LET h == got \o PageOf(n) IN
         /\ h \in Seq(Listed)
         /\ Tally(account, h, stood, n + 1, came, left)
         /\ \A k \in DOMAIN h : h[k] \in Range(got) \cup Range(account)
         /\ ~More(n) => /\ Cardinality(stood \ Names(h)) <= left
                        /\ Len(h) <= Cardinality(Names(h)) + came
<1> DEFINE q == PageOf(n)
           h == got \o q
           b == Behind(n)
           e == Behind(n + 1)
           P == {j \in DOMAIN account : b < j /\ j <= e}
           N == NamesAt(account, P)
           G == Names(got)
           C == Coming(account, n)
           D == Coming(account, n + 1)
<1>1. /\ q \in Seq(Listed) /\ Len(q) \in Nat
      /\ \A k \in 1..Len(q) : q[k] = account[b + k]
      /\ P = b + 1..b + Len(q)
  BY PageIs
<1>2. /\ Len(account) \in Nat /\ DOMAIN account = 1..Len(account)
      /\ Len(got) \in Nat /\ DOMAIN got = 1..Len(got)
      /\ DOMAIN q = 1..Len(q)
  BY <1>1, LenProperties
<1>3. /\ b \in Nat /\ e = b + PageSize /\ PageSize \in Nat /\ n * PageSize = e
  BY BehindPage, ListingAssumption
<1> HIDE DEF q, b, e
<1>4. /\ h \in Seq(Listed) /\ Len(h) = Len(got) + Len(q)
      /\ \A k \in 1..Len(got) + Len(q) : h[k] = IF k <= Len(got) THEN got[k] ELSE q[k - Len(got)]
  BY <1>1, ConcatProperties
<1>5. DOMAIN h = 1..Len(got) + Len(q)
  BY <1>4, LenProperties
<1> HIDE DEF h
<1>6. \A k \in DOMAIN h : \/ k \in DOMAIN got /\ h[k] = got[k]
                          \/ k - Len(got) + b \in P /\ h[k] = account[k - Len(got) + b]
  <2> SUFFICES ASSUME NEW k \in DOMAIN h, ~(k \in DOMAIN got /\ h[k] = got[k])
               PROVE  k - Len(got) + b \in P /\ h[k] = account[k - Len(got) + b]
    OBVIOUS
  <2>1. k \in 1..Len(got) + Len(q) /\ k > Len(got)
    BY <1>2, <1>4, <1>5
  <2>2. k - Len(got) \in 1..Len(q) /\ h[k] = q[k - Len(got)]
    BY <1>1, <1>2, <1>4, <2>1
  <2>3. q[k - Len(got)] = account[b + (k - Len(got))] /\ b + (k - Len(got)) \in P
    <3> DEFINE m == k - Len(got)
    <3>1. m \in 1..Len(q)
      BY <2>2
    <3> HIDE DEF m
    <3>2. q[m] = account[b + m] /\ b + m \in b + 1..b + Len(q)
      BY <1>1, <1>3, <3>1
    <3>3. QED
      BY <1>1, <3>2 DEF m
  <2>4. b + (k - Len(got)) = k - Len(got) + b
    BY <1>2, <1>3, <2>1
  <2>5. QED
    BY <2>2, <2>3, <2>4
<1>7. \A j \in DOMAIN got : j \in DOMAIN h /\ h[j] = got[j]
  BY <1>1, <1>2, <1>4, <1>5
<1>8. \A j \in P : j - b + Len(got) \in DOMAIN h /\ h[j - b + Len(got)] = account[j]
  <2> SUFFICES ASSUME NEW j \in P
               PROVE  j - b + Len(got) \in DOMAIN h /\ h[j - b + Len(got)] = account[j]
    OBVIOUS
  <2> DEFINE k == j - b + Len(got)
  <2>1. j \in b + 1..b + Len(q)
    BY <1>1
  <2>2. k \in 1..Len(got) + Len(q) /\ ~(k <= Len(got)) /\ k - Len(got) = j - b /\ j - b \in 1..Len(q)
        /\ b + (j - b) = j
    BY <1>1, <1>2, <1>3, <2>1
  <2> HIDE DEF k
  <2>3. h[k] = q[j - b]
    BY <1>4, <2>2
  <2>4. q[j - b] = account[j]
    BY <1>1, <2>2
  <2>5. QED
    BY <1>5, <2>2, <2>3, <2>4 DEF k
<1>9. Names(h) = G \cup N
  <2>1. ASSUME NEW k \in DOMAIN h PROVE h[k].name \in G \cup N
    BY <1>6 DEF Names, NamesAt
  <2>2. ASSUME NEW j \in DOMAIN got PROVE got[j].name \in Names(h)
    BY <1>7 DEF Names
  <2>3. ASSUME NEW j \in P PROVE account[j].name \in Names(h)
    BY <1>8 DEF Names
  <2>4. QED
    BY <2>1, <2>2, <2>3 DEF Names, NamesAt
<1>10. /\ IsFiniteSet(G) /\ Cardinality(G) \in Nat
       /\ IsFiniteSet(N) /\ Cardinality(N) = Len(q)
       /\ IsFiniteSet(C) /\ IsFiniteSet(D) /\ IsFiniteSet(Names(account))
  <2>1. IsFiniteSet(G) /\ Cardinality(G) \in Nat
    BY CountNames DEF Names, NamesAt
  <2>2. P \in SUBSET DOMAIN account
    OBVIOUS
  <2>3. Cardinality(P) = Len(q)
    BY <1>1, <1>3, CountInterval
  <2>4. IsFiniteSet(N) /\ Cardinality(N) = Len(q)
    BY <2>2, <2>3, CountNames
  <2>5. IsFiniteSet(C) /\ IsFiniteSet(D)
    BY CountNames DEF Coming
  <2>6. IsFiniteSet(Names(account))
    BY CountNames DEF Names, NamesAt
  <2>7. QED
    BY <2>1, <2>4, <2>5, <2>6
<1>11. C = N \cup D /\ N \cap D = {}
  <2>1. \A i \in DOMAIN account : i > b <=> i \in P \/ i > e
    BY <1>2, <1>3
  <2>2. C = N \cup D
    BY <2>1 DEF Coming, NamesAt, b, e
  <2>3. \A i \in P : ~(i > e)
    BY <1>2, <1>3
  <2>4. N \cap D = {}
    BY <2>3 DEF Coming, NamesAt, OwnNames, e
  <2>5. QED
    BY <2>2, <2>4
<1> HIDE DEF N, P, G, C, D
<1>12. /\ IsFiniteSet(G \cap N) /\ Cardinality(G \cap N) \in Nat
       /\ IsFiniteSet(D \cap G) /\ Cardinality(D \cap G) \in Nat
       /\ Cardinality(G \cup N) = Cardinality(G) + Cardinality(N) - Cardinality(G \cap N)
       /\ Cardinality(C \cap G) = Cardinality(G \cap N) + Cardinality(D \cap G)
       /\ Cardinality(G \cup N) \in Nat
  <2>1. IsFiniteSet(G \cap N) /\ IsFiniteSet(D \cap G)
    BY <1>10, FS_Intersection
  <2>2. Cardinality(G \cap N) \in Nat /\ Cardinality(D \cap G) \in Nat
    BY <2>1, FS_CardinalityType
  <2>3. Cardinality(G \cup N) = Cardinality(G) + Cardinality(N) - Cardinality(G \cap N)
    BY <1>10, FS_Union
  <2>4. C \cap G = (G \cap N) \cup (D \cap G) /\ (G \cap N) \cap (D \cap G) = {}
    BY <1>11
  <2>5. Cardinality(C \cap G) = Cardinality(G \cap N) + Cardinality(D \cap G) - Cardinality({})
    BY <2>1, <2>4, FS_Union
  <2>6. Cardinality(G \cup N) \in Nat
    BY <1>10, FS_Union, FS_CardinalityType
  <2>7. QED
    BY <2>1, <2>2, <2>3, <2>5, <2>6, FS_EmptySet
<1>13. D \cap Names(h) = D \cap G
  BY <1>9, <1>11
<1> DEFINE lh == Len(h)
           ch == Cardinality(Names(h))
           dh == Cardinality(D \cap Names(h))
<1>14. lh + dh <= ch + came /\ lh \in Nat /\ ch \in Nat /\ dh \in Nat
  <2>1. Len(got) + Cardinality(C \cap G) <= Cardinality(G) + came
    BY DEF Tally, C, G
  <2> DEFINE lg == Len(got)
             lq == Len(q)
             cg == Cardinality(G)
             ca == Cardinality(G \cap N)
             cd == Cardinality(D \cap G)
             cc == Cardinality(C \cap G)
             cu == Cardinality(G \cup N)
  <2>2. lg \in Nat /\ lq \in Nat /\ cg \in Nat /\ ca \in Nat /\ cd \in Nat /\ cu \in Nat
    BY <1>1, <1>2, <1>10, <1>12
  <2>3. cu = cg + lq - ca /\ cc = ca + cd /\ lg + cc <= cg + came
    BY <1>10, <1>12, <2>1
  <2>4. lh = lg + lq
    BY <1>4
  <2>5. ch = cu /\ dh = cd
    BY <1>9, <1>13
  <2> HIDE DEF lg, lq, cg, ca, cd, cc, cu, lh, ch, dh
  <2>6. QED
    BY <2>2, <2>3, <2>4, <2>5
<1>15. IsFiniteSet(stood) /\ stood \subseteq Names(account)
  <2>1. stood \subseteq Names(account)
    BY DEF Plain, Names
  <2>2. QED
    BY <1>10, <2>1, FS_Subset
<1>16. /\ Cardinality((stood \cap Passed(account, n + 1)) \ Names(h)) <= left
       /\ IsFiniteSet(stood \ Names(h)) /\ Cardinality(stood \ Names(h)) \in Nat
  <2> DEFINE M == (stood \cap Passed(account, n)) \ G
             K == (stood \cap Passed(account, n + 1)) \ Names(h)
  <2>1. K \subseteq M
    <3>1. \A i \in DOMAIN account : i <= e => i <= b \/ i \in P
      BY <1>2, <1>3 DEF P
    <3>2. Passed(account, n + 1) \subseteq Passed(account, n) \cup N
      BY <3>1 DEF Passed, NamesAt, N, b, e
    <3>3. QED
      BY <1>9, <3>2
  <2>2. IsFiniteSet(M) /\ Cardinality(M) <= left /\ Cardinality(M) \in Nat
    <3>1. IsFiniteSet(M)
      BY <1>15, FS_Subset
    <3>2. QED
      BY <3>1, FS_CardinalityType DEF Tally, G
  <2>3. IsFiniteSet(K) /\ Cardinality(K) <= Cardinality(M) /\ Cardinality(K) \in Nat
    BY <2>1, <2>2, FS_Subset, FS_CardinalityType
  <2>4. IsFiniteSet(stood \ Names(h)) /\ Cardinality(stood \ Names(h)) \in Nat
    BY <1>15, FS_Difference, FS_CardinalityType
  <2>5. QED
    BY <2>2, <2>3, <2>4
<1>17. \A k \in DOMAIN h : h[k] \in Range(got) \cup Range(account)
  BY <1>6 DEF Range, P
<1>18. ASSUME ~More(n)
       PROVE  /\ Cardinality(stood \ Names(h)) <= left
              /\ Len(h) <= Cardinality(Names(h)) + came
  <2>1. \A i \in DOMAIN account : i <= e
    BY <1>2, <1>3, <1>18 DEF More
  <2>2. Passed(account, n + 1) = Names(account)
    BY <2>1 DEF Passed, Names, NamesAt, e
  <2>3. (stood \cap Passed(account, n + 1)) \ Names(h) = stood \ Names(h)
    BY <1>15, <2>2
  <2> HIDE DEF lh, ch, dh
  <2>4. lh <= ch + came
    BY <1>14
  <2>5. QED
    BY <1>16, <2>3, <2>4 DEF lh, ch
<1>19. QED
  BY <1>4, <1>14, <1>16, <1>17, <1>18 DEF Tally, D, h, q

(***************************************************************************)
(* What is created moves at most one listed repository on to the next      *)
(* page.                                                                   *)
(***************************************************************************)
LEMMA InsertKeepsTally ==
  ASSUME NEW a \in Seq(Listed), OwnNames(a), NEW g \in Seq(Listed), NEW there, there \subseteq Names(a),
         NEW n \in Nat \ {0}, NEW added \in Nat, NEW gone \in Nat, NEW i \in 0..Len(a),
         NEW e \in Listed, e.name \notin Names(a) \cup Names(g),
         Tally(a, g, there, n, added, gone)
  PROVE  LET t == Inserted(a, i, e) IN
         /\ OwnNames(t)
         /\ \A k \in DOMAIN t : t[k] = e \/ \E j \in DOMAIN a : t[k] = a[j]
         /\ \A j \in DOMAIN a : \E k \in DOMAIN t : t[k] = a[j]
         /\ Tally(t, g, there, n, added + 1, gone)
<1> DEFINE t == Inserted(a, i, e)
           b == Behind(n)
           old(k) == IF k <= i THEN k ELSE k - 1
<1>0. Len(a) \in Nat /\ DOMAIN a = 1..Len(a) /\ b \in Nat
  BY LenProperties, BehindPage
<1>1. /\ t \in Seq(Listed) /\ Len(t) = Len(a) + 1
      /\ \A k \in 1..Len(a) + 1 : t[k] = IF k <= i THEN a[k] ELSE IF k = i + 1 THEN e ELSE a[k - 1]
  BY InsertedIs
<1>2. DOMAIN t = 1..Len(a) + 1
  BY <1>1, LenProperties
<1> HIDE DEF t, b
<1>3. ASSUME NEW k \in DOMAIN t
      PROVE  \/ k = i + 1 /\ t[k] = e
             \/ /\ k # i + 1 /\ old(k) \in DOMAIN a /\ t[k] = a[old(k)]
                /\ old(k) <= k /\ k <= old(k) + 1
  <2>1. k \in 1..Len(a) + 1 /\ i \in 0..Len(a)
    BY <1>2
  <2>2. CASE k <= i
    BY <1>0, <1>1, <2>1, <2>2
  <2>3. CASE k > i + 1
    <3>1. ~(k <= i) /\ k # i + 1 /\ k - 1 \in 1..Len(a) /\ k - 1 <= k /\ k <= (k - 1) + 1
      BY <1>0, <2>1, <2>3
    <3>2. t[k] = a[k - 1]
      BY <1>1, <2>1, <3>1
    <3>3. QED
      BY <1>0, <3>1, <3>2
  <2>4. CASE k = i + 1
    <3>1. ~(k <= i)
      BY <1>0, <2>1, <2>4
    <3>2. QED
      BY <1>1, <2>1, <2>4, <3>1
  <2>5. k <= i \/ k > i + 1 \/ k = i + 1
    BY <1>0, <2>1
  <2>6. QED
    BY <2>2, <2>3, <2>4, <2>5
<1>4. OwnNames(t)
  <2> SUFFICES ASSUME NEW k \in DOMAIN t, NEW m \in DOMAIN t, t[k].name = t[m].name PROVE k = m
    BY DEF OwnNames
  <2>1. ASSUME NEW j \in DOMAIN a PROVE a[j].name # e.name
    BY DEF Names
  <2>2. CASE k = i + 1 \/ m = i + 1
    BY <1>3, <2>1, <2>2
  <2>3. CASE k # i + 1 /\ m # i + 1
    <3>1. old(k) = old(m)
      BY <1>3, <2>3 DEF OwnNames
    <3>2. k \in Nat /\ m \in Nat /\ i \in Nat
      BY <1>0, <1>2
    <3>3. QED
      BY <2>3, <3>1, <3>2
  <2>4. QED
    BY <2>2, <2>3
<1>5. \A j \in DOMAIN a : \E k \in DOMAIN t : t[k] = a[j]
  <2> SUFFICES ASSUME NEW j \in DOMAIN a PROVE \E k \in DOMAIN t : t[k] = a[j]
    OBVIOUS
  <2>1. CASE j <= i
    <3>1. j \in 1..Len(a) + 1
      BY <1>0
    <3>2. QED
      BY <1>1, <1>2, <2>1, <3>1
  <2>2. CASE j > i
    <3> DEFINE k == j + 1
    <3>1. k \in 1..Len(a) + 1 /\ ~(k <= i) /\ k # i + 1 /\ k - 1 = j
      BY <1>0, <2>2
    <3> HIDE DEF k
    <3>2. t[k] = a[j]
      BY <1>1, <3>1
    <3>3. QED
      BY <1>2, <3>1, <3>2
  <2>3. j <= i \/ j > i
    BY <1>0
  <2>4. QED
    BY <2>1, <2>2, <2>3
<1>6. IsFiniteSet(there) /\ IsFiniteSet(Names(g)) /\ IsFiniteSet(Coming(a, n))
  <2>1. IsFiniteSet(Names(a)) /\ IsFiniteSet(Names(g))
    BY CountNames DEF Names, NamesAt
  <2>2. IsFiniteSet(Coming(a, n))
    BY CountNames DEF Coming
  <2>3. QED
    BY <2>1, <2>2, FS_Subset
<1>7. Cardinality((there \cap Passed(t, n)) \ Names(g)) <= gone
  <2> DEFINE M == (there \cap Passed(a, n)) \ Names(g)
             K == (there \cap Passed(t, n)) \ Names(g)
  <2>1. ASSUME NEW k \in DOMAIN t, k <= b, t[k].name \in there PROVE t[k].name \in Passed(a, n)
    <3>1. t[k] # e
      BY <2>1
    <3>2. k \in Nat /\ old(k) \in DOMAIN a /\ t[k] = a[old(k)] /\ old(k) <= k
      BY <1>2, <1>3, <3>1
    <3>3. old(k) \in Nat /\ old(k) <= b
      BY <1>0, <2>1, <3>2
    <3>4. QED
      BY <3>2, <3>3 DEF Passed, NamesAt, b
  <2>2. K \subseteq M
    BY <2>1 DEF Passed, NamesAt, b
  <2>3. IsFiniteSet(M) /\ Cardinality(M) <= gone
    <3>1. IsFiniteSet(M)
      BY <1>6, FS_Subset
    <3>2. QED
      BY <3>1 DEF Tally
  <2>4. Cardinality(M) \in Nat /\ Cardinality(K) \in Nat /\ Cardinality(K) <= Cardinality(M)
    BY <2>2, <2>3, FS_Subset, FS_CardinalityType
  <2>5. QED
    BY <2>3, <2>4
<1>8. Len(g) + Cardinality(Coming(t, n) \cap Names(g)) <= Cardinality(Names(g)) + (added + 1)
  <2> DEFINE C == Coming(a, n) \cap Names(g)
             D == Coming(t, n) \cap Names(g)
             x == a[b].name
  <2>1. ASSUME NEW k \in DOMAIN t, k > b, t[k].name \in Names(g)
        PROVE  t[k].name \in C \cup {x}
    <3>1. t[k] # e
      BY <2>1
    <3>2. k \in Nat /\ old(k) \in DOMAIN a /\ t[k] = a[old(k)] /\ k <= old(k) + 1
      BY <1>2, <1>3, <3>1
    <3>3. old(k) = b \/ old(k) > b
      BY <1>0, <2>1, <3>2
    <3>4. QED
      BY <2>1, <3>2, <3>3 DEF Coming, NamesAt, b
  <2>2. D \subseteq C \cup {x}
    BY <2>1 DEF Coming, NamesAt, b
  <2>3. IsFiniteSet(C)
    BY <1>6, FS_Intersection
  <2>4. IsFiniteSet(C \cup {x}) /\ Cardinality(C \cup {x}) <= Cardinality(C) + 1
    BY <2>3, AddOne
  <2>5. Cardinality(D) <= Cardinality(C \cup {x}) /\ IsFiniteSet(D)
    BY <2>2, <2>4, FS_Subset
  <2>6. /\ Cardinality(D) \in Nat /\ Cardinality(C) \in Nat /\ Cardinality(C \cup {x}) \in Nat
        /\ Cardinality(Names(g)) \in Nat /\ Len(g) \in Nat
    BY <1>6, <2>3, <2>4, <2>5, FS_CardinalityType, LenProperties
  <2>7. Len(g) + Cardinality(C) <= Cardinality(Names(g)) + added
    BY DEF Tally
  <2> DEFINE cC == Cardinality(C)
             cD == Cardinality(D)
             cX == Cardinality(C \cup {x})
             cN == Cardinality(Names(g))
             lg == Len(g)
  <2>8. /\ cC \in Nat /\ cD \in Nat /\ cX \in Nat /\ cN \in Nat /\ lg \in Nat
        /\ lg + cC <= cN + added /\ cD <= cX /\ cX <= cC + 1
    BY <2>4, <2>5, <2>6, <2>7
  <2> HIDE DEF cC, cD, cX, cN, lg
  <2>9. lg + cD <= cN + (added + 1)
    BY <2>8
  <2>10. QED
    BY <2>9 DEF lg, cD, cN
<1>9. \A k \in DOMAIN t : t[k] = e \/ \E j \in DOMAIN a : t[k] = a[j]
  BY <1>3
<1>10. Tally(t, g, there, n, added + 1, gone)
  BY <1>7, <1>8 DEF Tally
<1>11. QED
  BY <1>4, <1>5, <1>9, <1>10 DEF t

LEMMA RemoveKeepsListing ==
  ASSUME NEW a \in Seq(Listed), OwnNames(a), NEW there, there \subseteq Plain(a), NEW i \in DOMAIN a
  PROVE  /\ OwnNames(Removed(a, i))
         /\ \A k \in DOMAIN Removed(a, i) : \E j \in DOMAIN a : Removed(a, i)[k] = a[j]
         /\ there \ {a[i].name} \subseteq Plain(Removed(a, i))
<1> DEFINE t == Removed(a, i)
           old(k) == IF k < i THEN k ELSE k + 1
<1>0. Len(a) \in Nat /\ DOMAIN a = 1..Len(a) /\ i \in 1..Len(a)
  BY LenProperties
<1>1. /\ t \in Seq(Listed) /\ Len(t) = Len(a) - 1
      /\ \A k \in 1..Len(a) - 1 : t[k] = IF k < i THEN a[k] ELSE a[k + 1]
  BY RemovedIs
<1>2. DOMAIN t = 1..Len(a) - 1
  BY <1>1, LenProperties
<1> HIDE DEF t
<1>3. ASSUME NEW k \in DOMAIN t
      PROVE  /\ old(k) \in DOMAIN a /\ t[k] = a[old(k)] /\ old(k) # i
             /\ k <= old(k) /\ old(k) <= k + 1
  <2>1. k \in 1..Len(a) - 1
    BY <1>2
  <2>2. old(k) \in DOMAIN a /\ old(k) # i /\ k <= old(k) /\ old(k) <= k + 1
    BY <1>0, <2>1
  <2>3. t[k] = a[old(k)]
    BY <1>1, <2>1
  <2>4. QED
    BY <2>2, <2>3
<1>4. ASSUME NEW j \in DOMAIN a, j # i PROVE \E k \in DOMAIN t : t[k] = a[j]
  <2>1. CASE j < i
    <3>1. j \in 1..Len(a) - 1
      BY <1>0, <2>1
    <3>2. QED
      BY <1>1, <1>2, <2>1, <3>1
  <2>2. CASE j > i
    <3> DEFINE k == j - 1
    <3>1. k \in 1..Len(a) - 1 /\ ~(k < i) /\ k + 1 = j
      BY <1>0, <2>2
    <3> HIDE DEF k
    <3>2. t[k] = a[j]
      BY <1>1, <3>1
    <3>3. QED
      BY <1>2, <3>1, <3>2
  <2>3. j < i \/ j > i
    BY <1>0, <1>4
  <2>4. QED
    BY <2>1, <2>2, <2>3
<1>5. OwnNames(t)
  <2> SUFFICES ASSUME NEW k \in DOMAIN t, NEW m \in DOMAIN t, t[k].name = t[m].name PROVE k = m
    BY DEF OwnNames
  <2>1. old(k) = old(m)
    BY <1>3 DEF OwnNames
  <2>2. k \in Nat /\ m \in Nat /\ i \in Nat
    BY <1>0, <1>2
  <2>3. QED
    BY <2>1, <2>2
<1>6. there \ {a[i].name} \subseteq Plain(t)
  <2> SUFFICES ASSUME NEW y \in there, y # a[i].name PROVE y \in Plain(t)
    OBVIOUS
  <2>1. PICK j \in DOMAIN a : a[j].name = y /\ a[j].kind \in {"plain", "private"}
    BY DEF Plain
  <2>2. PICK k \in DOMAIN t : t[k] = a[j]
    BY <1>4, <2>1
  <2>3. QED
    BY <2>1, <2>2 DEF Plain
<1>7. \A k \in DOMAIN t : \E j \in DOMAIN a : t[k] = a[j]
  BY <1>3
<1>8. QED
  BY <1>5, <1>6, <1>7 DEF t

(***************************************************************************)
(* What is deleted moves at most one repository over the place where the   *)
(* next page begins.                                                       *)
(***************************************************************************)
LEMMA RemoveKeepsTally ==
  ASSUME NEW a \in Seq(Listed), OwnNames(a), NEW g \in Seq(Listed), NEW there, there \subseteq Plain(a),
         NEW n \in Nat \ {0}, NEW added \in Nat, NEW gone \in Nat, NEW i \in DOMAIN a,
         Tally(a, g, there, n, added, gone),
         NEW t, t = Removed(a, i), NEW rest, rest = there \ {a[i].name}
  PROVE  Tally(t, g, rest, n, added, gone + 1)
<1> DEFINE b == Behind(n)
           old(k) == IF k < i THEN k ELSE k + 1
<1>0. Len(a) \in Nat /\ DOMAIN a = 1..Len(a) /\ b \in Nat /\ i \in 1..Len(a)
  BY LenProperties, BehindPage
<1>1. /\ t \in Seq(Listed) /\ Len(t) = Len(a) - 1
      /\ \A k \in 1..Len(a) - 1 : t[k] = IF k < i THEN a[k] ELSE a[k + 1]
  BY RemovedIs
<1>2. DOMAIN t = 1..Len(a) - 1
  BY <1>1, LenProperties
<1> HIDE DEF b
<1>3. ASSUME NEW k \in DOMAIN t
      PROVE  /\ old(k) \in DOMAIN a /\ t[k] = a[old(k)] /\ old(k) # i
             /\ k <= old(k) /\ old(k) <= k + 1
  <2>1. k \in 1..Len(a) - 1
    BY <1>2
  <2>2. old(k) \in DOMAIN a /\ old(k) # i /\ k <= old(k) /\ old(k) <= k + 1
    BY <1>0, <2>1
  <2>3. t[k] = a[old(k)]
    BY <1>1, <2>1
  <2>4. QED
    BY <2>2, <2>3
<1>7. IsFiniteSet(there) /\ IsFiniteSet(Names(g)) /\ IsFiniteSet(Coming(a, n))
  <2>1. IsFiniteSet(Names(a)) /\ IsFiniteSet(Names(g))
    BY CountNames DEF Names, NamesAt
  <2>2. IsFiniteSet(Coming(a, n))
    BY CountNames DEF Coming
  <2>3. there \subseteq Names(a)
    BY DEF Plain, Names
  <2>4. QED
    BY <2>1, <2>2, <2>3, FS_Subset
<1>8. Cardinality((rest \cap Passed(t, n)) \ Names(g)) <= gone + 1
  <2> DEFINE M == (there \cap Passed(a, n)) \ Names(g)
             K == (rest \cap Passed(t, n)) \ Names(g)
             y == a[b + 1].name
  <2>1. ASSUME NEW k \in DOMAIN t, k <= b PROVE t[k].name \in Passed(a, n) \cup {y}
    <3>1. k \in Nat /\ old(k) \in DOMAIN a /\ t[k] = a[old(k)] /\ old(k) <= k + 1
      BY <1>2, <1>3
    <3>2. old(k) <= b \/ old(k) = b + 1
      BY <1>0, <2>1, <3>1
    <3>3. QED
      BY <3>1, <3>2 DEF Passed, NamesAt, b
  <2>2. K \subseteq M \cup {y}
    BY <2>1 DEF Passed, NamesAt, b
  <2>3. IsFiniteSet(M) /\ Cardinality(M) <= gone /\ Cardinality(M) \in Nat
    <3>1. IsFiniteSet(M)
      BY <1>7, FS_Subset
    <3>2. QED
      BY <3>1, FS_CardinalityType DEF Tally
  <2>4. /\ IsFiniteSet(M \cup {y}) /\ Cardinality(M \cup {y}) <= Cardinality(M) + 1
        /\ Cardinality(M \cup {y}) \in Nat
    BY <2>3, AddOne
  <2>5. Cardinality(K) \in Nat /\ Cardinality(K) <= Cardinality(M \cup {y})
    BY <2>2, <2>4, FS_Subset, FS_CardinalityType
  <2> DEFINE cK == Cardinality(K)
             cM == Cardinality(M)
             cX == Cardinality(M \cup {y})
  <2>6. cK \in Nat /\ cM \in Nat /\ cX \in Nat /\ cK <= cX /\ cX <= cM + 1 /\ cM <= gone
    BY <2>3, <2>4, <2>5
  <2> HIDE DEF cK, cM, cX
  <2>7. cK <= gone + 1
    BY <2>6
  <2>8. QED
    BY <2>7 DEF cK
<1>9. Len(g) + Cardinality(Coming(t, n) \cap Names(g)) <= Cardinality(Names(g)) + added
  <2> DEFINE C == Coming(a, n) \cap Names(g)
             D == Coming(t, n) \cap Names(g)
  <2>1. ASSUME NEW k \in DOMAIN t, k > b PROVE t[k].name \in Coming(a, n)
    <3>1. k \in Nat /\ old(k) \in DOMAIN a /\ t[k] = a[old(k)] /\ k <= old(k)
      BY <1>2, <1>3
    <3>2. old(k) > b
      BY <1>0, <2>1, <3>1
    <3>3. QED
      BY <3>1, <3>2 DEF Coming, NamesAt, b
  <2>2. D \subseteq C
    BY <2>1 DEF Coming, NamesAt, b
  <2>3. IsFiniteSet(C)
    BY <1>7, FS_Intersection
  <2>4. /\ Cardinality(D) \in Nat /\ Cardinality(C) \in Nat /\ Cardinality(D) <= Cardinality(C)
        /\ Cardinality(Names(g)) \in Nat /\ Len(g) \in Nat
    BY <1>7, <2>2, <2>3, FS_Subset, FS_CardinalityType, LenProperties
  <2> DEFINE cC == Cardinality(C)
             cD == Cardinality(D)
             cN == Cardinality(Names(g))
             lg == Len(g)
  <2>5. /\ cC \in Nat /\ cD \in Nat /\ cN \in Nat /\ lg \in Nat
        /\ lg + cC <= cN + added /\ cD <= cC
    BY <2>4 DEF Tally
  <2> HIDE DEF cC, cD, cN, lg
  <2>6. lg + cD <= cN + added
    BY <2>5
  <2>7. QED
    BY <2>6 DEF lg, cD, cN
<1>10. QED
  BY <1>8, <1>9 DEF Tally

(***************************************************************************)
(* What a listing has read agrees with the account, and what counts as     *)
(* there from the first request on is there still.                         *)
(***************************************************************************)
Listing ==
  /\ account \in Seq(Listed) /\ OwnNames(account) /\ got \in Seq(Listed)
  /\ \A i \in DOMAIN got : \A j \in DOMAIN account :
       got[i].name = account[j].name => got[i].kind = account[j].kind
  /\ stood \subseteq Plain(account)

Stage == {"called", "configured", "resolving", "listing", "naming", "listed", "resolved",
          "refused", "scanning"}

ListingIInv ==
  /\ stage \in Stage /\ personal \in BOOLEAN /\ inside \in BOOLEAN
  /\ Listing
  /\ came \in Nat /\ left \in Nat /\ came + left <= MaxMoves
  /\ page \in Nat /\ page <= Len(account) + left + 2
  /\ stage \in {"called", "configured", "resolving"} => got = <<>> /\ came = 0 /\ left = 0 /\ inside
  /\ stage = "listing" =>
       page >= 1 /\ page <= Len(account) + left + 1 /\ inside /\ Tally(account, got, stood, page, came, left)
  /\ stage = "naming" => inside
  /\ stage \in {"naming", "listed"} =>
       /\ typed # "number" => inside
       /\ Cardinality(stood \ Names(got)) <= left
       /\ Len(got) <= Cardinality(Names(got)) + came
  /\ ListingIsFaithful

LEMMA ListingStarts ==
  ASSUME ListingIInv, StartListing
  PROVE  ListingIInv'
<1> DEFINE a == account'
<1>1. /\ a \in Account /\ stage' = "listing" /\ stood' = Plain(a) /\ page' = 1
      /\ got' = <<>> /\ got = <<>> /\ came' = 0 /\ left' = 0 /\ inside' = TRUE
      /\ personal' \in BOOLEAN
  BY DEF ListingIInv, StartListing, Listings
<1>2. a \in Seq(Listed) /\ OwnNames(a)
  BY <1>1, ListingAssumption DEF OwnNames
<1>3. Len(a) \in Nat /\ DOMAIN a = 1..Len(a) /\ <<>> \in Seq(Listed) /\ Len(<<>>) = 0 /\ DOMAIN <<>> = {}
  BY <1>2, LenProperties, EmptySeq
<1>4. Behind(1) = 0
  BY ListingAssumption DEF Behind
<1>5. Names(<<>>) = {}
  BY <1>3 DEF Names
<1>6. Passed(a, 1) = {}
  BY <1>3, <1>4 DEF Passed, NamesAt
<1>7. Tally(a, <<>>, Plain(a), 1, 0, 0)
  <2>1. (Plain(a) \cap Passed(a, 1)) \ Names(<<>>) = {} /\ Coming(a, 1) \cap Names(<<>>) = {}
    BY <1>5, <1>6
  <2>2. /\ Cardinality((Plain(a) \cap Passed(a, 1)) \ Names(<<>>)) = 0
        /\ Cardinality(Coming(a, 1) \cap Names(<<>>)) = 0
        /\ Cardinality(Names(<<>>)) = 0
    BY <1>5, <2>1, FS_EmptySet
  <2>3. QED
    BY <1>3, <2>2 DEF Tally
<1> HIDE DEF a
<1>8. Listing'
  BY <1>1, <1>2, <1>3 DEF Listing, a
<1>9. (Tally(account, got, stood, page, came, left))'
  BY <1>1, <1>7 DEF a
<1>10. MaxMoves \in Nat
  BY ListingAssumption
<1>11. ListingIsFaithful'
  BY <1>1 DEF ListingIsFaithful
<1>12. QED
  BY <1>1, <1>3, <1>8, <1>9, <1>10, <1>11 DEF ListingIInv, Stage, a

(***************************************************************************)
(* A page is read, the last one or one before it.                          *)
(***************************************************************************)
LEMMA PageRead ==
  ASSUME ListingIInv, GitHubPage \/ GitLabPage
  PROVE  ListingIInv'
<1> DEFINE h == got \o PageOf(page)
<1>1. /\ got' = h /\ stage = "listing" /\ UNCHANGED <<world, inside, cfg>>
      /\ page' \in {0, page, page + 1}
      /\ \/ stage' = "listing" /\ page' = page + 1 /\ More(page)
         \/ stage' \in {"naming", "listed"} /\ ~More(page)
         \/ stage' = "refused"
  <2>1. CASE GitHubPage
    BY <2>1 DEF GitHubPage
  <2>2. CASE GitLabPage
    <3>1. page \in Nat /\ page >= 1
      BY <2>2 DEF GitLabPage, ListingIInv
    <3>2. /\ NextPage \in {0, page, page + 1}
          /\ NextPage = 0 => ~More(page)
          /\ NextPage \in page + 1..MaxPages => NextPage = page + 1 /\ More(page)
      BY <3>1, ListingAssumption DEF NextPage
    <3>3. QED
      BY <2>2, <3>1, <3>2 DEF GitLabPage
  <2>3. QED
    BY <2>1, <2>2
<1>2. /\ Listing /\ page \in Nat \ {0} /\ came \in Nat /\ left \in Nat /\ page <= Len(account) + left + 1
      /\ Tally(account, got, stood, page, came, left) /\ inside = TRUE /\ personal \in BOOLEAN
      /\ came + left <= MaxMoves
  BY <1>1 DEF ListingIInv
<1>3. /\ h \in Seq(Listed) /\ Tally(account, h, stood, page + 1, came, left)
      /\ \A k \in DOMAIN h : h[k] \in Range(got) \cup Range(account)
      /\ ~More(page) => /\ Cardinality(stood \ Names(h)) <= left
                        /\ Len(h) <= Cardinality(Names(h)) + came
  BY <1>2, PageKeepsTally DEF Listing
<1>4. Len(account) \in Nat /\ page' \in Nat /\ page' <= Len(account) + left + 2
  BY <1>1, <1>2, LenProperties DEF Listing
<1>5. UNCHANGED <<account, stood, came, left, inside, personal, typed>>
  BY <1>1 DEF world
<1> HIDE DEF h
<1>6. Listing'
  <2>1. ASSUME NEW i \in DOMAIN h, NEW j \in DOMAIN account, h[i].name = account[j].name
        PROVE  h[i].kind = account[j].kind
    <3>1. CASE h[i] \in Range(got)
      <4>1. PICK k \in DOMAIN got : got[k] = h[i]
        BY <3>1 DEF Range
      <4>2. QED
        BY <1>2, <2>1, <4>1 DEF Listing
    <3>2. CASE h[i] \in Range(account)
      <4>1. PICK k \in DOMAIN account : account[k] = h[i]
        BY <3>2 DEF Range
      <4>2. QED
        BY <1>2, <2>1, <4>1 DEF Listing, OwnNames
    <3>3. QED
      BY <1>3, <3>1, <3>2
  <2>2. QED
    BY <1>1, <1>2, <1>3, <1>5, <2>1 DEF Listing
<1>7. CASE stage' = "listing" /\ page' = page + 1 /\ More(page)
  <2>1. page + 1 <= Len(account) + left + 1
    <3>1. page * PageSize < Len(account) /\ page <= page * PageSize /\ page * PageSize \in Nat
      BY <1>2, <1>7, BehindPage, ListingAssumption DEF More
    <3>2. QED
      BY <1>2, <1>4, <3>1
  <2>2. (Tally(account, got, stood, page, came, left))'
    BY <1>1, <1>3, <1>5, <1>7
  <2>3. ListingIsFaithful'
    BY <1>7 DEF ListingIsFaithful
  <2>4. QED
    BY <1>2, <1>4, <1>5, <1>6, <1>7, <2>1, <2>2, <2>3 DEF ListingIInv, Stage
<1>8. CASE stage' \in {"naming", "listed"} /\ ~More(page)
  <2>1. ListingIsFaithful'
    BY <1>8 DEF ListingIsFaithful
  <2>2. (Cardinality(stood \ Names(got)) <= left /\ Len(got) <= Cardinality(Names(got)) + came)'
    BY <1>1, <1>3, <1>5, <1>8
  <2>3. QED
    BY <1>2, <1>4, <1>5, <1>6, <1>8, <2>1, <2>2 DEF ListingIInv, Stage
<1>9. CASE stage' = "refused"
  <2>1. ListingIsFaithful'
    BY <1>9 DEF ListingIsFaithful
  <2>2. QED
    BY <1>2, <1>4, <1>5, <1>6, <1>9, <2>1 DEF ListingIInv, Stage
<1>10. QED
  BY <1>1, <1>7, <1>8, <1>9

(***************************************************************************)
(* Gogs answers with the whole account, or the command is refused.         *)
(***************************************************************************)
LEMMA GogsListed ==
  ASSUME ListingIInv, GogsList
  PROVE  ListingIInv'
<1>1. /\ stage = "listing" /\ UNCHANGED <<world, inside, page>>
      /\ \/ stage' = "listed" /\ got' = account
         \/ stage' = "refused" /\ got' = got
  BY DEF GogsList
<1>2. UNCHANGED <<account, stood, came, left, inside, personal, typed, page>>
  BY <1>1 DEF world
<1>3. /\ Listing /\ page \in Nat /\ came \in Nat /\ left \in Nat /\ page <= Len(account) + left + 2
      /\ inside = TRUE /\ personal \in BOOLEAN /\ came + left <= MaxMoves
  BY <1>1 DEF ListingIInv
<1>4. ListingIsFaithful'
  BY <1>1 DEF ListingIsFaithful
<1>5. Listing'
  BY <1>1, <1>2, <1>3 DEF Listing, OwnNames
<1>6. CASE stage' = "listed" /\ got' = account
  <2>1. stood \ Names(account) = {}
    BY <1>3 DEF Listing, Plain, Names
  <2>2. Cardinality(stood \ Names(account)) <= left
    BY <1>3, <2>1, FS_EmptySet
  <2>3. Cardinality(Names(account)) = Len(account) /\ Len(account) \in Nat
    BY <1>3, CountNames, LenProperties DEF Names, NamesAt, Listing
  <2>4. (Cardinality(stood \ Names(got)) <= left /\ Len(got) <= Cardinality(Names(got)) + came)'
    BY <1>2, <1>3, <1>6, <2>2, <2>3
  <2>5. QED
    BY <1>2, <1>3, <1>4, <1>5, <1>6, <2>4 DEF ListingIInv, Stage
<1>7. CASE stage' = "refused"
  BY <1>2, <1>3, <1>4, <1>5, <1>7 DEF ListingIInv, Stage
<1>8. QED
  BY <1>1, <1>6, <1>7

(***************************************************************************)
(* Leaving out the archived ones and the forks leaves out none that counts.*)
(***************************************************************************)
LEMMA Filtered ==
  ASSUME ListingIInv, Filter
  PROVE  ListingIInv'
<1> DEFINE I == {j \in DOMAIN got : got[j].kind \notin {"archived", "fork"}}
           J == DOMAIN got \ I
           cI == Cardinality(I)
           cJ == Cardinality(J)
           nI == Cardinality(NamesAt(got, I))
           nJ == Cardinality(NamesAt(got, J))
           nG == Cardinality(Names(got))
           lg == Len(got)
<1>1. /\ stage = "listed" /\ stage' = "resolved" /\ UNCHANGED <<world, inside, page, got>>
      /\ scope' = [i \in I |-> got[i].name]
  BY DEF Filter, listing
<1>2. UNCHANGED <<account, stood, came, left, inside, personal, typed, page, got>>
  BY <1>1 DEF world
<1>3. /\ Listing /\ page \in Nat /\ came \in Nat /\ left \in Nat /\ page <= Len(account) + left + 2
      /\ inside \in BOOLEAN /\ personal \in BOOLEAN /\ came + left <= MaxMoves
      /\ typed # "number" => inside
      /\ Cardinality(stood \ Names(got)) <= left
      /\ lg <= nG + came
  BY <1>1 DEF ListingIInv
<1>4. InScope' = NamesAt(got, I) /\ DOMAIN scope' = I
  BY <1>1 DEF InScope, NamesAt
<1>5. stood \ NamesAt(got, I) \subseteq stood \ Names(got)
  <2> SUFFICES ASSUME NEW x \in stood, x \in Names(got) PROVE x \in NamesAt(got, I)
    OBVIOUS
  <2>1. PICK i \in DOMAIN got : got[i].name = x
    BY DEF Names
  <2>2. PICK j \in DOMAIN account : account[j].name = x /\ account[j].kind \in {"plain", "private"}
    BY <1>3 DEF Listing, Plain
  <2>3. got[i].kind \in {"plain", "private"}
    BY <1>3, <2>1, <2>2 DEF Listing
  <2>4. i \in I
    BY <2>1, <2>3
  <2>5. QED
    BY <2>1, <2>4 DEF NamesAt
<1>6. Cardinality(stood \ NamesAt(got, I)) <= left
  <2>1. IsFiniteSet(stood \ Names(got))
    <3>1. IsFiniteSet(Names(account)) /\ stood \subseteq Names(account)
      BY <1>3, CountNames DEF Listing, Plain, Names, NamesAt
    <3>2. QED
      BY <3>1, FS_Subset
  <2>2. /\ Cardinality(stood \ NamesAt(got, I)) <= Cardinality(stood \ Names(got))
        /\ Cardinality(stood \ NamesAt(got, I)) \in Nat /\ Cardinality(stood \ Names(got)) \in Nat
    BY <1>5, <2>1, FS_Subset, FS_CardinalityType
  <2>3. QED
    BY <1>3, <2>2
<1>7. cI <= nI + came
  <2>1. got \in Seq(Listed)
    BY <1>3 DEF Listing
  <2>2. /\ I \in SUBSET DOMAIN got /\ J \in SUBSET DOMAIN got
        /\ I \cup J = DOMAIN got /\ I \cap J = {}
        /\ Names(got) = NamesAt(got, I) \cup NamesAt(got, J)
    BY DEF Names, NamesAt
  <2> HIDE DEF I, J
  <2>3. /\ cI \in Nat /\ IsFiniteSet(I) /\ nI \in Nat /\ IsFiniteSet(NamesAt(got, I))
        /\ IsFiniteSet(DOMAIN got) /\ Cardinality(DOMAIN got) = lg /\ lg \in Nat
    BY <2>1, <2>2, CountNames, LenProperties
  <2>4. cJ \in Nat /\ IsFiniteSet(J) /\ nJ \in Nat /\ IsFiniteSet(NamesAt(got, J)) /\ nJ <= cJ
    BY <2>1, <2>2, CountNames
  <2>5. lg = cI + cJ
    <3>1. Cardinality(I \cup J) = cI + cJ - Cardinality(I \cap J)
      BY <2>3, <2>4, FS_Union
    <3>2. Cardinality(I \cup J) = lg /\ Cardinality(I \cap J) = 0
      BY <2>2, <2>3, FS_EmptySet
    <3> HIDE DEF lg, cI, cJ
    <3>3. QED
      BY <2>3, <2>4, <3>1, <3>2
  <2>6. nG <= nI + nJ /\ nG \in Nat
    <3> DEFINE x == NamesAt(got, I) \cap NamesAt(got, J)
    <3>1. nG = nI + nJ - Cardinality(x)
      BY <2>2, <2>3, <2>4, FS_Union
    <3>2. Cardinality(x) \in Nat
      BY <2>3, FS_Intersection, FS_CardinalityType
    <3>3. nG \in Nat
      BY <2>1, CountNames DEF Names, NamesAt
    <3> HIDE DEF nG, nI, nJ, x
    <3>4. QED
      BY <2>3, <2>4, <3>1, <3>2, <3>3
  <2> HIDE DEF cI, cJ, nI, nJ, nG, lg
  <2>7. QED
    BY <1>3, <2>3, <2>4, <2>5, <2>6
<1>8. ListingIsFaithful'
  BY <1>2, <1>3, <1>4, <1>6, <1>7 DEF ListingIsFaithful
<1>9. Listing'
  BY <1>2, <1>3 DEF Listing, OwnNames
<1>10. QED
  BY <1>1, <1>2, <1>3, <1>8, <1>9 DEF ListingIInv, Stage

LEMMA CreatedMeanwhile ==
  ASSUME ListingIInv, NEW n \in Newcomer, Create(n)
  PROVE  ListingIInv'
<1> DEFINE e == [name |-> n, kind |-> "plain"]
<1>1. /\ stage = "listing" /\ page > 1 /\ came + left < MaxMoves
      /\ n \notin Names(account) \cup Names(got)
      /\ came' = came + 1
      /\ UNCHANGED <<stage, personal, typed, stood, left, page, got, inside>>
  BY DEF Create, Moving, listing
<1>2. PICK i \in 0..Len(account) : account' = Inserted(account, i, e)
  BY DEF Create, Inserted
<1>3. /\ Listing /\ page \in Nat \ {0} /\ came \in Nat /\ left \in Nat /\ page <= Len(account) + left + 1
      /\ Tally(account, got, stood, page, came, left) /\ inside = TRUE /\ personal \in BOOLEAN
  BY <1>1 DEF ListingIInv
<1>4. e \in Listed /\ e.name = n /\ e.kind = "plain"
  BY ListingAssumption DEF Listed, Kind
<1> HIDE DEF e
<1>5. stood \subseteq Names(account)
  BY <1>3 DEF Listing, Plain, Names
<1>6. /\ account' \in Seq(Listed) /\ Len(account') = Len(account) + 1
  BY <1>2, <1>3, <1>4, InsertedIs DEF Listing
<1>7. /\ OwnNames(account')
      /\ \A k \in DOMAIN account' : account'[k] = e \/ \E j \in DOMAIN account : account'[k] = account[j]
      /\ \A j \in DOMAIN account : \E k \in DOMAIN account' : account'[k] = account[j]
      /\ Tally(account', got, stood, page, came + 1, left)
  <2> DEFINE t == Inserted(account, i, e)
  <2>1. /\ account \in Seq(Listed) /\ OwnNames(account) /\ got \in Seq(Listed)
        /\ stood \subseteq Names(account) /\ page \in Nat \ {0} /\ came \in Nat /\ left \in Nat
        /\ Tally(account, got, stood, page, came, left)
        /\ e \in Listed /\ e.name \notin Names(account) \cup Names(got)
    BY <1>1, <1>3, <1>4, <1>5 DEF Listing
  <2>2. /\ OwnNames(t)
        /\ \A k \in DOMAIN t : t[k] = e \/ \E j \in DOMAIN account : t[k] = account[j]
        /\ \A j \in DOMAIN account : \E k \in DOMAIN t : t[k] = account[j]
        /\ Tally(t, got, stood, page, came + 1, left)
    BY <2>1, InsertKeepsTally
  <2>3. account' = t
    BY <1>2
  <2> HIDE DEF t
  <2>4. QED
    BY <2>2, <2>3
<1>8. Listing'
  <2>1. ASSUME NEW k \in DOMAIN got, NEW j \in DOMAIN account', got[k].name = account'[j].name
        PROVE  got[k].kind = account'[j].kind
    <3>1. account'[j] # e
      BY <1>1, <1>4, <2>1 DEF Names
    <3>2. QED
      BY <1>3, <1>7, <2>1, <3>1 DEF Listing
  <2>2. stood \subseteq Plain(account')
    <3> SUFFICES ASSUME NEW x \in stood PROVE x \in Plain(account')
      OBVIOUS
    <3>1. PICK j \in DOMAIN account : account[j].name = x /\ account[j].kind \in {"plain", "private"}
      BY <1>3 DEF Listing, Plain
    <3>2. PICK k \in DOMAIN account' : account'[k] = account[j]
      BY <1>7
    <3>3. QED
      BY <3>1, <3>2 DEF Plain
  <2>3. QED
    BY <1>1, <1>3, <1>6, <1>7, <2>1, <2>2 DEF Listing
<1>9. ListingIsFaithful'
  BY <1>1 DEF ListingIsFaithful
<1>10. (Tally(account, got, stood, page, came, left))'
  BY <1>1, <1>7
<1>11. /\ came' \in Nat /\ came' + left <= MaxMoves
       /\ page <= Len(account') + left + 1 /\ page <= Len(account') + left + 2
  <2>1. Len(account) \in Nat
    BY <1>3, LenProperties DEF Listing
  <2>2. QED
    BY <1>1, <1>3, <1>6, <2>1, ListingAssumption
<1>12. QED
  BY <1>1, <1>3, <1>8, <1>9, <1>10, <1>11 DEF ListingIInv, Stage

LEMMA DeletedMeanwhile ==
  ASSUME ListingIInv, NEW i \in DOMAIN account, Delete(i)
  PROVE  ListingIInv'
<1>1. /\ stage = "listing" /\ page > 1 /\ came + left < MaxMoves
      /\ account' = Removed(account, i) /\ stood' = stood \ {account[i].name} /\ left' = left + 1
      /\ UNCHANGED <<stage, personal, typed, came, page, got, inside>>
  BY DEF Delete, Moving, listing, Removed
<1>2. /\ Listing /\ page \in Nat \ {0} /\ came \in Nat /\ left \in Nat /\ page <= Len(account) + left + 1
      /\ Tally(account, got, stood, page, came, left) /\ inside = TRUE /\ personal \in BOOLEAN
  BY <1>1 DEF ListingIInv
<1>3. /\ account' \in Seq(Listed) /\ Len(account') = Len(account) - 1
  BY <1>1, <1>2, RemovedIs DEF Listing
<1>4. /\ OwnNames(account')
      /\ \A k \in DOMAIN account' : \E j \in DOMAIN account : account'[k] = account[j]
      /\ stood' \subseteq Plain(account')
      /\ Tally(account', got, stood', page, came, left + 1)
  <2> DEFINE t == Removed(account, i)
             x == account[i].name
             u == stood \ {x}
  <2>1. /\ account \in Seq(Listed) /\ OwnNames(account) /\ got \in Seq(Listed)
        /\ stood \subseteq Plain(account) /\ page \in Nat \ {0} /\ came \in Nat /\ left \in Nat
        /\ Tally(account, got, stood, page, came, left)
    BY <1>2 DEF Listing
  <2>2. t = Removed(account, i) /\ x = account[i].name /\ u = stood \ {x}
    OBVIOUS
  <2>3. account' = t /\ stood' = u
    BY <1>1
  <2> HIDE DEF t, u, x
  <2>4. /\ OwnNames(t) /\ \A k \in DOMAIN t : \E j \in DOMAIN account : t[k] = account[j]
        /\ u \subseteq Plain(t) /\ Tally(t, got, u, page, came, left + 1)
    <3>1. i \in DOMAIN account
      OBVIOUS
    <3>2. Tally(t, got, u, page, came, left + 1)
      BY <2>1, <2>2, <3>1, RemoveKeepsTally
    <3>3. QED
      BY <2>1, <2>2, <3>1, <3>2, RemoveKeepsListing
  <2>5. QED
    BY <2>3, <2>4
<1>5. Listing'
  <2>1. ASSUME NEW k \in DOMAIN got, NEW j \in DOMAIN account', got[k].name = account'[j].name
        PROVE  got[k].kind = account'[j].kind
    BY <1>2, <1>4, <2>1 DEF Listing
  <2>2. QED
    BY <1>1, <1>2, <1>3, <1>4, <2>1 DEF Listing
<1>6. ListingIsFaithful'
  BY <1>1 DEF ListingIsFaithful
<1>7. (Tally(account, got, stood, page, came, left))'
  BY <1>1, <1>4
<1>8. /\ left' \in Nat /\ came + left' <= MaxMoves
      /\ page <= Len(account') + left' + 1 /\ page <= Len(account') + left' + 2
  <2>1. Len(account) \in Nat
    BY <1>2, LenProperties DEF Listing
  <2>2. QED
    BY <1>1, <1>2, <1>3, <2>1, ListingAssumption
<1>9. QED
  BY <1>1, <1>2, <1>5, <1>6, <1>7, <1>8 DEF ListingIInv, Stage

LEMMA ListingIInvStep ==
  ASSUME ListingIInv, [CommandNext]_commandVars
  PROVE  ListingIInv'
<1>1. CASE UNCHANGED scopeVars
  BY <1>1 DEF scopeVars, ListingIInv, Listing, OwnNames, ListingIsFaithful, InScope, Tally, Coming,
     Passed, NamesAt, Names, Plain
<1>2. CASE Configure \/ RefuseSettings \/ CheckAccount \/ NoPreflight \/ TakeGiven \/ NothingToList
           \/ CallFails \/ NameProjects \/ NameUnasked
  <2>1. /\ UNCHANGED <<account, stood, came, left, page, got>> /\ personal' \in BOOLEAN
        /\ inside' \in BOOLEAN
        /\ \/ /\ stage \in {"called", "configured"} /\ stage' \in {"configured", "resolving", "refused"}
              /\ inside' = inside
           \/ stage' = "refused"
           \/ stage' = "resolved" /\ cfg'.repos # <<>>
           \/ stage = "naming" /\ stage' = "listed" /\ (typed' # "number" => inside')
    BY <1>2 DEF Configure, RefuseSettings, CheckAccount, NoPreflight, TakeGiven, NothingToList,
       CallFails, NameProjects, NameUnasked, world, listing, ListingIInv
  <2>2. Listing'
    BY <2>1 DEF ListingIInv, Listing, OwnNames
  <2>3. ListingIsFaithful'
    BY <2>1 DEF ListingIsFaithful
  <2>4. /\ came \in Nat /\ left \in Nat /\ came + left <= MaxMoves
        /\ page \in Nat /\ page <= Len(account) + left + 2
    BY DEF ListingIInv
  <2>5. stage \in {"called", "configured"} => got = <<>> /\ came = 0 /\ left = 0 /\ inside
    BY DEF ListingIInv
  <2>6. stage = "naming" => /\ Cardinality(stood \ Names(got)) <= left
                            /\ Len(got) <= Cardinality(Names(got)) + came
    BY DEF ListingIInv
  <2>7. UNCHANGED <<Cardinality(stood \ Names(got)), Cardinality(Names(got))>>
    BY <2>1 DEF Names
  <2>8. CASE stage \in {"called", "configured"} /\ stage' \in {"configured", "resolving", "refused"}
             /\ inside' = inside
    BY <2>1, <2>2, <2>3, <2>4, <2>5, <2>8 DEF ListingIInv, Stage
  <2>9. CASE stage' = "refused"
    BY <2>1, <2>2, <2>3, <2>4, <2>9 DEF ListingIInv, Stage
  <2>10. CASE stage' = "resolved" /\ cfg'.repos # <<>>
    BY <2>1, <2>2, <2>3, <2>4, <2>10 DEF ListingIInv, Stage
  <2>11. CASE stage = "naming" /\ stage' = "listed" /\ (typed' # "number" => inside')
    BY <2>1, <2>2, <2>3, <2>4, <2>6, <2>7, <2>11 DEF ListingIInv, Stage
  <2>12. QED
    BY <2>1, <2>8, <2>9, <2>10, <2>11
<1>3. CASE HandOver
  <2>1. /\ stage' = "scanning" /\ account' = <<>> /\ got' = <<>> /\ stood' = {} /\ came' = 0 /\ left' = 0
        /\ page' = 0 /\ personal' = FALSE /\ inside' = TRUE
    BY <1>3 DEF HandOver
  <2>2. Listing'
    BY <2>1, EmptySeq DEF Listing, OwnNames
  <2>3. ListingIsFaithful'
    BY <2>1 DEF ListingIsFaithful
  <2>4. Len(<<>>) = 0 /\ MaxMoves \in Nat
    BY ListingAssumption
  <2>5. page' <= Len(account') + left' + 2 /\ came' + left' <= MaxMoves
    BY <2>1, <2>4
  <2>6. QED
    BY <2>1, <2>2, <2>3, <2>5 DEF ListingIInv, Stage
<1>4. CASE StartListing
  BY <1>4, ListingStarts
<1>5. CASE GitHubPage \/ GitLabPage
  BY <1>5, PageRead
<1>6. CASE GogsList
  BY <1>6, GogsListed
<1>7. CASE Filter
  BY <1>7, Filtered
<1>8. CASE Move
  BY <1>8, CreatedMeanwhile, DeletedMeanwhile DEF Move
<1>9. QED
  BY <1>1, <1>2, <1>3, <1>4, <1>5, <1>6, <1>7, <1>8
     DEF CommandNext, CommandMain, ResolveScope, LocalStep, Reply, BeginScan, RefuseScan, commandVars

LEMMA ListingIInvInit == (\E g : ScopeInit(g)) => ListingIInv
<1> SUFFICES ASSUME NEW g, ScopeInit(g) PROVE ListingIInv
  OBVIOUS
<1>1. Listing
  BY EmptySeq DEF ScopeInit, Listing, OwnNames
<1>2. ListingIsFaithful
  BY DEF ScopeInit, ListingIsFaithful
<1>3. Len(<<>>) = 0 /\ MaxMoves \in Nat
  BY ListingAssumption
<1>4. QED
  <2>1. page <= Len(account) + left + 2 /\ came + left <= MaxMoves
    BY <1>3 DEF ScopeInit
  <2>2. QED
    BY <1>1, <1>2, <2>1 DEF ScopeInit, ListingIInv, Stage

(***************************************************************************)
(* A listing misses at most as many repositories as were deleted while it  *)
(* was read, and repeats at most as many as were created, whatever the     *)
(* account, the size of a page, the number of changes and the server       *)
(* (listByOrg, GetJSONPaged, resolveRepos).                                *)
(***************************************************************************)
THEOREM ListingsAreFaithful ==
  (\E g : ScopeInit(g)) /\ [][CommandNext]_commandVars => []ListingIsFaithful
<1>1. ListingIInv => ListingIsFaithful
  BY DEF ListingIInv
<1>2. QED
  BY <1>1, ListingIInvInit, ListingIInvStep, PTL

(***************************************************************************)
(* Every variable of the command and its scan holds a value of its kind,   *)
(* and the page asked for stays within the account.                        *)
(***************************************************************************)
THEOREM CommandTypeCorrect ==
  ScanInit /\ (\E g : Callable(g) /\ ScopeInit(g)) /\ [][CommandNext]_commandVars => []CommandTypeOK
<1>1. (\E g : Callable(g) /\ ScopeInit(g)) => SettingsKept /\ ListingIInv
  BY ListingIInvInit DEF ScopeInit, SettingsKept
<1>2. ASSUME SettingsKept, ListingIInv PROVE ScopeTypeOK
  <2>1. {account[i].kind : i \in DOMAIN account} \subseteq Kind /\ Names(got) \subseteq STRING
    <3>1. \A i \in DOMAIN account : account[i] \in Listed
      BY <1>2, LenProperties, ElementOfSeq DEF ListingIInv, Listing
    <3>2. \A i \in DOMAIN got : got[i] \in Listed
      BY <1>2, LenProperties, ElementOfSeq DEF ListingIInv, Listing
    <3>3. QED
      BY <3>1, <3>2 DEF Listed, Names
  <2>2. stage = "configured" => cfg.platform \in Platform
    <3>1. ASSUME NEW g PROVE Configuration(g).platform = Settings(g)["platform"]
      BY DEF Configuration
    <3>2. ASSUME NEW g, Accepted(g) PROVE Settings(g)["platform"] \in Platform
      BY <3>2 DEF Accepted, Valid
    <3>3. QED
      BY <1>2, <3>1, <3>2 DEF SettingsKept
  <2>3. came \in 0..MaxMoves /\ left \in 0..MaxMoves /\ page \in 0..(Len(account) + left + 2)
    <3>1. Len(account) \in Nat
      BY <1>2, LenProperties DEF ListingIInv, Listing
    <3>2. QED
      BY <1>2, <3>1, ListingAssumption DEF ListingIInv
  <2>4. QED
    BY <1>2, <2>1, <2>2, <2>3 DEF ScopeTypeOK, ListingIInv, Stage
<1>3. ScanInit /\ [][CommandNext]_commandVars => []ScanTypeOK
  BY CommandRunsOneScan, ScanTypeCorrect
<1>4. QED
  BY <1>1, <1>2, <1>3, SettingsKeptStep, ListingIInvStep, PTL DEF CommandTypeOK
=============================================================================
