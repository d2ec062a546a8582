------------------------------ MODULE ScanRun -------------------------------
(***************************************************************************)
(* One `attestward scan`, from the preflight call to the pack handed to    *)
(* writeEvidencePack (runScan, cmd/attestward/scan.go): the pool of        *)
(* collectors, the pool of repositories every fanning-out GitHub collector *)
(* opens inside its own worker (Collect of repoprotection, sasthistory,    *)
(* scahistory, ...), the one cancellation check after the pools, and the   *)
(* assembly of the rows of the pack.                                       *)
(*                                                                         *)
(* A row stands for everything one function call contributed: the checks   *)
(* of one collector about one repository, or of one collector about the    *)
(* organisation.                                                           *)
(***************************************************************************)
EXTENDS WorkerPools

CONSTANTS
  Collectors,  \* the pool of runCollectors
  FansOut,     \* the collectors (items of that pool) that call ForEachRepo
  RepoPool     \* RepoPool[c]: the pool collector c opens

ASSUME ScanAssumption ==
  /\ Collectors \in Pool
  /\ FansOut \subseteq Item(Collectors)
  /\ RepoPool \in [FansOut -> Pool \ {Collectors}]
  /\ \A c, d \in FansOut : RepoPool[c] = RepoPool[d] => c = d
  /\ Pool = {Collectors} \cup {RepoPool[c] : c \in FansOut}
  /\ Result[Collectors] = {"returned", "failed"}

VARIABLES
  phase,   \* where runScan is
  rows,    \* the rows of the pack
  soiled   \* history: the calls whose function returned with the context done

scanVars == <<vars, phase, rows, soiled>>

Phase == {"preflight", "collecting", "assembling", "packed", "aborted"}
RowKind == {"placeholder", "cancelled", "own"}

ScanInit ==
  /\ Init
  /\ phase = "preflight"
  /\ rows = {}
  /\ soiled = {}
-----------------------------------------------------------------------------
(***************************************************************************)
(* CheckAccount, resolveRepos and filterCollectors: any of them may refuse *)
(* the scan; otherwise runCollectors is called.                            *)
(***************************************************************************)
Preflight ==
  /\ phase = "preflight"
  /\ \/ /\ phase' = "collecting"
        /\ Open(Collectors)
     \/ /\ phase' = "aborted"
        /\ UNCHANGED vars
  /\ UNCHANGED <<rows, soiled>>

(***************************************************************************)
(* A worker of the collector pool is inside Collect and calls ForEachRepo. *)
(***************************************************************************)
OpenRepos(c) ==
  /\ worker[Collectors][c] = "running"
  /\ Open(RepoPool[c])
  /\ UNCHANGED <<phase, rows, soiled>>

\* A mutant of MayReturn: Collect does not wait for ForEachRepo.
MayReturnAtOnce(p, i) == TRUE

(***************************************************************************)
(* Collect returns.  One that fans out returns when ForEachRepo has, and   *)
(* never with an error: its callback turns every failure into rows.        *)
(***************************************************************************)
MayReturn(p, i) ==
  p = Collectors /\ i \in FansOut => pc[RepoPool[i]] = "done"

Soil(p, i) ==
  soiled' = IF cancelled THEN soiled \cup {<<p, i>>} ELSE soiled

FinishCall(p, i) ==
  /\ MayReturn(p, i)
  /\ Store(p, i)
  /\ p = Collectors /\ i \in FansOut => outcome'[p][i] = "returned"
  /\ Soil(p, i)
  /\ UNCHANGED <<phase, rows>>

LaunchStep(p) ==
  /\ Launch(p)
  /\ UNCHANGED <<phase, rows, soiled>>

UnwindCall(p, i) ==
  /\ ReleaseFree(p, i) \/ ReleaseHandover(p, i) \/ Exit(p, i)
  /\ UNCHANGED <<phase, rows, soiled>>

CancelScan ==
  /\ Cancel
  /\ UNCHANGED <<phase, rows, soiled>>

\* A mutant of CheckCancelled: the check is missing.
CheckCancelledAbsent ==
  /\ phase = "collecting"
  /\ pc[Collectors] = "done"
  /\ phase' = "assembling"
  /\ UNCHANGED <<vars, rows, soiled>>

(***************************************************************************)
(* if ctx.Err() != nil { return "scan canceled" }, once, after the pools.  *)
(***************************************************************************)
CheckCancelled ==
  /\ phase = "collecting"
  /\ pc[Collectors] = "done"
  /\ phase' = IF cancelled THEN "aborted" ELSE "assembling"
  /\ UNCHANGED <<vars, rows, soiled>>

\* A mutant of PlaceholderRows: a failed collector is only logged.
PlaceholderRowsDropped == {}

(***************************************************************************)
(* What the outcomes contribute.  A failed or skipped collector leaves one *)
(* not-checkable row under the collector's own id; a repository skipped by *)
(* ForEachRepo leaves its collector's "scan canceled" rows.                *)
(***************************************************************************)
PlaceholderRows ==
  {<<c, 0, "placeholder">> :
     c \in {d \in Item(Collectors) : outcome[Collectors][d] # "returned"}}

OrgRows ==
  {<<c, 0, "own">> :
     c \in {d \in Item(Collectors) \ FansOut : outcome[Collectors][d] = "returned"}}

\* A mutant of RepoRows: the error of a skipped repository is stored as is.
RepoRowsRaw(c) ==
  {<<c, r, outcome[RepoPool[c]][r]>> : r \in Item(RepoPool[c])}

RepoRows(c) ==
  {<<c, r, IF outcome[RepoPool[c]][r] = Skipped THEN "cancelled" ELSE "own">> :
     r \in Item(RepoPool[c])}

CollectedRows ==
  PlaceholderRows \cup OrgRows \cup
  UNION {RepoRows(c) : c \in {d \in FansOut : outcome[Collectors][d] = "returned"}}

(***************************************************************************)
(* The mappings and the answers file are loaded (any of them may fail),    *)
(* then the pack is built.                                                 *)
(***************************************************************************)
Assemble ==
  /\ phase = "assembling"
  /\ \/ /\ phase' = "packed"
        /\ rows' = CollectedRows
     \/ /\ phase' = "aborted"
        /\ UNCHANGED rows
  /\ UNCHANGED <<vars, soiled>>

MainStep == Preflight \/ CheckCancelled \/ Assemble

ScanNext ==
  \/ MainStep
  \/ CancelScan
  \/ \E c \in FansOut : OpenRepos(c)
  \/ \E p \in Pool : LaunchStep(p)
  \/ \E p \in Pool : \E i \in Item(p) : FinishCall(p, i) \/ UnwindCall(p, i)

ScanSpec == ScanInit /\ [][ScanNext]_scanVars

(***************************************************************************)
(* The main goroutine, the launchers and the workers are scheduled;        *)
(* Collect calls ForEachRepo and every call it makes returns.  The retry   *)
(* loops are bounded (ApiCalls); that the platform answers a request or    *)
(* its connection fails is assumed, for the clients set no timeout.        *)
(***************************************************************************)
FairScanSpec ==
  /\ ScanSpec
  /\ WF_scanVars(MainStep)
  /\ \A c \in FansOut : WF_scanVars(OpenRepos(c))
  /\ \A p \in Pool : WF_scanVars(LaunchStep(p))
  /\ \A p \in Pool : \A i \in Item(p) : WF_scanVars(FinishCall(p, i) \/ UnwindCall(p, i))
-----------------------------------------------------------------------------
(* Properties. *)

ScanTypeOK ==
  /\ TypeOK
  /\ phase \in Phase
  /\ rows \subseteq Item(Collectors) \X Nat \X RowKind
  /\ soiled \subseteq UNION {{p} \X Item(p) : p \in Pool}

(***************************************************************************)
(* A scan interrupted at any point never turns into a pack: what is packed *)
(* holds no row of a skipped repository or collector, and no call whose    *)
(* function came back after the context was done contributed to it         *)
(* ("a scan interrupted mid-flight must not produce a plausible-looking    *)
(* pack", runScan).                                                        *)
(***************************************************************************)
NoPackFromInterruptedScan ==
  phase = "packed" =>
    /\ soiled = {}
    /\ \A row \in rows : row[3] # "cancelled"
    /\ \A c \in Item(Collectors) : outcome[Collectors][c] # Skipped

(***************************************************************************)
(* Nothing is dropped silently: each collector is in the pack exactly one  *)
(* way - its placeholder, or its own rows, one for each repository in      *)
(* scope - whichever calls failed ("partial evidence is still evidence",   *)
(* internal/collect/collector.go).                                         *)
(***************************************************************************)
EveryCollectorAccounted ==
  phase = "packed" =>
    \A c \in Item(Collectors) :
      LET mine == {row \in rows : row[1] = c}
      IN  \/ mine = {<<c, 0, "placeholder">>}
          \/ /\ c \notin FansOut
             /\ mine = {<<c, 0, "own">>}
          \/ /\ c \in FansOut
             /\ {row[2] : row \in mine} = Item(RepoPool[c])
             /\ Cardinality(mine) = Size[RepoPool[c]]

(***************************************************************************)
(* A repository pool lives inside its collector's worker: while any of its *)
(* goroutines is alive the collector still counts as running, so when      *)
(* runScan reads the outcomes no goroutine of the scan is left.            *)
(***************************************************************************)
NoOrphanGoroutines ==
  /\ \A c \in FansOut :
       (pc[RepoPool[c]] \notin {"idle", "done"} \/ Alive(RepoPool[c]) # {})
         => worker[Collectors][c] = "running"
  /\ phase \in {"assembling", "packed"} => \A p \in Pool : Alive(p) = {}

(***************************************************************************)
(* Every scan ends, with a pack or refused: no launcher waits for a place  *)
(* held by a collector that waits for it.                                  *)
(***************************************************************************)
ScanEnds == <>(phase \in {"packed", "aborted"})
=============================================================================
