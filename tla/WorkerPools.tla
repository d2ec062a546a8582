---------------------------- MODULE WorkerPools -----------------------------
(***************************************************************************)
(* The bounded worker pool of attestward, written twice in the code with   *)
(* the same statements: ForEachRepo (internal/collect/github/pool.go) runs *)
(* one function per repository, runCollectors (cmd/attestward/scan.go)     *)
(* runs one Collect per collector.  A launcher goroutine walks the items;  *)
(* for each it looks at the context, then selects between the context's    *)
(* Done channel and a send on a buffered channel used as a semaphore; when *)
(* the send wins it starts a worker goroutine, which calls the function,   *)
(* stores the outcome at the item's index, and runs its two deferred       *)
(* calls: the receive from the semaphore, then WaitGroup.Done.             *)
(*                                                                         *)
(* Pool is the set of pools of one scan: they share nothing but the        *)
(* context.  ScanRun composes them (one pool inside a worker of another).  *)
(***************************************************************************)
EXTENDS Naturals, FiniteSets

CONSTANTS
  Pool,      \* the pools of the scan
  Size,      \* Size[p]: how many items pool p is given
  Limit,     \* Limit[p]: its concurrency, after the "<= 0 means 4" default
  Result,    \* Result[p]: what the function given to pool p may return
  Skipped,   \* the outcome stored for an item whose turn came after cancellation
  Undecided  \* the zero value of an outcome: nothing stored yet

ASSUME PoolAssumption ==
  /\ Size \in [Pool -> Nat]
  /\ Limit \in [Pool -> Nat \ {0}]
  /\ \A p \in Pool : Skipped \notin Result[p] /\ Undecided \notin Result[p]
  /\ Skipped # Undecided

VARIABLES
  cancelled, \* the context is done
  pc,        \* the launcher of each pool
  next,      \* the loop variable of each launcher, from 1
  sem,       \* how many tokens the semaphore channel holds
  wg,        \* the WaitGroup counter
  worker,    \* the worker goroutine of each item
  outcome,   \* outcomes[i] / results[i]
  late       \* history: how many workers were started with the context done

vars == <<cancelled, pc, next, sem, wg, worker, outcome, late>>
poolVars == <<pc, next, sem, wg, worker, outcome, late>>

Item(p) == 1..Size[p]

LauncherState == {"idle", "check", "select", "parked", "wait", "done"}
WorkerState == {"none", "running", "stored", "released", "exited"}

(***************************************************************************)
(* Workers that hold a token, and workers the WaitGroup still counts.      *)
(***************************************************************************)
InFlight(p) == {i \in Item(p) : worker[p][i] = "running"}
Holding(p) == {i \in Item(p) : worker[p][i] \in {"running", "stored"}}
Alive(p) == {i \in Item(p) : worker[p][i] \in {"running", "stored", "released"}}

Init ==
  /\ cancelled = FALSE
  /\ pc = [p \in Pool |-> "idle"]
  /\ next = [p \in Pool |-> 1]
  /\ sem = [p \in Pool |-> 0]
  /\ wg = [p \in Pool |-> 0]
  /\ worker = [p \in Pool |-> [i \in Item(p) |-> "none"]]
  /\ outcome = [p \in Pool |-> [i \in Item(p) |-> Undecided]]
  /\ late = [p \in Pool |-> 0]
-----------------------------------------------------------------------------
(* The launcher. *)

Open(p) ==
  /\ pc[p] = "idle"
  /\ pc' = [pc EXCEPT ![p] = "check"]
  /\ UNCHANGED <<cancelled, next, sem, wg, worker, outcome, late>>

(***************************************************************************)
(* outcomes[i] = {err: ctx.Err()}; continue                                *)
(***************************************************************************)
Skip(p) ==
  /\ outcome' = [outcome EXCEPT ![p][next[p]] = Skipped]
  /\ next' = [next EXCEPT ![p] = @ + 1]
  /\ pc' = [pc EXCEPT ![p] = "check"]

(***************************************************************************)
(* wg.Add(1); go func...: the token is already in the channel.             *)
(***************************************************************************)
Start(p) ==
  /\ worker' = [worker EXCEPT ![p][next[p]] = "running"]
  /\ wg' = [wg EXCEPT ![p] = @ + 1]
  /\ next' = [next EXCEPT ![p] = @ + 1]
  /\ pc' = [pc EXCEPT ![p] = "check"]
  /\ late' = [late EXCEPT ![p] = IF cancelled THEN @ + 1 ELSE @]

\* Mutants of CheckContext: without the check the select alone decides; with
\* the check but without its `continue` the skipped item is still launched.
CheckContextAbsent(p) ==
  /\ pc[p] = "check"
  /\ next[p] <= Size[p]
  /\ pc' = [pc EXCEPT ![p] = "select"]
  /\ UNCHANGED <<cancelled, next, sem, wg, worker, outcome, late>>

CheckContextFallsThrough(p) ==
  /\ pc[p] = "check"
  /\ next[p] <= Size[p]
  /\ pc' = [pc EXCEPT ![p] = "select"]
  /\ outcome' = IF cancelled THEN [outcome EXCEPT ![p][next[p]] = Skipped] ELSE outcome
  /\ UNCHANGED <<cancelled, next, sem, wg, worker, late>>

(***************************************************************************)
(* if ctx.Err() != nil: the explicit check before the select.              *)
(***************************************************************************)
CheckContext(p) ==
  /\ pc[p] = "check"
  /\ next[p] <= Size[p]
  /\ \/ /\ cancelled
        /\ Skip(p)
     \/ /\ ~cancelled
        /\ pc' = [pc EXCEPT ![p] = "select"]
        /\ UNCHANGED <<next, outcome>>
  /\ UNCHANGED <<cancelled, sem, wg, worker, late>>

\* A mutant of SelectDone: the slot of the skipped item is not stored to.
SelectDoneForgets(p) ==
  /\ pc[p] = "select"
  /\ cancelled
  /\ next' = [next EXCEPT ![p] = @ + 1]
  /\ pc' = [pc EXCEPT ![p] = "check"]
  /\ UNCHANGED <<cancelled, sem, wg, worker, outcome, late>>

\* A mutant of SelectAcquire: the channel has one place too many.
SelectAcquireOneMore(p) ==
  /\ pc[p] = "select"
  /\ sem[p] <= Limit[p]
  /\ sem' = [sem EXCEPT ![p] = @ + 1]
  /\ Start(p)
  /\ UNCHANGED <<cancelled, outcome>>

(***************************************************************************)
(* The select statement finds a case ready: either may be taken when both  *)
(* are.                                                                    *)
(***************************************************************************)
SelectDone(p) ==
  /\ pc[p] = "select"
  /\ cancelled
  /\ Skip(p)
  /\ UNCHANGED <<cancelled, sem, wg, worker, late>>

SelectAcquire(p) ==
  /\ pc[p] = "select"
  /\ sem[p] < Limit[p]
  /\ sem' = [sem EXCEPT ![p] = @ + 1]
  /\ Start(p)
  /\ UNCHANGED <<cancelled, outcome>>

(***************************************************************************)
(* No case is ready: the launcher blocks on both channels.  Whichever      *)
(* becomes ready first wakes it and is the case taken (Cancel, Release).   *)
(***************************************************************************)
Park(p) ==
  /\ pc[p] = "select"
  /\ ~cancelled
  /\ sem[p] = Limit[p]
  /\ pc' = [pc EXCEPT ![p] = "parked"]
  /\ UNCHANGED <<cancelled, next, sem, wg, worker, outcome, late>>

(***************************************************************************)
(* After the loop: wg.Wait(), which returns when the counter is zero.      *)
(***************************************************************************)
EnterWait(p) ==
  /\ pc[p] = "check"
  /\ next[p] > Size[p]
  /\ pc' = [pc EXCEPT ![p] = "wait"]
  /\ UNCHANGED <<cancelled, next, sem, wg, worker, outcome, late>>

\* A mutant of Join: the outcomes are read without wg.Wait().
JoinWithoutWait(p) ==
  /\ pc[p] = "wait"
  /\ pc' = [pc EXCEPT ![p] = "done"]
  /\ UNCHANGED <<cancelled, next, sem, wg, worker, outcome, late>>

Join(p) ==
  /\ pc[p] = "wait"
  /\ wg[p] = 0
  /\ pc' = [pc EXCEPT ![p] = "done"]
  /\ UNCHANGED <<cancelled, next, sem, wg, worker, outcome, late>>
-----------------------------------------------------------------------------
(* The workers. *)

(***************************************************************************)
(* The function returns and its outcome is stored at the item's index.     *)
(***************************************************************************)
Store(p, i) ==
  /\ worker[p][i] = "running"
  /\ \E r \in Result[p] : outcome' = [outcome EXCEPT ![p][i] = r]
  /\ worker' = [worker EXCEPT ![p][i] = "stored"]
  /\ UNCHANGED <<cancelled, pc, next, sem, wg, late>>

\* A mutant of ReleaseFree: the worker leaves without giving its token back.
ReleaseFreeLeaks(p, i) ==
  /\ worker[p][i] = "stored"
  /\ pc[p] # "parked"
  /\ worker' = [worker EXCEPT ![p][i] = "released"]
  /\ UNCHANGED <<cancelled, pc, next, sem, wg, outcome, late>>

(***************************************************************************)
(* The deferred receive from the semaphore.  With the launcher parked on   *)
(* the send, the receive frees a place and the waiting send takes it in    *)
(* the same channel operation: the number of tokens does not change.       *)
(***************************************************************************)
ReleaseFree(p, i) ==
  /\ worker[p][i] = "stored"
  /\ pc[p] # "parked"
  /\ sem' = [sem EXCEPT ![p] = @ - 1]
  /\ worker' = [worker EXCEPT ![p][i] = "released"]
  /\ UNCHANGED <<cancelled, pc, next, wg, outcome, late>>

ReleaseHandover(p, i) ==
  /\ worker[p][i] = "stored"
  /\ pc[p] = "parked"
  /\ worker' = [worker EXCEPT ![p] = [@ EXCEPT ![i] = "released", ![next[p]] = "running"]]
  /\ wg' = [wg EXCEPT ![p] = @ + 1]
  /\ next' = [next EXCEPT ![p] = @ + 1]
  /\ pc' = [pc EXCEPT ![p] = "check"]
  /\ UNCHANGED <<cancelled, sem, outcome, late>>

\* A mutant of Exit: Done is called twice.
ExitTwice(p, i) ==
  /\ worker[p][i] = "released"
  /\ wg' = [wg EXCEPT ![p] = @ - 2]
  /\ worker' = [worker EXCEPT ![p][i] = "exited"]
  /\ UNCHANGED <<cancelled, pc, next, sem, outcome, late>>

(***************************************************************************)
(* The deferred wg.Done().                                                 *)
(***************************************************************************)
Exit(p, i) ==
  /\ worker[p][i] = "released"
  /\ wg' = [wg EXCEPT ![p] = @ - 1]
  /\ worker' = [worker EXCEPT ![p][i] = "exited"]
  /\ UNCHANGED <<cancelled, pc, next, sem, outcome, late>>
-----------------------------------------------------------------------------
(***************************************************************************)
(* The context is cancelled: every launcher parked on its Done channel     *)
(* wakes with that case and skips its item.                                *)
(***************************************************************************)
Parked == {p \in Pool : pc[p] = "parked"}

Cancel ==
  /\ ~cancelled
  /\ cancelled' = TRUE
  /\ outcome' = [p \in Pool |-> IF p \in Parked
                                THEN [outcome[p] EXCEPT ![next[p]] = Skipped]
                                ELSE outcome[p]]
  /\ next' = [p \in Pool |-> IF p \in Parked THEN next[p] + 1 ELSE next[p]]
  /\ pc' = [p \in Pool |-> IF p \in Parked THEN "check" ELSE pc[p]]
  /\ UNCHANGED <<sem, wg, worker, late>>

Launch(p) ==
  \/ CheckContext(p) \/ SelectDone(p) \/ SelectAcquire(p) \/ Park(p)
  \/ EnterWait(p) \/ Join(p)

Work(p, i) == Store(p, i) \/ ReleaseFree(p, i) \/ ReleaseHandover(p, i) \/ Exit(p, i)

Next ==
  \/ Cancel
  \/ \E p \in Pool : Open(p) \/ Launch(p)
  \/ \E p \in Pool : \E i \in Item(p) : Work(p, i)

Spec == Init /\ [][Next]_vars
-----------------------------------------------------------------------------
(* Properties. *)

Typed(p) ==
  /\ pc[p] \in LauncherState
  /\ next[p] \in Nat \ {0}
  /\ sem[p] \in Nat
  /\ wg[p] \in Nat
  /\ worker[p] \in [Item(p) -> WorkerState]
  /\ outcome[p] \in [Item(p) -> Result[p] \cup {Skipped, Undecided}]
  /\ late[p] \in Nat

TypeOK ==
  /\ cancelled \in BOOLEAN
  /\ DOMAIN pc = Pool /\ DOMAIN next = Pool /\ DOMAIN sem = Pool /\ DOMAIN wg = Pool
  /\ DOMAIN worker = Pool /\ DOMAIN outcome = Pool /\ DOMAIN late = Pool
  /\ \A p \in Pool : Typed(p)

(***************************************************************************)
(* No pool ever runs more functions at once than its limit, whatever the   *)
(* order of its workers' receives and of the launcher's sends: the         *)
(* semaphore's token outlives the call (sem in runCollectors, ForEachRepo).*)
(***************************************************************************)
LimitRespected == \A p \in Pool : Cardinality(InFlight(p)) <= Limit[p]

(***************************************************************************)
(* When the launcher goes past wg.Wait() nothing is still running in its   *)
(* pool and every slot has been stored to: the loop that reads outcomes    *)
(* races with nobody and meets no zero value.                              *)
(***************************************************************************)
NothingLeftBehind ==
  \A p \in Pool : pc[p] = "done" =>
    \A i \in Item(p) : /\ outcome[p][i] # Undecided
                       /\ worker[p][i] \in {"none", "exited"}

(***************************************************************************)
(* What the check before the select buys: once the context is done at most *)
(* one more function is started, the one whose select was already under    *)
(* way; and none is ever skipped while the context is live.                *)
(***************************************************************************)
AtMostOneLateStart ==
  \A p \in Pool :
    /\ late[p] <= 1
    /\ (~cancelled => \A i \in Item(p) : outcome[p][i] # Skipped)

(***************************************************************************)
(* A skipped item's function never runs, and a function that ran is never  *)
(* reported as skipped: a decided slot keeps its value, whoever else is    *)
(* still storing.                                                          *)
(***************************************************************************)
DecidedOnce ==
  [][\A p \in Pool : \A i \in Item(p) :
       /\ (outcome[p][i] # Undecided => outcome'[p][i] = outcome[p][i])
       /\ (outcome[p][i] = Skipped => worker'[p][i] = "none")]_vars

(***************************************************************************)
(* The pools implement the contract their callers rely on.                 *)
(***************************************************************************)
Contract ==
  INSTANCE FanOut WITH opened <- [p \in Pool |-> pc[p] # "idle"],
                       decision <- outcome,
                       returned <- [p \in Pool |-> pc[p] = "done"]

ImplementsFanOut == Contract!Spec
=============================================================================
