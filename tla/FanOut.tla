------------------------------- MODULE FanOut -------------------------------
(***************************************************************************)
(* What both worker pools of attestward promise their callers, with no     *)
(* semaphore, no goroutine and no WaitGroup in sight: every item of a      *)
(* batch is decided exactly once - by running the function on it or by     *)
(* skipping it because the context is done - and the batch is handed back  *)
(* only when every item is decided.  WorkerPools implements it.            *)
(*                                                                         *)
(* The promise is the one the comments of ForEachRepo                      *)
(* (internal/collect/github/pool.go) and runCollectors                     *)
(* (cmd/attestward/scan.go) make.                                          *)
(***************************************************************************)
EXTENDS Naturals

CONSTANTS
  Pool,      \* one batch per pool
  Size,      \* Size[p]: the length of the batch
  Result,    \* Result[p]: what the function given to pool p may return
  Skipped,   \* the decision "not run: the context was done"
  Undecided  \* no decision yet

VARIABLES
  opened,    \* has the caller handed the batch over?
  decision,  \* per pool and item
  returned   \* has the batch been handed back?

vars == <<opened, decision, returned>>

Batch(p) == 1..Size[p]

Init ==
  /\ opened = [p \in Pool |-> FALSE]
  /\ decision = [p \in Pool |-> [i \in Batch(p) |-> Undecided]]
  /\ returned = [p \in Pool |-> FALSE]

Open(p) ==
  /\ ~opened[p]
  /\ opened' = [opened EXCEPT ![p] = TRUE]
  /\ UNCHANGED <<decision, returned>>

(***************************************************************************)
(* Open items are decided, in any number and any order.                    *)
(***************************************************************************)
Decide ==
  /\ DOMAIN decision' = Pool
  /\ \A p \in Pool :
       /\ DOMAIN decision'[p] = Batch(p)
       /\ \A i \in Batch(p) :
            \/ decision'[p][i] = decision[p][i]
            \/ /\ opened[p]
               /\ decision[p][i] = Undecided
               /\ decision'[p][i] \in Result[p] \cup {Skipped}
  /\ UNCHANGED <<opened, returned>>

Return(p) ==
  /\ opened[p]
  /\ ~returned[p]
  /\ \A i \in Batch(p) : decision[p][i] # Undecided
  /\ returned' = [returned EXCEPT ![p] = TRUE]
  /\ UNCHANGED <<opened, decision>>

Next == Decide \/ \E p \in Pool : Open(p) \/ Return(p)

Spec == Init /\ [][Next]_vars
=============================================================================
