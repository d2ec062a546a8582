----------------------------- MODULE Observation -----------------------------
(***************************************************************************)
(* How any collector comes to the statuses of one repository: it makes     *)
(* read-only API calls, each answered truthfully or failing, while an      *)
(* administrator may change the settings between two calls, and then emits *)
(* one status per check.  A collector's module extends this one and says   *)
(* what the settings are, which calls are made in which order, and how the *)
(* answers become statuses.                                                *)
(***************************************************************************)
EXTENDS Naturals, FiniteSets

CONSTANTS
  Unasked,   \* a call that has not been made
  Failed,    \* a call that ended in an error
  Undecided, \* no status emitted yet
  MaxWorlds  \* bound: the settings met during one collection

VARIABLES
  world,  \* the settings on the platform
  heard,  \* the answer to each call
  status, \* the status of each check, or Undecided
  seen    \* history: the settings there have been since the first call

vars == <<world, heard, status, seen>>

Pass == "verified-pass"
Fail == "verified-fail"
Partial == "partial"
NotCheckable == "not-checkable"

InitWith(World, Call) ==
  /\ world \in World
  /\ heard = [c \in Call |-> Unasked]
  /\ status = Undecided
  /\ seen = {world}

Got(c) == heard[c] \notin {Unasked, Failed}

Get(c, answer) ==
  /\ heard[c] = Unasked
  /\ status = Undecided
  /\ heard' \in {[heard EXCEPT ![c] = a] : a \in {answer, Failed}}
  /\ UNCHANGED <<world, status, seen>>

Emit(statuses) ==
  /\ status = Undecided
  /\ status' = statuses
  /\ UNCHANGED <<world, heard, seen>>

Change(World) ==
  /\ status = Undecided
  /\ \E w \in World :
       /\ world' = w
       /\ seen' = seen \cup {w}
       /\ Cardinality(seen') <= MaxWorlds
  /\ UNCHANGED <<heard, status>>

\* The settings have not changed since the first call.
Quiet == seen = {world}

\* A status is emitted, and it is this one.
Is(check, s) == status # Undecided /\ status[check] = s
=============================================================================
