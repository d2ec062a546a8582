---------------------------- MODULE BranchChecks -----------------------------
(***************************************************************************)
(* The six checks of C02.repo-protection, which all platforms answer under *)
(* the same identifiers, and what four of them are about.                  *)
(***************************************************************************)
EXTENDS Observation

Check == {"protection-exists", "required-reviews", "required-status-checks",
          "force-push-blocked", "deletion-blocked", "admin-enforced"}

AllNotCheckable == [c \in Check |-> NotCheckable]

Subject == [c \in Check \ {"protection-exists", "admin-enforced"} |->
  CASE c = "required-reviews"       -> "review"
    [] c = "required-status-checks" -> "checks"
    [] c = "force-push-blocked"     -> "force"
    [] c = "deletion-blocked"       -> "deletion"]

PassIf(holds) == IF holds THEN Pass ELSE Fail

\* Whatever the path, each of the six checks has a status when there are any.
Typed(World, Call) ==
  /\ world \in World /\ seen \subseteq World /\ world \in seen
  /\ DOMAIN heard = Call
  /\ status # Undecided => status \in [Check -> {Pass, Fail, Partial, NotCheckable}]
=============================================================================
