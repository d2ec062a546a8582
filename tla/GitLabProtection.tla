-------------------------- MODULE GitLabProtection ---------------------------
(***************************************************************************)
(* C02.repo-protection on GitLab: the project, its protected-branch rules  *)
(* and its approval settings (internal/collect/gitlab/repoprotection).     *)
(***************************************************************************)
EXTENDS BranchChecks

CONSTANTS
  Branch,   \* the branches of the project
  NoBranch, \* an empty project has no default branch
  Rule      \* the protected-branch rules that may exist

\* covers: the branches a rule's name, which may be a pattern, matches.
Rules == [covers : SUBSET Branch, allowForcePush : BOOLEAN]

World == [branch : Branch \cup {NoBranch}, rules : SUBSET Rule, approvals : 0..1,
          pipelines : {"optional", "skippable", "required"}]

Call == {"project", "protected_branches", "approvals"}

Init == InitWith(World, Call)

ReadProject == Get("project", [branch |-> world.branch, pipelines |-> world.pipelines])

ReadProtectedBranches ==
  /\ Got("project") /\ heard["project"].branch # NoBranch
  /\ Get("protected_branches", world.rules)

\* Allowed to fail without sinking the rest.
ReadApprovals == Got("protected_branches") /\ Get("approvals", world.approvals)
-----------------------------------------------------------------------------
Matched == {r \in heard["protected_branches"] : heard["project"].branch \in r.covers}

\* A mutant of MergeMatchingRules: the first matching rule decides.
MergeFirstOnly == Matched # {} /\ (CHOOSE r \in Matched : TRUE).allowForcePush

\* mergeMatchingRules: the most permissive of the matching rules wins.
MergeMatchingRules == \E r \in Matched : r.allowForcePush

ProtectionExists == PassIf(Matched # {})
ForcePush == PassIf(Matched # {} /\ ~MergeMatchingRules)
DeletionBlocked == IF Matched = {} THEN Fail ELSE Partial

RequiredReviews ==
  IF Got("approvals") /\ heard["approvals"] >= 1 THEN Partial ELSE NotCheckable

RequiredStatusChecks ==
  CASE heard["project"].pipelines = "optional"  -> Fail
    [] heard["project"].pipelines = "skippable" -> Partial
    [] heard["project"].pipelines = "required"  -> Pass

\* allNotCheckable
NoProject ==
  /\ heard["project"] = Failed
  /\ Emit(AllNotCheckable)

(***************************************************************************)
(* A mutant of ResultsWithoutBranchData: the project's own answer is swept *)
(* away with what is missing (issue #21).                                  *)
(***************************************************************************)
ResultsAllSwept ==
  /\ Got("project")
  /\ heard["project"].branch = NoBranch \/ heard["protected_branches"] = Failed
  /\ Emit(AllNotCheckable)

\* A mutant of ResultsWithoutBranchData: the check never reached is left out.
ResultsLeftOut ==
  /\ Got("project")
  /\ heard["project"].branch = NoBranch \/ heard["protected_branches"] = Failed
  /\ Emit([c \in Check \ {"required-reviews"} |->
             IF c = "required-status-checks" THEN RequiredStatusChecks ELSE NotCheckable])

ResultsWithoutBranchData ==
  /\ Got("project")
  /\ heard["project"].branch = NoBranch \/ heard["protected_branches"] = Failed
  /\ Emit([AllNotCheckable EXCEPT !["required-status-checks"] = RequiredStatusChecks])

Verdict(c) ==
  CASE c = "protection-exists"      -> ProtectionExists
    [] c = "required-reviews"       -> RequiredReviews
    [] c = "required-status-checks" -> RequiredStatusChecks
    [] c = "force-push-blocked"     -> ForcePush
    [] c = "deletion-blocked"       -> DeletionBlocked
    [] c = "admin-enforced"         -> NotCheckable

Decide ==
  /\ Got("protected_branches")
  /\ heard["approvals"] # Unasked
  /\ Emit([c \in Check |-> Verdict(c)])

Edit == Change({[world EXCEPT !.branch = b] : b \in Branch}
          \cup {[world EXCEPT !.rules = @ \cup {r}] : r \in Rule}
          \cup {[world EXCEPT !.rules = @ \ {r}] : r \in Rule}
          \cup {[world EXCEPT !.pipelines = p] : p \in {"optional", "skippable", "required"}})

Next ==
  \/ ReadProject \/ ReadProtectedBranches \/ ReadApprovals
  \/ NoProject \/ ResultsWithoutBranchData \/ Decide \/ Edit

Spec == Init /\ [][Next]_vars
-----------------------------------------------------------------------------
TypeOK == Typed(World, Call)

(***************************************************************************)
(* What GitLab lets happen: an unprotected branch is open to all who can   *)
(* push; on a protected one any rule that allows force pushes allows them, *)
(* and a Maintainer can still delete it in the web interface.              *)
(***************************************************************************)
On(w, b) == {r \in w.rules : b \in r.covers}
ForcePushStopped(w, b) == On(w, b) # {} /\ \A r \in On(w, b) : ~r.allowForcePush

(***************************************************************************)
(* What is verified was so: of the branch that was the default one, in the *)
(* settings of one moment of the scan.  Deletion and review are never      *)
(* passed, as the API shows neither to be enforced.                        *)
(***************************************************************************)
VerifiedIsTrue ==
  /\ Is("protection-exists", Pass) => \E v, w \in seen : On(w, v.branch) # {}
  /\ Is("force-push-blocked", Pass) => \E v, w \in seen : ForcePushStopped(w, v.branch)
  /\ Is("force-push-blocked", Fail) => \E v, w \in seen : ~ForcePushStopped(w, v.branch)
  /\ \A c \in {"protection-exists", "deletion-blocked"} :
       Is(c, Fail) => \E v, w \in seen : On(w, v.branch) = {}
  /\ Is("required-status-checks", Pass) => \E w \in seen : w.pipelines = "required"
  /\ Is("required-status-checks", Fail) => \E w \in seen : w.pipelines = "optional"
  /\ \A c \in {"deletion-blocked", "required-reviews", "admin-enforced"} : ~Is(c, Pass)
  /\ ~Is("required-reviews", Fail)

(***************************************************************************)
(* An answer that is in hand is used: required-status-checks rests on the  *)
(* project alone, the other branch checks do not wait for the approvals.   *)
(***************************************************************************)
FailuresStayLocal ==
  /\ Is("required-status-checks", NotCheckable) => heard["project"] = Failed
  /\ \A c \in {"protection-exists", "force-push-blocked", "deletion-blocked"} :
       Is(c, NotCheckable) =>
         \/ Failed \in {heard["project"], heard["protected_branches"]}
         \/ heard["project"].branch = NoBranch
=============================================================================
