--------------------------- MODULE AzureProtection ---------------------------
(***************************************************************************)
(* C02.repo-protection on Azure DevOps: two listings of the whole project, *)
(* its repositories and its policies, from which the policies on the       *)
(* default branch of one repository are picked out; three of the six       *)
(* checks hang on permissions the API does not show and are never          *)
(* answered (internal/collect/azuredevops/repoprotection).                 *)
(***************************************************************************)
EXTENDS BranchChecks

CONSTANTS
  Branch,   \* the branches of the repository
  NoBranch, \* an empty repository has no default branch
  Absent,   \* the project has no such repository
  Policy    \* the policy configurations that may exist in the project

(***************************************************************************)
(* settings.scope[]: the repository it names ("any": none), how its        *)
(* refName is compared, the branch it is equal to and those it begins.     *)
(***************************************************************************)
Scope == [repository : {"this", "other", "any"}, matchKind : {"Exact", "Prefix", "DefaultBranch"},
          equals : Branch \cup {NoBranch}, begins : SUBSET Branch]

Policies == [type : {"reviewers", "build", "other"}, enabled : BOOLEAN, deleted : BOOLEAN,
             blocking : BOOLEAN, approvers : Nat, creatorVotes : BOOLEAN, scope : SUBSET Scope]

World == [branch : Branch \cup {NoBranch, Absent}, policies : SUBSET Policy]

Call == {"repositories", "policies"}

Init == InitWith(World, Call)

\* Both calls are made, whatever becomes of the first.
ReadRepositories == Get("repositories", world.branch)
ReadPolicies == heard["repositories"] # Unasked /\ Get("policies", world.policies)

\* A mutant of RefNameMatches: matchKind DefaultBranch is compared as Exact.
RefNameMatchesExactly(s, b) ==
  IF s.matchKind = "Prefix" THEN b \in s.begins ELSE s.equals = b

RefNameMatches(s, b) ==
  \/ s.matchKind = "DefaultBranch"
  \/ s.matchKind = "Prefix" /\ b \in s.begins
  \/ s.matchKind = "Exact" /\ s.equals = b

PolicyScopeMatches(scopes, b) ==
  \E s \in scopes : s.repository # "other" /\ RefNameMatches(s, b)

MatchingPolicies(policies, b) ==
  {p \in policies : p.enabled /\ ~p.deleted /\ PolicyScopeMatches(p.scope, b)}

Matching == MatchingPolicies(heard["policies"], heard["repositories"])
-----------------------------------------------------------------------------
ProtectionExists == PassIf(\E p \in Matching : p.type \in {"reviewers", "build"})

\* A mutant of RequiredReviews: blocking and creatorVoteCounts of different policies.
RequiredReviewsMixed ==
  LET required == {p \in Matching : p.type = "reviewers" /\ p.approvers >= 1} IN
  CASE required = {} -> Fail
    [] /\ \E p \in required : p.blocking
       /\ \E p \in required : ~p.creatorVotes -> Pass
    [] OTHER -> Partial

RequiredReviews ==
  LET required == {p \in Matching : p.type = "reviewers" /\ p.approvers >= 1} IN
  CASE required = {} -> Fail
    [] \E p \in required : p.blocking /\ ~p.creatorVotes -> Pass
    [] OTHER -> Partial

RequiredStatusChecks ==
  LET required == {p \in Matching : p.type = "build"} IN
  CASE required = {} -> Fail
    [] \E p \in required : p.blocking -> Pass
    [] OTHER -> Partial

\* checkAdminEnforced, checkForcePushBlocked, checkDeletionBlocked: fixed answers.
PolicyDriven == {"protection-exists", "required-reviews", "required-status-checks"}

Verdict(c) ==
  CASE c = "protection-exists"      -> ProtectionExists
    [] c = "required-reviews"       -> RequiredReviews
    [] c = "required-status-checks" -> RequiredStatusChecks
    [] OTHER                        -> NotCheckable

GiveUp ==
  /\ heard["policies"] # Unasked
  /\ \/ heard["repositories"] \in {Failed, Absent, NoBranch}
     \/ heard["policies"] = Failed
  /\ Emit(AllNotCheckable)

Decide ==
  /\ Got("policies")
  /\ heard["repositories"] \in Branch
  /\ Emit([c \in Check |-> Verdict(c)])

Edit == Change({[world EXCEPT !.branch = b] : b \in Branch}
          \cup {[world EXCEPT !.policies = @ \cup {p}] : p \in Policy}
          \cup {[world EXCEPT !.policies = @ \ {p}] : p \in Policy})

Next == ReadRepositories \/ ReadPolicies \/ GiveUp \/ Decide \/ Edit

Spec == Init /\ [][Next]_vars
-----------------------------------------------------------------------------
TypeOK == Typed(World, Call)

(***************************************************************************)
(* What Azure DevOps lets happen: every policy in force on the branch is a *)
(* gate of its own; one that does not block can be overridden when the     *)
(* pull request is completed, and some count the author's own vote.        *)
(***************************************************************************)
Covers(p, b) ==
  /\ p.enabled /\ ~p.deleted
  /\ \E s \in p.scope :
       /\ s.repository \in {"this", "any"}
       /\ CASE s.matchKind = "DefaultBranch" -> TRUE
            [] s.matchKind = "Prefix"        -> b \in s.begins
            [] s.matchKind = "Exact"         -> b = s.equals

Asks(p, what) ==
  CASE what = "review" -> p.type = "reviewers" /\ p.approvers >= 1
    [] what = "checks" -> p.type = "build"

Stops(w, b, what) ==
  \E p \in w.policies :
    Covers(p, b) /\ Asks(p, what) /\ p.blocking /\ (what = "review" => ~p.creatorVotes)

Wanted(w, b, what) == \E p \in w.policies : Covers(p, b) /\ Asks(p, what)

Answers == {"required-reviews", "required-status-checks"}

(***************************************************************************)
(* A verified-pass tells of a gate nobody can go round (administrators     *)
(* with a bypass permission apart) on a branch that was the default one    *)
(* during the scan; partial, of one that asks but can be gone round; and,  *)
(* when the settings stay as they are, verified-fail of none at all.       *)
(***************************************************************************)
VerifiedIsTrue ==
  /\ \A c \in Answers :
       /\ Is(c, Pass) => \E v, w \in seen : Stops(w, v.branch, Subject[c])
       /\ Is(c, Partial) => \E v, w \in seen : Wanted(w, v.branch, Subject[c])
       /\ Quiet /\ Is(c, Partial) => ~Stops(world, world.branch, Subject[c])
       /\ Quiet /\ Is(c, Fail) => ~Wanted(world, world.branch, Subject[c])
  /\ Is("protection-exists", Pass) =>
       \E v, w \in seen : \E p \in w.policies : Covers(p, v.branch)
  /\ Quiet /\ Is("protection-exists", Fail) =>
       \A c \in Answers : ~Wanted(world, world.branch, Subject[c])

\* The checks that rest on policies are not-checkable for want of an answer only.
FailuresStayLocal ==
  \A c \in PolicyDriven : Is(c, NotCheckable) =>
    \/ Failed \in {heard["repositories"], heard["policies"]}
    \/ heard["repositories"] \in {Absent, NoBranch}
=============================================================================
