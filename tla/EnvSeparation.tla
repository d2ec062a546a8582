----------------------------- MODULE EnvSeparation ----------------------------
\* C03.env-separation: the environments, and what stands before a deployment to production.
EXTENDS Survey

CONSTANTS
  Pages,       \* the pages there may be, of one environment each, on GitHub
  Environment, \* elsewhere
  Depth        \* the namespace may have so many segments, on GitLab

(***************************************************************************)
(* C03.env-separation on GitHub: the environments of a repository are      *)
(* listed page by page, and each check asks something of every one whose   *)
(* name begins with "prod" (internal/collect/github/envseparation).        *)
(***************************************************************************)

\* A rule for reviewers may name none.
Rule == {"wait_timer", "required_reviewers", "no_reviewers"}
Environments == [prod : BOOLEAN, rules : SUBSET Rule, policy : {"none", "protected", "custom", "neither"}]

GitHubWorlds == [page : [Pages -> Environments], count : Pages \cup {0}]

Checks == {"exists", "protection-rules", "required-reviewers", "branch-policy"}
GitHubCall == {"page"} \X Pages

GitHubInit == InitWith(Settings["github/envseparation"], GitHubCall)

\* What a page holds, and whether the answer names another one.
Page(p) == [envs |-> IF p <= world.count THEN {world.page[p]} ELSE {}, more |-> p < world.count]

Before(p) == {<<"page", q>> : q \in {q \in Pages : q < p}}

ReadPage(p) ==
  /\ \A c \in Before(p) : Got(c) /\ heard[c].more
  /\ Ask(<<"page", p>>, Page(p))
-----------------------------------------------------------------------------
AnyLost == \E p \in Pages : Lost(<<"page", p>>)
Ended == \E p \in Pages : Got(<<"page", p>>) /\ ~heard[<<"page", p>>].more

GitHubEnvs == UNION {heard[<<"page", p>>].envs : p \in {q \in Pages : Got(<<"page", q>>)}}
GitHubProdLike == {e \in GitHubEnvs : e.prod}

GitHubProtectionRules == IF \E e \in GitHubProdLike : e.rules = {} THEN Fail ELSE Pass

\* A mutant of GitHubRequiredReviewers: a rule that names nobody will do.
RequiredReviewersByRule ==
  IF \E e \in GitHubProdLike : e.rules \cap {"required_reviewers", "no_reviewers"} = {} THEN Fail ELSE Pass

GitHubRequiredReviewers == IF \E e \in GitHubProdLike : "required_reviewers" \notin e.rules THEN Fail ELSE Pass

GitHubBranchPolicy == IF \E e \in GitHubProdLike : e.policy \notin {"protected", "custom"} THEN Fail ELSE Pass

\* A mutant of GitHubDecide: the pages read before one was lost are judged.
DecideOnPages ==
  /\ AnyLost \/ Ended
  /\ Emit(IF GitHubEnvs = {} THEN Nothing(Checks)
          ELSE IF GitHubProdLike = {} THEN [c \in Checks |-> Partial]
          ELSE [c \in Checks |->
                 CASE c = "exists"             -> Pass
                   [] c = "protection-rules"   -> GitHubProtectionRules
                   [] c = "required-reviewers" -> GitHubRequiredReviewers
                   [] c = "branch-policy"      -> GitHubBranchPolicy])

GitHubDecide ==
  /\ AnyLost \/ Ended
  /\ Emit(IF AnyLost \/ GitHubEnvs = {} THEN Nothing(Checks)
          ELSE IF GitHubProdLike = {} THEN [c \in Checks |-> Partial]
          ELSE [c \in Checks |->
                 CASE c = "exists"             -> Pass
                   [] c = "protection-rules"   -> GitHubProtectionRules
                   [] c = "required-reviewers" -> GitHubRequiredReviewers
                   [] c = "branch-policy"      -> GitHubBranchPolicy])

GitHubNext == GitHubDecide \/ \E p \in Pages : ReadPage(p)

GitHubSpec == GitHubInit /\ [][GitHubNext]_vars
-----------------------------------------------------------------------------
GitHubTypeOK == SurveyTypeOK(GitHubWorlds, GitHubCall, Checks)

Present == {world.page[p] : p \in 1..world.count}
GitHubProduction == {e \in Present : e.prod}

GitHubRubric(c, s) ==
  \/ s = NotCheckable /\ (AnyLost \/ Present = {})
  \/ s = Partial /\ Present # {} /\ GitHubProduction = {}
  \/ /\ GitHubProduction # {}
     /\ \/ c = "exists" /\ s = Pass
        \/ /\ c = "protection-rules"
           /\ s = IF \A e \in GitHubProduction : e.rules # {} THEN Pass ELSE Fail
        \/ /\ c = "required-reviewers"
           /\ s = IF \A e \in GitHubProduction : "required_reviewers" \in e.rules THEN Pass ELSE Fail
        \/ /\ c = "branch-policy"
           /\ s = IF \E e \in GitHubProduction : e.policy \in {"none", "neither"} THEN Fail ELSE Pass

GitHubRubricHolds == status # Undecided => \A c \in Checks : GitHubRubric(c, status[c])
-----------------------------------------------------------------------------
(***************************************************************************)
(* C03.env-separation on Azure DevOps, once for the project: its           *)
(* environments, and for each one whose name begins with "prod" the checks *)
(* configured on it; the first of these that cannot be read leaves only    *)
(* the existence of such an environment to tell                            *)
(* (internal/collect/azuredevops/envseparation).                           *)
(***************************************************************************)

(***************************************************************************)
(* A check on an environment: an approval, a task check that allows        *)
(* certain branches, all of them, or no telling which, or something else.  *)
(***************************************************************************)
Kind == {"approval", "branches", "wildcard", "mixed", "uninterpretable", "other"}
Configurations == [kind : Kind, disabled : BOOLEAN]

AzureWorlds == [envs : SUBSET Environment, prod : SUBSET Environment, checks : [Environment -> SUBSET Configurations]]

AzureCall == {<<"environments">>} \cup ({"checks"} \X Environment)

AzureInit == InitWith(Settings["azuredevops/envseparation"], AzureCall)

AzureListEnvironments == Ask(<<"environments">>, world.envs)

AzureEnvs == IF Got(<<"environments">>) THEN heard[<<"environments">>] ELSE {}
AzureProdLike == AzureEnvs \cap world.prod

ChecksLost == \E e \in Environment : Lost(<<"checks", e>>)

ReadChecks(e) == e \in AzureProdLike /\ ~ChecksLost /\ Ask(<<"checks", e>>, world.checks[e])
-----------------------------------------------------------------------------
\* A mutant of Enabled: one that is switched off still counts.
EnabledAnyway(e) == {k.kind : k \in heard[<<"checks", e>>]}

Enabled(e) == {k.kind : k \in {j \in heard[<<"checks", e>>] : ~j.disabled}}

AzureProtectionRules == IF \E e \in AzureProdLike : Enabled(e) = {} THEN Fail ELSE Pass
AzureRequiredReviewers == IF \E e \in AzureProdLike : "approval" \notin Enabled(e) THEN Fail ELSE Pass

\* A list with a wildcard anywhere in it allows every branch.
TaskChecks == {"branches", "wildcard", "mixed", "uninterpretable"}
Restricts(kind) == kind = "branches"

\* A mutant of Policy: a task check restricts the branches, whatever it says.
PolicyByPresence(e) == IF Enabled(e) \cap TaskChecks = {} THEN "absent" ELSE "configured"

Policy(e) ==
  IF Enabled(e) \cap TaskChecks = {} THEN "absent"
  ELSE IF \E k \in Enabled(e) : Restricts(k) THEN "configured"
  ELSE "ambiguous"

AzureBranchPolicy ==
  IF \E e \in AzureProdLike : Policy(e) = "absent" THEN Fail
  ELSE IF \E e \in AzureProdLike : Policy(e) = "ambiguous" THEN Partial
  ELSE Pass

AzureDecide ==
  /\ Heard({<<"environments">>}) /\ (ChecksLost \/ Heard({"checks"} \X AzureProdLike))
  /\ Emit(IF AzureEnvs = {} THEN Nothing(Checks)
          ELSE IF AzureProdLike = {} THEN [c \in Checks |-> Partial]
          ELSE [c \in Checks |->
                 CASE c = "exists"             -> Pass
                   [] c # "exists" /\ ChecksLost -> NotCheckable
                   [] c = "protection-rules"   /\ ~ChecksLost -> AzureProtectionRules
                   [] c = "required-reviewers" /\ ~ChecksLost -> AzureRequiredReviewers
                   [] c = "branch-policy"      /\ ~ChecksLost -> AzureBranchPolicy])

AzureNext == AzureListEnvironments \/ AzureDecide \/ \E e \in Environment : ReadChecks(e)

AzureSpec == AzureInit /\ [][AzureNext]_vars
-----------------------------------------------------------------------------
AzureTypeOK == SurveyTypeOK(AzureWorlds, AzureCall, Checks)

AzureProduction == world.envs \cap world.prod
Live(e) == {k.kind : k \in {j \in world.checks[e] : ~j.disabled}}

AzureRubric(c, s) ==
  \/ s = NotCheckable /\ (world.envs = {} \/ Lost(<<"environments">>))
  \/ s = NotCheckable /\ c # "exists" /\ ChecksLost
  \/ s = Partial /\ world.envs # {} /\ AzureProduction = {}
  \/ /\ AzureProduction # {}
     /\ \/ c = "exists" /\ s = Pass
        \/ /\ c = "protection-rules"
           /\ s = IF \A e \in AzureProduction : Live(e) # {} THEN Pass ELSE Fail
        \/ /\ c = "required-reviewers"
           /\ s = IF \A e \in AzureProduction : "approval" \in Live(e) THEN Pass ELSE Fail
        \/ /\ c = "branch-policy"
           /\ \/ s = Pass /\ \A e \in AzureProduction : "branches" \in Live(e)
              \/ s = Fail /\ \E e \in AzureProduction : Live(e) \subseteq {"approval", "other"}
              \/ /\ s = Partial
                 /\ \A e \in AzureProduction : Live(e) \cap TaskChecks # {}
                 /\ \E e \in AzureProduction : "branches" \notin Live(e)

AzureRubricHolds == status # Undecided => \A c \in Checks : AzureRubric(c, status[c])
-----------------------------------------------------------------------------
(***************************************************************************)
(* C03.env-separation on GitLab: an environment is protected in its own    *)
(* project, by name, or in a group above it, by deployment tier.  The      *)
(* groups are asked, from the nearest to the topmost, only if the project  *)
(* does not settle it, and one of them that does not answer leaves a blind *)
(* spot (internal/collect/gitlab/envseparation).                           *)
(***************************************************************************)

Tier == {"production", "staging"}
Protection == {"none", "bare", "approval"}

\* What a group protects; an entry may come without the tier it is for.
Entries == [tier : Tier \cup {""}, approval : BOOLEAN]

(***************************************************************************)
(* There may be no group by a path (404), be it that there is none or that *)
(* it is hidden from the token.                                            *)
(***************************************************************************)
GitLabWorlds == [envs : SUBSET Environment, prod : SUBSET Environment, tier : [Environment -> Tier \cup {""}],
                 protected : [Environment -> Protection], depth : 1..Depth,
                 group : [1..Depth -> (SUBSET Entries) \cup {Disabled}]]

GitLabCall == {<<"client">>, <<"environments">>, <<"protected">>} \cup ({"group"} \X (1..Depth))

GitLabInit == InitWith(Settings["gitlab/envseparation"], GitLabCall)

NewClient == Ask(<<"client">>, TRUE)
GitLabListEnvironments == Got(<<"client">>) /\ Ask(<<"environments">>, world.envs)

GitLabEnvs == IF Got(<<"environments">>) THEN heard[<<"environments">>] ELSE {}
GitLabProdLike == GitLabEnvs \cap world.prod

ReadProtected == GitLabProdLike # {} /\ Ask(<<"protected">>, world.protected)

\* A mutant of NeedsGroup: an environment protected by its project is settled.
NeedsGroupIfBare ==
  Got(<<"protected">>) /\ \E e \in GitLabProdLike : heard[<<"protected">>][e] = "none"

NeedsGroup ==
  Got(<<"protected">>) /\ \E e \in GitLabProdLike : heard[<<"protected">>][e] # "approval"

\* The nearest group has the longest path.
Segments == 1..world.depth

ReadGroup(n) ==
  /\ NeedsGroup /\ n \in Segments
  /\ Heard({"group"} \X (n + 1..world.depth))
  /\ Ask(<<"group", n>>, world.group[n])

AllRead ==
  \/ Lost(<<"client">>) \/ Lost(<<"environments">>) \/ Lost(<<"protected">>)
  \/ /\ Got(<<"environments">>)
     /\ \/ GitLabProdLike = {}
        \/ Got(<<"protected">>) /\ (NeedsGroup => Heard({"group"} \X Segments))
-----------------------------------------------------------------------------
\* Of two entries for a tier, one that asks for approval is kept.
ByTier ==
  LET read == {n \in Segments : Got(<<"group", n>>) /\ heard[<<"group", n>>] # Disabled}
  IN {e \in UNION {heard[<<"group", n>>] : n \in read} : e.tier # ""}

\* A mutant of Blocked: a path that is not found never hides a group.
BlockedByErrors == {n \in Segments : Lost(<<"group", n>>)}

\* Only of a path with several segments is it certain that there are groups.
Blocked ==
  {n \in Segments : \/ Lost(<<"group", n>>)
                    \/ Got(<<"group", n>>) /\ heard[<<"group", n>>] = Disabled /\ world.depth > 1}

GroupProtects(e) == \E g \in ByTier : g.tier = world.tier[e]
GroupApproves(e) == \E g \in ByTier : g.tier = world.tier[e] /\ g.approval

GitLabProtectionRules ==
  IF \E e \in GitLabProdLike : heard[<<"protected">>][e] = "none" /\ ~GroupProtects(e) THEN Fail ELSE Pass

\* A rule that is stored is not known to be enforced.
GitLabRequiredReviewers ==
  IF \E e \in GitLabProdLike : heard[<<"protected">>][e] # "approval" /\ ~GroupApproves(e) THEN Fail ELSE Partial

GitLabBranchPolicy == NotCheckable

GitLabDecide ==
  /\ AllRead
  /\ Emit([c \in Checks |->
       CASE c = "branch-policy" -> GitLabBranchPolicy
         [] c # "branch-policy" /\ GitLabEnvs = {} -> NotCheckable
         [] c # "branch-policy" /\ GitLabEnvs # {} /\ GitLabProdLike = {} -> Partial
         [] c = "exists" /\ GitLabProdLike # {} -> Pass
         [] c \in {"protection-rules", "required-reviewers"} /\ Lost(<<"protected">>) -> NotCheckable
         [] c = "protection-rules" /\ Got(<<"protected">>) -> GitLabProtectionRules
         [] c = "required-reviewers" /\ Got(<<"protected">>) -> GitLabRequiredReviewers])

GitLabNext ==
  \/ NewClient \/ GitLabListEnvironments \/ ReadProtected \/ GitLabDecide
  \/ \E n \in 1..Depth : ReadGroup(n)

GitLabSpec == GitLabInit /\ [][GitLabNext]_vars
-----------------------------------------------------------------------------
GitLabTypeOK == SurveyTypeOK(GitLabWorlds, GitLabCall, Checks)

GitLabProduction == world.envs \cap world.prod
Above(e) ==
  {g \in UNION {world.group[n] : n \in {m \in Segments : world.group[m] # Disabled}} :
     g.tier = world.tier[e] /\ g.tier # ""}

Protected(e) == world.protected[e] # "none" \/ Above(e) # {}
Approved(e) == world.protected[e] = "approval" \/ \E g \in Above(e) : g.approval

(***************************************************************************)
(* A fail of the two checks that look at groups names the paths it could   *)
(* not read: with none, it is one of the whole namespace.                  *)
(***************************************************************************)
GitLabRubric(c, s) ==
  \/ c = "branch-policy" /\ s = NotCheckable
  \/ /\ c # "branch-policy"
     /\ \/ s = NotCheckable /\ (world.envs = {} \/ Lost(<<"client">>) \/ Lost(<<"environments">>))
        \/ s = NotCheckable /\ c # "exists" /\ Lost(<<"protected">>)
        \/ s = Partial /\ world.envs # {} /\ GitLabProduction = {}
        \/ c = "exists" /\ s = Pass /\ GitLabProduction # {}
  \/ /\ c = "protection-rules" /\ GitLabProduction # {}
     /\ \/ s = Pass /\ \A e \in GitLabProduction : Protected(e)
        \/ s = Fail /\ (Blocked # {} \/ \E e \in GitLabProduction : ~Protected(e))
  \/ /\ c = "required-reviewers" /\ GitLabProduction # {}
     /\ \/ s = Partial /\ \A e \in GitLabProduction : Approved(e)
        \/ s = Fail /\ (Blocked # {} \/ \E e \in GitLabProduction : ~Approved(e))

(***************************************************************************)
(* A 404 above a nested namespace, where there must be a group, is named   *)
(* as a blind spot: a fail without one has read every group there is.      *)
(***************************************************************************)
BlindSpotsAreNamed ==
  (\E c \in {"protection-rules", "required-reviewers"} : Is(c, Fail)) /\ Blocked = {} /\ world.depth > 1
  => \A n \in Segments : world.group[n] # Disabled

GitLabRubricHolds == status # Undecided => (\A c \in Checks : GitLabRubric(c, status[c])) /\ BlindSpotsAreNamed
=============================================================================
