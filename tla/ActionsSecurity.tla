---------------------------- MODULE ActionsSecurity ---------------------------
\* C08.actions-security: what the pipelines may do, and what they rely on.
EXTENDS Survey

CONSTANTS
  Tool,        \* the workflows of the repository, by their path, or its build definitions
  Reusable,    \* workflows of other repositories of the organisation
  MaxResolved, \* maxReusableWorkflowResolutions
  Unusable     \* a configuration GitLab could not resolve (null includes)

(***************************************************************************)
(* C08.actions-security on GitHub: the workflows of the default branch are *)
(* read, and those of the same organisation that they call, one level deep *)
(* and only so many; five checks are made on what could be read, and a     *)
(* verified-pass is withheld when something could not                      *)
(* (internal/collect/github/actionssecurity).                              *)
(***************************************************************************)

(***************************************************************************)
(* What the checks look for in a workflow: references to actions of others *)
(* and of GitHub's own, by a tag that can move or by a commit; for each of *)
(* its jobs the permissions declared; whether it runs on                   *)
(* pull_request_target and checks out the head of the request; how it logs *)
(* into a cloud; whether a job asks for a self-hosted runner; the          *)
(* workflows it calls.                                                     *)
(***************************************************************************)
Units == [refs : SUBSET {"third-tag", "third-commit", "first-tag", "first-commit"},
          permissions : (SUBSET {"missing", "explicit", "write-all"}) \ {{}},
          target : {"none", "bare", "head"}, logins : SUBSET {"oidc", "static", "ambiguous"},
          hosted : BOOLEAN, calls : SUBSET (Tool \cup Reusable)]

\* A workflow may be listed and not be on the default branch: it is disabled there.
GitHubWorlds == [private : BOOLEAN, listed : SUBSET Tool, workflow : [Tool -> Units \cup {Disabled}],
                 reusable : [Tool \cup Reusable -> Units]]

GitHubChecks == {"pinned", "token-permissions", "pull-request-target", "oidc-vs-secrets", "self-hosted"}

GitHubCall == {<<"repository">>, <<"workflows">>, <<"default">>} \cup ({"file"} \X Tool)
   \cup ({"reusable"} \X (Tool \cup Reusable))

GitHubInit == InitWith(Settings["github/actionssecurity"], GitHubCall)

ReadRepository == Ask(<<"repository">>, world.private)
ListWorkflows == Got(<<"repository">>) /\ Ask(<<"workflows">>, world.listed)

GitHubListed == heard[<<"workflows">>]

ReadFile(t) == Got(<<"workflows">>) /\ t \in GitHubListed /\ Ask(<<"file", t>>, world.workflow[t])

FilesRead == Got(<<"workflows">>) /\ Heard({<<"file", t>> : t \in GitHubListed})

\* A file that is not there (404) is no gap; every other failure is one.
Own == {t \in Tool : Got(<<"file", t>>) /\ heard[<<"file", t>>] # Disabled}

(***************************************************************************)
(* A workflow of this repository that was read is not read again, though   *)
(* it be called at another commit; one that could not be read is tried     *)
(* once more when another one calls it.                                    *)
(***************************************************************************)
Called == (UNION {heard[<<"file", t>>].calls : t \in Own}) \ Own
Resolved == {w \in Called : Got(<<"reusable", w>>)}

Resolve(w) ==
  /\ FilesRead /\ w \in Called /\ Cardinality(Resolved) < MaxResolved
  /\ Ask(<<"reusable", w>>, world.reusable[w])

AllResolved == FilesRead /\ (Heard({"reusable"} \X Called) \/ Cardinality(Resolved) = MaxResolved)

ReadDefault == AllResolved /\ Ask(<<"default">>, TRUE)
-----------------------------------------------------------------------------
Read == {heard[<<"file", t>>] : t \in Own} \cup {heard[<<"reusable", w>>] : w \in Resolved}

\* What could not be read, or was one too many.
Skipped == {t \in Tool : Lost(<<"file", t>>)} \cup (Called \ Resolved)

\* A mutant of Downgrade: a listed file that was lost is no gap.
DowngradeByCalls(s) == IF s = Pass /\ Called \ Resolved # {} THEN Partial ELSE s

Downgrade(s) == IF s = Pass /\ Skipped # {} THEN Partial ELSE s

Any(claim(_)) == \E u \in Read : claim(u)

ThirdTag(u) == "third-tag" \in u.refs
FirstTag(u) == "first-tag" \in u.refs

GitHubPinned ==
  IF Read = {} THEN NotCheckable
  ELSE IF Any(ThirdTag) THEN Fail
  ELSE IF Any(FirstTag) THEN Partial
  ELSE Downgrade(Pass)

declared == UNION {u.permissions : u \in Read}

GitHubTokenPermissions ==
  IF Read = {} THEN NotCheckable
  ELSE IF declared = {"missing"} THEN Fail
  ELSE IF "missing" \in declared \/ "write-all" \in declared THEN Partial
  ELSE Downgrade(Pass)

GitHubPullRequestTarget ==
  IF Read = {} THEN NotCheckable
  ELSE IF \E u \in Read : u.target = "head" THEN Fail
  ELSE IF \E u \in Read : u.target = "bare" THEN Partial
  ELSE Downgrade(Pass)

logins == UNION {u.logins : u \in Read}

GitHubOIDCvsSecrets ==
  IF logins = {} THEN NotCheckable
  ELSE IF "static" \in logins THEN Fail
  ELSE IF "ambiguous" \in logins THEN Partial
  ELSE Downgrade(Pass)

Hosted(u) == u.hosted

\* A mutant of GitHubSelfHosted: a private repository passes whatever could not be read.
SelfHostedIfPrivate ==
  IF Read = {} THEN NotCheckable
  ELSE IF heard[<<"repository">>] THEN Pass
  ELSE IF Any(Hosted) THEN Partial
  ELSE Downgrade(Pass)

GitHubSelfHosted ==
  IF Read = {} THEN NotCheckable
  ELSE IF Any(Hosted) THEN (IF heard[<<"repository">>] THEN Pass ELSE Partial)
  ELSE Downgrade(Pass)

GiveUp == Lost(<<"repository">>) \/ Lost(<<"workflows">>)

GitHubDecide ==
  \/ GiveUp /\ Emit(Nothing(GitHubChecks))
  \/ /\ Heard({<<"default">>})
     /\ Emit([c \in GitHubChecks |->
          CASE c = "pinned"              -> GitHubPinned
            [] c = "token-permissions"   -> GitHubTokenPermissions
            [] c = "pull-request-target" -> GitHubPullRequestTarget
            [] c = "oidc-vs-secrets"     -> GitHubOIDCvsSecrets
            [] c = "self-hosted"         -> GitHubSelfHosted])

GitHubNext ==
  \/ ReadRepository \/ ListWorkflows \/ ReadDefault \/ GitHubDecide
  \/ \E t \in Tool : ReadFile(t)
  \/ \E w \in Tool \cup Reusable : Resolve(w)

GitHubSpec == GitHubInit /\ [][GitHubNext]_vars
-----------------------------------------------------------------------------
GitHubTypeOK == SurveyTypeOK(GitHubWorlds, GitHubCall, GitHubChecks)

(***************************************************************************)
(* All there is to judge: the workflows on the default branch and those    *)
(* they call; one of this repository that could not be read is judged at   *)
(* the commit it is called at, which need not be the one on the branch.    *)
(***************************************************************************)
Present == {t \in world.listed : world.workflow[t] # Disabled}
Whole ==
  {world.workflow[t] : t \in Present}
  \cup {world.reusable[w] : w \in (UNION {world.workflow[t].calls : t \in Present})
                                   \ {t \in Present : Got(<<"file", t>>)}}

Every(claim(_)) == \A u \in Whole : claim(u)
Gap == Skipped # {}

(***************************************************************************)
(* The rubrics: what the project publishes of each status.  A violation    *)
(* found counts whatever else could not be read; that there is none, or    *)
(* only absences, counts of all there is.                                  *)
(***************************************************************************)
GitHubRubric(c, s) ==
  \/ s = NotCheckable /\ (GiveUp \/ Present \subseteq {t \in Tool : Lost(<<"file", t>>)})
  \/ /\ c = "pinned"
     /\ LET Fixed(u) == ~ThirdTag(u)
            FixedAll(u) == ~ThirdTag(u) /\ ~FirstTag(u)
        IN \/ s = Pass /\ ~Gap /\ Every(FixedAll)
           \/ s = Partial /\ ((Gap /\ ~Any(ThirdTag)) \/ (Every(Fixed) /\ ~Every(FixedAll)))
           \/ s = Fail /\ ~Every(Fixed)
  \/ /\ c = "token-permissions"
     /\ LET Scoped(u) == u.permissions = {"explicit"}
            Silent(u) == u.permissions = {"missing"}
        IN \/ s = Pass /\ ~Gap /\ Every(Scoped)
           \/ s = Partial /\ (Gap \/ ~Every(Scoped)) /\ ~Every(Silent)
           \/ s = Fail /\ Every(Silent)
  \/ /\ c = "pull-request-target"
     /\ LET Untargeted(u) == u.target = "none"
            Harmless(u) == u.target # "head"
            Harmful(u) == ~Harmless(u)
        IN \/ s = Pass /\ ~Gap /\ Every(Untargeted)
           \/ s = Partial /\ ((Gap /\ ~Any(Harmful)) \/ (Every(Harmless) /\ ~Every(Untargeted)))
           \/ s = Fail /\ ~Every(Harmless)
  \/ /\ c = "oidc-vs-secrets"
     /\ LET Without(l) == \A u \in Whole : l \notin u.logins
        IN \/ s = Pass /\ ~Gap /\ Without("static") /\ Without("ambiguous") /\ ~Without("oidc")
           \/ s = Partial /\ ((Gap /\ "static" \notin logins) \/ (Without("static") /\ ~Without("ambiguous")))
           \/ s = Fail /\ ~Without("static")
           \/ s = NotCheckable /\ logins = {} /\ (Gap \/ \A u \in Whole : u.logins = {})
  \/ /\ c = "self-hosted"
     /\ LET Unhosted(u) == ~u.hosted
        IN \/ s = Pass /\ ~Gap /\ Every(Unhosted)
           \/ s = Pass /\ world.private /\ ~Every(Unhosted)
           \/ s = Partial /\ ((Gap /\ ~Any(Hosted)) \/ (~world.private /\ ~Every(Unhosted)))

(***************************************************************************)
(* Where the code departs from them: it says that no workflow declares its *)
(* permissions when none it could read does.  The gap withholds a pass     *)
(* (Downgrade), not this fail.                                             *)
(***************************************************************************)
GitHubDeviates(c, s) ==
  c = "token-permissions" /\ s = Fail /\ Gap /\ Read # {} /\ \A u \in Read : u.permissions = {"missing"}

GitHubAccounted(c, s) == GitHubRubric(c, s) \/ GitHubDeviates(c, s)

GitHubRubricHolds == status # Undecided => \A c \in GitHubChecks : GitHubRubric(c, status[c])
GitHubAccountedFor == status # Undecided => \A c \in GitHubChecks : GitHubAccounted(c, status[c])
-----------------------------------------------------------------------------
(***************************************************************************)
(* C08.actions-security on Azure DevOps, once for the project: the general *)
(* settings of its pipelines, its service connections, and the agent pool  *)
(* of each build definition together with the project's visibility.  The   *)
(* three kinds of evidence fail independently of one another               *)
(* (internal/collect/azuredevops/pipelinesecurity).                        *)
(***************************************************************************)

Scopes == {"enforceJobAuthScope", "enforceJobAuthScopeForReleases", "enforceReferencedRepoScopedToken"}
ForkGuards == {"forkProtectionEnabled", "enforceNoAccessToSecretsFromForks"}
Flags == Scopes \cup ForkGuards \cup {"buildsEnabledForForks"}

(***************************************************************************)
(* How a service connection authenticates: by a scheme that is known to be *)
(* modern, by a secret that lives long, or in a way that is not known.     *)
(***************************************************************************)
Scheme == {"modern", "static", "unknown"}
Pool == {"hosted", "own", "unresolved"}

AzureWorlds == [flags : SUBSET Flags, schemes : SUBSET Scheme, definitions : SUBSET Tool, pool : [Tool -> Pool],
                public : BOOLEAN]

AzureChecks == {"pinned", "token-permissions", "pull-request-target", "fork-protection", "oidc-vs-secrets",
                "self-hosted"}

AzureCall == {<<c>> : c \in {"settings", "endpoints", "pipelines", "visibility"}} \cup ({"definition"} \X Tool)

AzureInit == InitWith(Settings["azuredevops/pipelinesecurity"], AzureCall)

ReadSettings == Ask(<<"settings">>, world.flags)
ReadEndpoints == Heard({<<"settings">>}) /\ Ask(<<"endpoints">>, world.schemes)
ListPipelines == Heard({<<"endpoints">>}) /\ Ask(<<"pipelines">>, world.definitions)

AzureListed == IF Got(<<"pipelines">>) THEN heard[<<"pipelines">>] ELSE {}
PoolsLost == Lost(<<"pipelines">>) \/ \E t \in AzureListed : Lost(<<"definition", t>>)

\* The first definition that cannot be read ends the enumeration.
ReadDefinition(t) == ~PoolsLost /\ t \in AzureListed /\ Ask(<<"definition", t>>, world.pool[t])

PoolsRead == PoolsLost \/ (Got(<<"pipelines">>) /\ Heard({"definition"} \X AzureListed))

ReadVisibility == PoolsRead /\ Ask(<<"visibility">>, world.public)
-----------------------------------------------------------------------------
\* Neither can be told on Azure DevOps.
AzurePinned == NotCheckable
AzurePullRequestTarget == NotCheckable

flags == heard[<<"settings">>]

AzureTokenPermissions ==
  IF Lost(<<"settings">>) THEN NotCheckable
  ELSE IF Scopes \subseteq flags THEN Pass
  ELSE IF Scopes \cap flags # {} THEN Partial
  ELSE Fail

\* A mutant of ForkProtection: what forks are kept from is asked before whether they build.
ForkProtectionByGuards ==
  IF Lost(<<"settings">>) THEN NotCheckable
  ELSE IF ForkGuards \subseteq flags THEN Pass
  ELSE IF ForkGuards \cap flags # {} THEN Partial
  ELSE Fail

ForkProtection ==
  IF Lost(<<"settings">>) THEN NotCheckable
  ELSE IF "buildsEnabledForForks" \notin flags \/ ForkGuards \subseteq flags THEN Pass
  ELSE IF ForkGuards \cap flags # {} THEN Partial
  ELSE Fail

schemes == heard[<<"endpoints">>]

AzureOIDCvsSecrets ==
  IF Lost(<<"endpoints">>) \/ schemes = {} THEN NotCheckable
  ELSE IF "static" \in schemes THEN Fail
  ELSE IF "unknown" \in schemes THEN Partial
  ELSE Pass

\* A mutant of AzureSelfHosted: the definitions read before one was lost are enough.
SelfHostedOfRead ==
  IF Lost(<<"pipelines">>) \/ Lost(<<"visibility">>) THEN NotCheckable
  ELSE IF /\ heard[<<"visibility">>]
          /\ \E t \in AzureListed : heard[<<"definition", t>>] \in {"own", "unresolved"} THEN Partial
  ELSE Pass

AzureSelfHosted ==
  IF PoolsLost \/ Lost(<<"visibility">>) THEN NotCheckable
  ELSE IF heard[<<"visibility">>] /\ \E t \in AzureListed : heard[<<"definition", t>>] # "hosted" THEN Partial
  ELSE Pass

AzureDecide ==
  /\ Heard({<<"visibility">>})
  /\ Emit([c \in AzureChecks |->
       CASE c = "pinned"              -> AzurePinned
         [] c = "token-permissions"   -> AzureTokenPermissions
         [] c = "pull-request-target" -> AzurePullRequestTarget
         [] c = "fork-protection"     -> ForkProtection
         [] c = "oidc-vs-secrets"     -> AzureOIDCvsSecrets
         [] c = "self-hosted"         -> AzureSelfHosted])

AzureNext ==
  \/ ReadSettings \/ ReadEndpoints \/ ListPipelines \/ ReadVisibility \/ AzureDecide
  \/ \E t \in Tool : ReadDefinition(t)

AzureSpec == AzureInit /\ [][AzureNext]_vars
-----------------------------------------------------------------------------
AzureTypeOK == SurveyTypeOK(AzureWorlds, AzureCall, AzureChecks)

Exposed == world.public /\ \E t \in world.definitions : world.pool[t] # "hosted"

AzureRubric(c, s) ==
  \/ s = NotCheckable /\ c \in {"pinned", "pull-request-target"}
  \/ s = NotCheckable /\ c \in {"token-permissions", "fork-protection"} /\ Lost(<<"settings">>)
  \/ /\ c = "token-permissions"
     /\ \/ s = Pass /\ Scopes \subseteq world.flags
        \/ s = Partial /\ Scopes \cap world.flags \notin {{}, Scopes}
        \/ s = Fail /\ Scopes \cap world.flags = {}
  \/ /\ c = "fork-protection"
     /\ LET forks == "buildsEnabledForForks" \in world.flags
            guards == ForkGuards \cap world.flags
        IN \/ s = Pass /\ (~forks \/ guards = ForkGuards)
           \/ s = Partial /\ forks /\ Cardinality(guards) = 1
           \/ s = Fail /\ forks /\ guards = {}
  \/ /\ c = "oidc-vs-secrets"
     /\ \/ s = Pass /\ world.schemes = {"modern"}
        \/ s = Partial /\ "unknown" \in world.schemes /\ "static" \notin world.schemes
        \/ s = Fail /\ "static" \in world.schemes
        \/ s = NotCheckable /\ (Lost(<<"endpoints">>) \/ world.schemes = {})
  \/ /\ c = "self-hosted"
     /\ \/ s = Pass /\ ~Exposed
        \/ s = Partial /\ Exposed
        \/ s = NotCheckable /\ (PoolsLost \/ Lost(<<"visibility">>))

AzureRubricHolds == status # Undecided => \A c \in AzureChecks : AzureRubric(c, status[c])
-----------------------------------------------------------------------------
(***************************************************************************)
(* C08.actions-security on GitLab: the project, its CI configuration as    *)
(* GitLab resolves it, the scope of its job tokens, its runners and its    *)
(* variables, each read whatever became of the others; several checks      *)
(* draw on two of them (internal/collect/gitlab/actionssecurity).          *)
(***************************************************************************)

(***************************************************************************)
(* The setting on pipelines of forks is left out for a token below the     *)
(* Maintainer role.  A variable that carries the name of a cloud's secret  *)
(* has a value, has one that is hidden, or is empty; most carry no such    *)
(* name ("other").                                                         *)
(***************************************************************************)
GitLabWorlds == [public : BOOLEAN, forks : {"on", "off", "absent"},
                 includes : (SUBSET {"pinned", "unpinned", "unpinnable", "unknown"}) \cup {Unusable},
                 idTokens : {"declared", "none", "unparsable"}, inbound : BOOLEAN,
                 runners : SUBSET {"project_type", "group_type"},
                 variables : SUBSET {"value", "hidden", "empty", "other"}]

GitLabChecks == {"pinned", "token-permissions", "pull-request-target", "oidc-vs-secrets", "self-hosted"}

GitLabCall == {<<c>> : c \in {"client", "project", "lint", "scope", "allowlist", "groups", "variables"}}
   \cup {<<"runners", k>> : k \in {"project_type", "group_type"}}

GitLabInit == InitWith(Settings["gitlab/actionssecurity"], GitLabCall)

NewClient == Ask(<<"client">>, TRUE)
ReadProject == Got(<<"client">>) /\ Ask(<<"project">>, [public |-> world.public, forks |-> world.forks])
Lint == Heard({<<"project">>}) /\ Ask(<<"lint">>, [includes |-> world.includes, idTokens |-> world.idTokens])
ReadScope == Heard({<<"lint">>}) /\ Ask(<<"scope">>, world.inbound)

\* Two counts that are facts only: the second is asked for when the first was read.
CountProjects == Heard({<<"scope">>}) /\ Ask(<<"allowlist">>, TRUE)
CountGroups == Got(<<"allowlist">>) /\ Ask(<<"groups">>, TRUE)
Counted == Lost(<<"allowlist">>) \/ Heard({<<"groups">>})

\* Runners of two kinds, by a call each; the first that fails is the end of it.
ListRunners(k) ==
  /\ Counted /\ (k = "group_type" => Got(<<"runners", "project_type">>))
  /\ Ask(<<"runners", k>>, k \in world.runners)

Kinds == {"project_type", "group_type"}
RunnersLost == \E k \in Kinds : Lost(<<"runners", k>>)
RunnersHeard == RunnersLost \/ Heard({"runners"} \X Kinds)
Runners == {k \in Kinds : Got(<<"runners", k>>) /\ heard[<<"runners", k>>]}

ReadVariables == RunnersHeard /\ Ask(<<"variables">>, world.variables)
-----------------------------------------------------------------------------
lint == heard[<<"lint">>]
project == heard[<<"project">>]
Unlinted == Lost(<<"lint">>) \/ lint.includes = Unusable

GitLabPinned ==
  IF Unlinted THEN NotCheckable
  ELSE IF "unpinned" \in lint.includes THEN Fail
  ELSE IF "unknown" \in lint.includes THEN Partial
  ELSE Pass

GitLabTokenPermissions == IF Lost(<<"scope">>) THEN NotCheckable ELSE IF heard[<<"scope">>] THEN Pass ELSE Fail

\* Whether the pipeline of a fork can run with what belongs to this project.
\* A mutant of ForkVerdict: a setting left out is one that is off.
ForkVerdictIfAbsent == IF project.forks = "on" /\ project.public THEN Partial ELSE Pass

ForkVerdict ==
  IF project.forks = "absent" THEN NotCheckable
  ELSE IF project.forks = "on" /\ project.public THEN Partial
  ELSE Pass

GitLabPullRequestTarget == IF Lost(<<"project">>) THEN NotCheckable ELSE ForkVerdict

\* A mutant of Static: what is returned as empty holds nothing, though it be hidden.
StaticByValue == heard[<<"variables">>] \cap {"value"} # {}

Static == heard[<<"variables">>] \cap {"value", "hidden"} # {}

GitLabOIDCvsSecrets ==
  IF Unlinted \/ lint.idTokens = "unparsable" \/ Lost(<<"variables">>) THEN NotCheckable
  ELSE IF Static THEN (IF lint.idTokens = "declared" THEN Partial ELSE Fail)
  ELSE IF lint.idTokens = "declared" THEN Pass
  ELSE NotCheckable

GitLabSelfHosted ==
  IF Lost(<<"project">>) \/ RunnersLost THEN NotCheckable
  ELSE IF Runners = {} THEN Pass
  ELSE ForkVerdict

GitLabDecide ==
  \/ Lost(<<"client">>) /\ Emit(Nothing(GitLabChecks))
  \/ /\ Heard({<<"variables">>})
     /\ Emit([c \in GitLabChecks |->
          CASE c = "pinned"              -> GitLabPinned
            [] c = "token-permissions"   -> GitLabTokenPermissions
            [] c = "pull-request-target" -> GitLabPullRequestTarget
            [] c = "oidc-vs-secrets"     -> GitLabOIDCvsSecrets
            [] c = "self-hosted"         -> GitLabSelfHosted])

GitLabNext ==
  \/ NewClient \/ ReadProject \/ Lint \/ ReadScope \/ CountProjects \/ CountGroups
  \/ \E k \in Kinds : ListRunners(k)
  \/ ReadVariables \/ GitLabDecide

GitLabSpec == GitLabInit /\ [][GitLabNext]_vars
-----------------------------------------------------------------------------
GitLabTypeOK == SurveyTypeOK(GitLabWorlds, GitLabCall, GitLabChecks)

Credential == world.variables \cap {"value", "hidden"} # {}
Reachable == world.public /\ world.forks = "on"

GitLabRubric(c, s) ==
  \/ s = NotCheckable /\ Lost(<<"client">>)
  \/ /\ c = "pinned"
     /\ \/ s = Pass /\ world.includes # Unusable /\ world.includes \subseteq {"pinned", "unpinnable"}
        \/ s = Partial /\ "unknown" \in world.includes /\ "unpinned" \notin world.includes
        \/ s = Fail /\ "unpinned" \in world.includes
        \/ s = NotCheckable /\ (Lost(<<"lint">>) \/ world.includes = Unusable)
  \/ /\ c = "token-permissions"
     /\ \/ s = Pass /\ world.inbound
        \/ s = Fail /\ ~world.inbound
        \/ s = NotCheckable /\ Lost(<<"scope">>)
  \/ /\ c = "pull-request-target"
     /\ \/ s = Pass /\ (world.forks = "off" \/ (world.forks = "on" /\ ~world.public))
        \/ s = Partial /\ Reachable
        \/ s = NotCheckable /\ (Lost(<<"project">>) \/ world.forks = "absent")
  \/ /\ c = "oidc-vs-secrets"
     /\ \/ s = Pass /\ world.idTokens = "declared" /\ ~Credential
        \/ s = Partial /\ world.idTokens = "declared" /\ Credential
        \/ s = Fail /\ world.idTokens = "none" /\ Credential
        \/ s = NotCheckable /\ \/ Lost(<<"lint">>) \/ world.includes = Unusable \/ Lost(<<"variables">>)
                               \/ world.idTokens = "unparsable" \/ (world.idTokens = "none" /\ ~Credential)
  \/ /\ c = "self-hosted"
     /\ \/ s = Pass /\ (world.runners = {} \/ world.forks = "off" \/ (world.forks = "on" /\ ~world.public))
        \/ s = Partial /\ world.runners # {} /\ Reachable
        \/ s = NotCheckable /\ \/ Lost(<<"project">>) \/ RunnersLost
                               \/ world.runners # {} /\ world.forks = "absent"

GitLabRubricHolds == status # Undecided => \A c \in GitLabChecks : GitLabRubric(c, status[c])
=============================================================================
