------------------------------ MODULE OrgSecurity -----------------------------
\* C01.org-security: who may come into the organisation and what a member may do there.
EXTENDS Survey

CONSTANT Pages \* of members without a second factor, on GitHub

(***************************************************************************)
(* C01.org-security on GitHub: the organisation is read once for three of  *)
(* the checks, any of whose fields the answer may leave out, and the       *)
(* members without a second factor are listed for the fourth, page by page *)
(* (internal/collect/github/orgsecurity).                                  *)
(***************************************************************************)

Absent == "absent"
Permission == {"none", "read", "write", "admin", "other", Absent}
Flag == {"yes", "no", Absent}

Orgs == [twoFactor : Flag, permission : Permission, createPublic : Flag]
GitHubWorlds == [personal : BOOLEAN, org : Orgs, without : [Pages -> BOOLEAN], last : Pages]

Checks == {"2fa-required", "members-without-2fa", "default-repo-permission", "members-can-create-public"}
GitHubCall == {<<"org">>} \cup ({"members"} \X Pages)

GitHubInit == InitWith(Settings["github/orgsecurity"], GitHubCall)

ReadOrg == ~world.personal /\ Ask(<<"org">>, world.org)

\* A page says whether anyone is on it and whether it is the last.
ListMembers(p) ==
  /\ Got(<<"org">>)
  /\ \A q \in Pages : q < p => Got(<<"members", q>>) /\ ~heard[<<"members", q>>].last
  /\ Ask(<<"members", p>>, [anyone |-> world.without[p], last |-> p = world.last])

MembersLost == \E p \in Pages : Lost(<<"members", p>>)
MembersRead == \E p \in Pages : Got(<<"members", p>>) /\ heard[<<"members", p>>].last
-----------------------------------------------------------------------------
org == heard[<<"org">>]

GitHubTwoFactorRequired ==
  CASE org.twoFactor = Absent -> NotCheckable
    [] org.twoFactor = "yes"  -> Pass
    [] org.twoFactor = "no"   -> Fail

\* A mutant of GitHubDefaultRepoPermission: what is not known to be restrictive fails.
DefaultRepoPermissionOrFail ==
  CASE org.permission = Absent            -> NotCheckable
    [] org.permission \in {"none", "read"} -> Pass
    [] OTHER                              -> Fail

GitHubDefaultRepoPermission ==
  CASE org.permission \in {"none", "read"}   -> Pass
    [] org.permission \in {"write", "admin"} -> Fail
    [] OTHER                                 -> NotCheckable

GitHubMembersCanCreatePublic ==
  CASE org.createPublic = Absent -> NotCheckable
    [] org.createPublic = "yes"  -> Fail
    [] org.createPublic = "no"   -> Pass

\* A mutant of GitHubMembersWithout2FA: the pages before one that was lost are all there is.
MembersWithout2FAOnPages ==
  IF \E p \in Pages : Got(<<"members", p>>) /\ heard[<<"members", p>>].anyone THEN Fail ELSE Pass

GitHubMembersWithout2FA ==
  IF MembersLost THEN NotCheckable
  ELSE IF \E p \in Pages : Got(<<"members", p>>) /\ heard[<<"members", p>>].anyone THEN Fail
  ELSE Pass

GitHubGiveUp == world.personal \/ Lost(<<"org">>)

GitHubDecide ==
  \/ GitHubGiveUp /\ Emit(Nothing(Checks))
  \/ /\ MembersLost \/ MembersRead
     /\ Emit([c \in Checks |->
          CASE c = "2fa-required"              -> GitHubTwoFactorRequired
            [] c = "default-repo-permission"   -> GitHubDefaultRepoPermission
            [] c = "members-can-create-public" -> GitHubMembersCanCreatePublic
            [] c = "members-without-2fa"       -> GitHubMembersWithout2FA])

GitHubNext == ReadOrg \/ GitHubDecide \/ \E p \in Pages : ListMembers(p)

GitHubSpec == GitHubInit /\ [][GitHubNext]_vars
-----------------------------------------------------------------------------
GitHubTypeOK == SurveyTypeOK(GitHubWorlds, GitHubCall, Checks)

GitHubRubric(c, s) ==
  \/ s = NotCheckable /\ GitHubGiveUp
  \/ /\ c = "2fa-required"
     /\ world.org.twoFactor = CASE s = Pass -> "yes" [] s = Fail -> "no" [] s = NotCheckable -> Absent
  \/ /\ c = "default-repo-permission"
     /\ world.org.permission \in
          CASE s = Pass -> {"none", "read"} [] s = Fail -> {"write", "admin"} [] s = NotCheckable -> {"other", Absent}
  \/ /\ c = "members-can-create-public"
     /\ world.org.createPublic = CASE s = Pass -> "no" [] s = Fail -> "yes" [] s = NotCheckable -> Absent
  \/ /\ c = "members-without-2fa"
     /\ LET some == \E p \in 1..world.last : world.without[p]
        IN \/ s = Pass /\ ~some
           \/ s = Fail /\ some
           \/ s = NotCheckable /\ MembersLost

GitHubRubricHolds == status # Undecided => \A c \in Checks : GitHubRubric(c, status[c])
-----------------------------------------------------------------------------
(***************************************************************************)
(* C01.org-security on Azure DevOps: where the members of the organisation *)
(* authenticate, and whether any of its projects is public.  Neither       *)
(* listing is needed by the other, and neither can ever prove a pass       *)
(* (internal/collect/azuredevops/orgsecurity).                             *)
(***************************************************************************)

\* A person comes from Entra ID, has an account of their own, or neither; "vsts" is the service itself.
Users == [person : BOOLEAN, origin : {"aad", "msa", "vsts", "other"}]

AzureWorlds == [users : SUBSET Users, projects : SUBSET {"public", "private"}]

AzureCall == {<<"users">>, <<"projects">>}

AzureInit == InitWith(Settings["azuredevops/orgsecurity"], AzureCall)

ListUsers == Ask(<<"users">>, world.users)
ListProjects == Heard({<<"users">>}) /\ Ask(<<"projects">>, world.projects)
-----------------------------------------------------------------------------
\* A mutant of Origins: groups and services count as members.
OriginsOfAll(users) == {u.origin : u \in users}

Origins(users) == {u.origin : u \in {v \in users : v.person}}

\* A mutant of AzureTwoFactorRequired: what is not a personal account is one of Entra ID.
TwoFactorRequiredUnlessPersonal ==
  IF Lost(<<"users">>) THEN NotCheckable
  ELSE IF "msa" \in Origins(heard[<<"users">>]) THEN Fail
  ELSE IF "aad" \in Origins(heard[<<"users">>]) THEN Partial
  ELSE NotCheckable

AzureTwoFactorRequired ==
  IF Lost(<<"users">>) THEN NotCheckable
  ELSE IF "msa" \in Origins(heard[<<"users">>]) THEN Fail
  ELSE IF "aad" \in Origins(heard[<<"users">>]) /\ "other" \notin Origins(heard[<<"users">>]) THEN Partial
  ELSE NotCheckable

AzureMembersWithout2FA == NotCheckable
AzureDefaultRepoPermission == NotCheckable

AzureMembersCanCreatePublic ==
  IF Lost(<<"projects">>) THEN NotCheckable
  ELSE IF "public" \in heard[<<"projects">>] THEN Fail
  ELSE NotCheckable

AzureDecide ==
  /\ Heard({<<"projects">>})
  /\ Emit([c \in Checks |->
       CASE c = "2fa-required"              -> AzureTwoFactorRequired
         [] c = "members-without-2fa"       -> AzureMembersWithout2FA
         [] c = "default-repo-permission"   -> AzureDefaultRepoPermission
         [] c = "members-can-create-public" -> AzureMembersCanCreatePublic])

AzureNext == ListUsers \/ ListProjects \/ AzureDecide

AzureSpec == AzureInit /\ [][AzureNext]_vars
-----------------------------------------------------------------------------
AzureTypeOK == SurveyTypeOK(AzureWorlds, AzureCall, Checks)

People(origin) == \E u \in world.users : u.person /\ u.origin = origin

AzureRubric(c, s) ==
  \/ c \in {"members-without-2fa", "default-repo-permission"} /\ s = NotCheckable
  \/ /\ c = "2fa-required"
     /\ \/ s = Fail /\ People("msa")
        \/ s = Partial /\ People("aad") /\ ~People("msa") /\ ~People("other")
        \/ s = NotCheckable /\ (Lost(<<"users">>) \/ People("other") \/ (~People("aad") /\ ~People("msa")))
  \/ /\ c = "members-can-create-public"
     /\ \/ s = Fail /\ "public" \in world.projects
        \/ s = NotCheckable /\ (Lost(<<"projects">>) \/ "public" \notin world.projects)

AzureRubricHolds == status # Undecided => \A c \in Checks : AzureRubric(c, status[c])
-----------------------------------------------------------------------------
(***************************************************************************)
(* C01.org-security on GitLab: the group is read once; its visibility is a *)
(* ceiling on that of its projects, whoever may create them                *)
(* (internal/collect/gitlab/orgsecurity).                                  *)
(***************************************************************************)

Visibility == {"private", "internal", "public", "other"}
Creation == {"noone", "maintainer", "developer", "other"}

GitLabWorlds == [twoFactor : BOOLEAN, visibility : Visibility, creation : Creation]

GitLabCall == {<<"client">>, <<"group">>}

GitLabInit == InitWith(Settings["gitlab/orgsecurity"], GitLabCall)

NewClient == Ask(<<"client">>, TRUE)
ReadGroup == Got(<<"client">>) /\ Ask(<<"group">>, world)
-----------------------------------------------------------------------------
group == heard[<<"group">>]

GitLabTwoFactorRequired == IF group.twoFactor THEN Pass ELSE Fail

DefaultPermission ==
  CASE group.visibility \in {"private", "internal"} -> Pass
    [] group.visibility = "public"                  -> Fail
    [] group.visibility = "other"                   -> NotCheckable

\* A mutant of MembersCreatePublic: the level is asked before the ceiling.
MembersCreatePublicByLevel ==
  CASE group.creation \in {"noone", "maintainer"} -> Pass
    [] group.creation = "developer"               -> Fail
    [] group.creation = "other"                   -> NotCheckable

MembersCreatePublic ==
  CASE group.visibility \in {"private", "internal"} -> Pass
    [] group.visibility = "other"                   -> NotCheckable
    [] group.visibility = "public" ->
         CASE group.creation \in {"noone", "maintainer"} -> Pass
           [] group.creation = "developer"               -> Fail
           [] group.creation = "other"                   -> NotCheckable

GitLabMembersWithout2FA == NotCheckable

GitLabGiveUp == Lost(<<"client">>) \/ Lost(<<"group">>)

GitLabDecide ==
  \/ GitLabGiveUp /\ Emit(Nothing(Checks))
  \/ /\ Got(<<"group">>)
     /\ Emit([c \in Checks |->
          CASE c = "2fa-required"              -> GitLabTwoFactorRequired
            [] c = "default-repo-permission"   -> DefaultPermission
            [] c = "members-can-create-public" -> MembersCreatePublic
            [] c = "members-without-2fa"       -> GitLabMembersWithout2FA])

GitLabNext == NewClient \/ ReadGroup \/ GitLabDecide

GitLabSpec == GitLabInit /\ [][GitLabNext]_vars
-----------------------------------------------------------------------------
GitLabTypeOK == SurveyTypeOK(GitLabWorlds, GitLabCall, Checks)

\* What a member may do that the world can see.
CanPublish == world.visibility = "public" /\ world.creation = "developer"
Unknown == world.visibility = "other" \/ (world.visibility = "public" /\ world.creation = "other")

GitLabRubric(c, s) ==
  \/ s = NotCheckable /\ (GitLabGiveUp \/ c = "members-without-2fa")
  \/ c = "2fa-required" /\ s = IF world.twoFactor THEN Pass ELSE Fail
  \/ /\ c = "default-repo-permission"
     /\ \/ s = Pass /\ world.visibility \in {"private", "internal"}
        \/ s = Fail /\ world.visibility = "public"
        \/ s = NotCheckable /\ world.visibility = "other"
  \/ /\ c = "members-can-create-public"
     /\ \/ s = Pass /\ ~CanPublish /\ ~Unknown
        \/ s = Fail /\ CanPublish
        \/ s = NotCheckable /\ Unknown

GitLabRubricHolds == status # Undecided => \A c \in Checks : GitLabRubric(c, status[c])
=============================================================================
