---------------------------- MODULE SecretsHygiene ----------------------------
\* C04.secrets-hygiene: what watches over secrets, and secrets kept in plain sight.
EXTENDS Survey

CONSTANT Pages \* of variables, on GitLab

(***************************************************************************)
(* C04.secrets-hygiene on GitHub: what the organisation turns on for new   *)
(* repositories, and, with a client of its own, what is on in one of them. *)
(* A feature that is off is a gap only where it could be had: on github.com*)
(* it is free for a public repository and licensed for a private one, on a *)
(* server of one's own it is always licensed                               *)
(* (internal/collect/github/secretshygiene).                               *)
(***************************************************************************)

Feature == {"scanning", "push", "advanced"}
Default == {"scanning", "push", "dependabot", "advanced"}
Reported == {"enabled", "disabled", "absent"}

\* security_and_analysis may be missing from the repository altogether.
GitHubWorlds == [personal : BOOLEAN, ghes : BOOLEAN, private : BOOLEAN, alerts : BOOLEAN,
                 analysis : [Feature -> Reported] \cup {Disabled}, defaults : [Default -> Reported]]

GitHubChecks == {"scanning-enabled", "push-protection", "advanced-security", "dependabot-alerts", "security-defaults"}
GitHubRepoChecks == GitHubChecks \ {"security-defaults"}
GitHubCall == {<<"org">>, <<"repository">>, <<"alerts">>}

GitHubInit == InitWith(Settings["github/secretshygiene"], GitHubCall)

GitHubReadOrg == ~world.personal /\ Ask(<<"org">>, world.defaults)
OrgRead == world.personal \/ Heard({<<"org">>})

GitHubReadRepository ==
  OrgRead /\ Ask(<<"repository">>, [private |-> world.private, analysis |-> world.analysis])
ReadAlerts == Got(<<"repository">>) /\ Ask(<<"alerts">>, world.alerts)
-----------------------------------------------------------------------------
analysis == heard[<<"repository">>].analysis
private == heard[<<"repository">>].private

\* A mutant of Gated: the licence is asked of a public repository as well.
GatedByLicence(feature) ==
  IF analysis = Disabled THEN NotCheckable
  ELSE IF analysis[feature] = "enabled" THEN Pass
  ELSE IF analysis["advanced"] # "enabled" THEN NotCheckable
  ELSE Fail

Gated(feature) ==
  IF analysis = Disabled THEN NotCheckable
  ELSE IF analysis[feature] = "enabled" THEN Pass
  ELSE IF ~private THEN (IF world.ghes THEN NotCheckable ELSE Fail)
  ELSE IF analysis["advanced"] # "enabled" THEN NotCheckable
  ELSE Fail

SecretScanning == Gated("scanning")
GitHubPushProtection == Gated("push")

GitHubAdvancedSecurity ==
  IF ~private \/ analysis = Disabled THEN NotCheckable
  ELSE IF analysis["advanced"] = "enabled" THEN Pass
  ELSE Fail

\* A mutant of GitHubDependabotAlerts: a refusal is taken for the 404 that says "off".
DependabotAlertsIfRefused ==
  IF ~Lost(<<"alerts">>) /\ heard[<<"alerts">>] THEN Pass
  ELSE IF world.ghes THEN NotCheckable
  ELSE Fail

GitHubDependabotAlerts ==
  IF Lost(<<"alerts">>) THEN NotCheckable
  ELSE IF heard[<<"alerts">>] THEN Pass
  ELSE IF world.ghes THEN NotCheckable
  ELSE Fail

\* A field the answer leaves out is as good as off, unless all of them are left out.
GitHubSecurityDefaults ==
  IF world.personal \/ Lost(<<"org">>) THEN NotCheckable
  ELSE IF \A f \in Default : heard[<<"org">>][f] = "absent" THEN NotCheckable
  ELSE IF \A f \in Default : heard[<<"org">>][f] = "enabled" THEN Pass
  ELSE Fail

GitHubDecide ==
  /\ Lost(<<"repository">>) \/ Heard({<<"alerts">>})
  /\ Emit([c \in GitHubChecks |->
       CASE c = "security-defaults" -> GitHubSecurityDefaults
         [] c \in GitHubRepoChecks /\ Lost(<<"repository">>) -> NotCheckable
         [] c = "scanning-enabled"  /\ Got(<<"repository">>) -> SecretScanning
         [] c = "push-protection"   /\ Got(<<"repository">>) -> GitHubPushProtection
         [] c = "advanced-security" /\ Got(<<"repository">>) -> GitHubAdvancedSecurity
         [] c = "dependabot-alerts" /\ Got(<<"repository">>) -> GitHubDependabotAlerts])

GitHubNext == GitHubReadOrg \/ GitHubReadRepository \/ ReadAlerts \/ GitHubDecide

GitHubSpec == GitHubInit /\ [][GitHubNext]_vars
-----------------------------------------------------------------------------
GitHubTypeOK == SurveyTypeOK(GitHubWorlds, GitHubCall, GitHubChecks)

On(feature) == world.analysis # Disabled /\ world.analysis[feature] = "enabled"
Available(feature) == IF world.private THEN On("advanced") ELSE ~world.ghes

DefaultsThat(are) == {f \in Default : world.defaults[f] = are}

(***************************************************************************)
(* The rubrics, with what the project publishes besides of features that   *)
(* need a licence on a server of one's own (GHESNoteLicenceGated).         *)
(***************************************************************************)
GitHubRubric(c, s) ==
  \/ c # "security-defaults" /\ s = NotCheckable /\ Lost(<<"repository">>)
  \/ /\ c \in {"scanning-enabled", "push-protection"}
     /\ LET feature == IF c = "scanning-enabled" THEN "scanning" ELSE "push"
        IN \/ s = Pass /\ On(feature)
           \/ s = Fail /\ ~On(feature) /\ Available(feature)
           \/ s = NotCheckable /\ (world.analysis = Disabled \/ (~On(feature) /\ ~Available(feature)))
  \/ /\ c = "advanced-security"
     /\ \/ s = Pass /\ world.private /\ On("advanced")
        \/ s = Fail /\ world.private /\ ~On("advanced")
        \/ s = NotCheckable /\ (~world.private \/ world.analysis = Disabled)
  \/ /\ c = "dependabot-alerts"
     /\ \/ s = Pass /\ world.alerts
        \/ s = Fail /\ ~world.alerts
        \/ s = NotCheckable /\ Lost(<<"alerts">>)
  \/ /\ c = "security-defaults"
     /\ \/ s = Pass /\ DefaultsThat("enabled") = Default
        \/ s = Fail /\ DefaultsThat("disabled") # {}
        \/ s = NotCheckable /\ (Lost(<<"org">>) \/ DefaultsThat("absent") = Default)

(***************************************************************************)
(* Where the code departs from them: a default that the answer leaves out, *)
(* when others are not, fails as one that is off does; and a personal      *)
(* account, and alerts that are off on a server of one's own, are not      *)
(* judged (see checkOrgSecurityDefaults and checkDependabotAlerts).        *)
(***************************************************************************)
GitHubDeviates(c, s) ==
  \/ /\ c = "security-defaults" /\ s = Fail
     /\ DefaultsThat("disabled") = {} /\ DefaultsThat("absent") \notin {{}, Default}
  \/ c = "security-defaults" /\ s = NotCheckable /\ world.personal
  \/ c = "dependabot-alerts" /\ s = NotCheckable /\ world.ghes /\ ~world.alerts

GitHubAccounted(c, s) == GitHubRubric(c, s) \/ GitHubDeviates(c, s)

GitHubAccountedFor == status # Undecided => \A c \in GitHubChecks : GitHubAccounted(c, status[c])
-----------------------------------------------------------------------------
(***************************************************************************)
(* C04.secrets-hygiene on Azure DevOps: what the organisation turns on for *)
(* new repositories, the variable groups of the project, and what is on in *)
(* one repository, each with a client of its own                           *)
(* (internal/collect/azuredevops/secretshygiene).                          *)
(***************************************************************************)

OnCreate == {"code", "secrets", "pushes", "injection"}
AzureVariables == [sensitive : BOOLEAN, secret : BOOLEAN, empty : BOOLEAN]

\* The defaults may be left out of the answer, and so may two flags of a repository.
AzureWorlds == [defaults : (SUBSET OnCreate) \cup {Disabled}, groups : SUBSET SUBSET AzureVariables,
                code : BOOLEAN, secrets : {"on", "off", "null"}, pushes : {"on", "off", "null"}]

AzureChecks == {"scanning-enabled", "push-protection", "advanced-security", "dependabot-alerts", "security-defaults",
                "secret-hygiene"}
AzureRepoChecks == AzureChecks \ {"security-defaults", "secret-hygiene"}
AzureCall == {<<"org">>, <<"groups">>, <<"repository">>}

AzureInit == InitWith(Settings["azuredevops/secretshygiene"], AzureCall)

AzureReadOrg == Ask(<<"org">>, world.defaults)
ListGroups == Heard({<<"org">>}) /\ Ask(<<"groups">>, world.groups)
AzureReadRepository ==
  /\ Heard({<<"groups">>})
  /\ Ask(<<"repository">>, [code |-> world.code, secrets |-> world.secrets, pushes |-> world.pushes])
-----------------------------------------------------------------------------
repository == heard[<<"repository">>]

Flag(value) == CASE value = "null" -> NotCheckable [] value = "on" -> Pass [] value = "off" -> Fail

ScanningEnabled == Flag(repository.secrets)
AzurePushProtection == Flag(repository.pushes)

\* A mutant of AzureAdvancedSecurity: either of the plans will do.
AdvancedSecurityOfEither ==
  IF repository.secrets = "null" THEN NotCheckable
  ELSE IF repository.code \/ repository.secrets = "on" THEN Pass
  ELSE Fail

AzureAdvancedSecurity ==
  IF repository.secrets = "null" THEN NotCheckable
  ELSE IF repository.code /\ repository.secrets = "on" THEN Pass
  ELSE Fail

AzureDependabotAlerts == IF repository.code THEN Pass ELSE Fail

AzureSecurityDefaults ==
  IF Lost(<<"org">>) \/ heard[<<"org">>] = Disabled THEN NotCheckable
  ELSE IF heard[<<"org">>] = OnCreate THEN Pass
  ELSE Fail

\* A mutant of Plaintext: a variable that holds nothing offends too.
PlaintextOrEmpty(v) == v.sensitive /\ ~v.secret

Plaintext(v) == v.sensitive /\ ~v.secret /\ ~v.empty

SecretHygiene ==
  IF Lost(<<"groups">>) THEN NotCheckable
  ELSE IF \E g \in heard[<<"groups">>] : \E v \in g : Plaintext(v) THEN Fail
  ELSE Pass

AzureDecide ==
  /\ Heard({<<"repository">>})
  /\ Emit([c \in AzureChecks |->
       CASE c = "security-defaults" -> AzureSecurityDefaults
         [] c = "secret-hygiene"    -> SecretHygiene
         [] c \in AzureRepoChecks /\ Lost(<<"repository">>) -> NotCheckable
         [] c = "scanning-enabled"  /\ Got(<<"repository">>) -> ScanningEnabled
         [] c = "push-protection"   /\ Got(<<"repository">>) -> AzurePushProtection
         [] c = "advanced-security" /\ Got(<<"repository">>) -> AzureAdvancedSecurity
         [] c = "dependabot-alerts" /\ Got(<<"repository">>) -> AzureDependabotAlerts])

AzureNext == AzureReadOrg \/ ListGroups \/ AzureReadRepository \/ AzureDecide

AzureSpec == AzureInit /\ [][AzureNext]_vars
-----------------------------------------------------------------------------
AzureTypeOK == SurveyTypeOK(AzureWorlds, AzureCall, AzureChecks)

AzureOffends == \E v \in UNION world.groups : v.sensitive /\ ~(v.secret \/ v.empty)

AzureRubric(c, s) ==
  \/ c \in AzureRepoChecks /\ s = NotCheckable /\ Lost(<<"repository">>)
  \/ c = "scanning-enabled" /\ <<s, world.secrets>> \in {<<Pass, "on">>, <<Fail, "off">>}
  \/ c = "push-protection" /\ <<s, world.pushes>> \in {<<Pass, "on">>, <<Fail, "off">>, <<NotCheckable, "null">>}
  \/ /\ c = "advanced-security"
     /\ \/ s = Pass /\ world.code /\ world.secrets = "on"
        \/ s = Fail /\ (~world.code \/ world.secrets = "off")
  \/ c = "dependabot-alerts" /\ s = IF world.code THEN Pass ELSE Fail
  \/ /\ c = "security-defaults"
     /\ \/ s = Pass /\ world.defaults = OnCreate
        \/ s = Fail /\ world.defaults \notin {OnCreate, Disabled}
        \/ s = NotCheckable /\ (world.defaults = Disabled \/ Lost(<<"org">>))
  \/ /\ c = "secret-hygiene"
     /\ \/ s = Pass /\ ~AzureOffends
        \/ s = Fail /\ AzureOffends
        \/ s = NotCheckable /\ Lost(<<"groups">>)

\* Where the code departs from them: a flag that is null is not judged, though the rubric knows no null of it.
AzureDeviates(c, s) ==
  c \in {"scanning-enabled", "advanced-security"} /\ s = NotCheckable /\ world.secrets = "null"

AzureAccounted(c, s) == AzureRubric(c, s) \/ AzureDeviates(c, s)

AzureAccountedFor == status # Undecided => \A c \in AzureChecks : AzureAccounted(c, status[c])
-----------------------------------------------------------------------------
(***************************************************************************)
(* C04.secrets-hygiene on GitLab: the variables of the project, page by    *)
(* page; one whose name speaks of a secret and that is not masked shows    *)
(* its value in the logs of the jobs                                       *)
(* (internal/collect/gitlab/secretshygiene).                               *)
(***************************************************************************)

GitLabVariables == [sensitive : BOOLEAN, masked : BOOLEAN, empty : BOOLEAN]
GitLabWorlds == [page : [Pages -> SUBSET GitLabVariables], last : Pages]

GitLabChecks == {"secret-masking"}
GitLabCall == {<<"client">>} \cup ({"variables"} \X Pages)

GitLabInit == InitWith(Settings["gitlab/secretshygiene"], GitLabCall)

NewClient == Ask(<<"client">>, TRUE)

\* A page that cannot be read ends the listing, and what was read is dropped.
ReadPage(p) ==
  /\ Got(<<"client">>) /\ p <= world.last
  /\ \A q \in Pages : q < p => Got(<<"variables", q>>)
  /\ Ask(<<"variables", p>>, world.page[p])

AnyLost == Lost(<<"client">>) \/ \E p \in Pages : Lost(<<"variables", p>>)
AllRead == Heard({"variables"} \X (1..world.last))
-----------------------------------------------------------------------------
Unmasked(v) == v.sensitive /\ ~v.masked /\ ~v.empty

\* A mutant of SecretMasking: the first page is the whole list.
SecretMaskingOfFirst ==
  IF AnyLost THEN NotCheckable
  ELSE IF \E v \in heard[<<"variables", 1>>] : Unmasked(v) THEN Fail
  ELSE Pass

SecretMasking ==
  IF AnyLost THEN NotCheckable
  ELSE IF \E p \in 1..world.last : \E v \in heard[<<"variables", p>>] : Unmasked(v) THEN Fail
  ELSE Pass

GitLabDecide == (AnyLost \/ AllRead) /\ Emit([c \in GitLabChecks |-> SecretMasking])

GitLabNext == NewClient \/ GitLabDecide \/ \E p \in Pages : ReadPage(p)

GitLabSpec == GitLabInit /\ [][GitLabNext]_vars
-----------------------------------------------------------------------------
GitLabTypeOK == SurveyTypeOK(GitLabWorlds, GitLabCall, GitLabChecks)

GitLabOffends == \E v \in UNION {world.page[p] : p \in 1..world.last} : v.sensitive /\ ~(v.masked \/ v.empty)

GitLabRubric(c, s) ==
  \/ s = Pass /\ ~GitLabOffends
  \/ s = Fail /\ GitLabOffends
  \/ s = NotCheckable /\ AnyLost

GitLabRubricHolds == status # Undecided => \A c \in GitLabChecks : GitLabRubric(c, status[c])
=============================================================================
