------------------------------- MODULE Surveys --------------------------------
(***************************************************************************)
(* The collectors of the other themes side by side, as in Collectors: one  *)
(* of them, over one repository or organisation, from its first call to    *)
(* its statuses.                                                           *)
(***************************************************************************)
EXTENDS Observation

CONSTANTS Pages, Environment, Depth,                           \* C01, C03 and C04
          Tool, CodeQL, Release, Run, History, Lookback, WindowStart, \* as in RunHistory
          Settings,                                            \* the settings each collector may meet at first
          MaxFailures, Disabled,                               \* as in Survey
          MaxLookups, Reusable, MaxResolved,                   \* C07 and C08 on GitHub
          Ecosystem, Actions, NoConfig,                        \* C06 on GitHub
          Pipeline, Grace,                                     \* C05 to C07 on Azure DevOps
          Unusable, Job, JobHistory, MaxJobs, Manifest         \* C05, C06 and C08 on GitLab

VARIABLE collector \* which one this is, by its directory under internal/collect

C01       == INSTANCE OrgSecurity
C03       == INSTANCE EnvSeparation
C04       == INSTANCE SecretsHygiene
GitHubC06 == INSTANCE GitHubSca
AzureC06  == INSTANCE AzureSca
GitLabC06 == INSTANCE GitLabSca
C07       == INSTANCE Provenance
AzureC07  == INSTANCE AzureProvenance
C08       == INSTANCE ActionsSecurity
C09       == INSTANCE AuditLogging
C10       == INSTANCE Disclosure

ASSUME DepthAssumption == Depth \in Nat

\* Pages are numbered from one, without a gap.
ASSUME PagesAssumption == Pages \subseteq Nat \ {0} /\ \A p \in Pages : 1..p \subseteq Pages

\* What says that a call was not made, or failed, is not an answer.
ASSUME MarkersAssumption ==
  /\ Unasked # Failed
  /\ TRUE \notin {Unasked, Failed}
  /\ {"none", "folder", "unreadable", "vague", "mention", "channel", "there", "absent", "visible", "invisible",
      "on", "off", "gated", "weak", "strong", "review",
      "verified", "unverified", "blank", "404"} \cap {Unasked, Failed} = {}

ASSUME HistoryAssumption ==
  /\ Release \subseteq GitHubC06!Releases
  /\ Run \subseteq GitHubC06!Runs
  /\ History \subseteq GitHubC06!Histories
  /\ CodeQL \notin Tool
  /\ Lookback \in Nat \ {0}
  /\ WindowStart \in Nat

ASSUME PipelineAssumption == Pipeline \subseteq AzureC06!Pipelines

ASSUME JobAssumption ==
  /\ Job \subseteq GitLabC06!Jobs
  /\ JobHistory \subseteq GitLabC06!JobHistories
  /\ \A h \in JobHistory :
       /\ IsFiniteSet(h.jobs)
       /\ \A j, k \in h.jobs : j.id = k.id => j = k
  /\ MaxJobs \in Nat

ASSUME SettingsAssumption ==
  /\ Settings["github/orgsecurity"] \subseteq C01!GitHubWorlds
  /\ Settings["azuredevops/orgsecurity"] \subseteq C01!AzureWorlds
  /\ Settings["gitlab/orgsecurity"] \subseteq C01!GitLabWorlds
  /\ Settings["github/envseparation"] \subseteq C03!GitHubWorlds
  /\ Settings["azuredevops/envseparation"] \subseteq C03!AzureWorlds
  /\ Settings["gitlab/envseparation"] \subseteq C03!GitLabWorlds
  /\ Settings["github/secretshygiene"] \subseteq C04!GitHubWorlds
  /\ Settings["azuredevops/secretshygiene"] \subseteq C04!AzureWorlds
  /\ Settings["gitlab/secretshygiene"] \subseteq C04!GitLabWorlds
  /\ Settings["github/scahistory"] \subseteq GitHubC06!Worlds
  /\ Settings["azuredevops/scahistory"] \subseteq AzureC06!Worlds
  /\ Settings["gitlab/scahistory"] \subseteq GitLabC06!Worlds
  /\ Settings["github/provenance"] \subseteq C07!GitHubWorlds
  /\ Settings["azuredevops/provenance"] \subseteq AzureC07!Worlds
  /\ Settings["gitlab/provenance"] \subseteq C07!GitLabWorlds
  /\ Settings["github/actionssecurity"] \subseteq C08!GitHubWorlds
  /\ Settings["azuredevops/pipelinesecurity"] \subseteq C08!AzureWorlds
  /\ Settings["gitlab/actionssecurity"] \subseteq C08!GitLabWorlds
  /\ Settings["github/auditlogging"] \subseteq C09!GitHubWorlds
  /\ Settings["azuredevops/auditlogging"] \subseteq C09!AzureWorlds
  /\ Settings["gitlab/auditlogging"] \subseteq C09!GitLabWorlds
  /\ Settings["github/vdp"] \subseteq C10!GitHubWorlds
  /\ Settings["azuredevops/vdp"] \subseteq C10!AzureWorlds
  /\ Settings["gitlab/vdp"] \subseteq C10!GitLabWorlds
  /\ Settings["gogs/vdp"] \subseteq C10!GogsWorlds

Init ==
  \/ collector = "github/orgsecurity" /\ C01!GitHubInit
  \/ collector = "azuredevops/orgsecurity" /\ C01!AzureInit
  \/ collector = "gitlab/orgsecurity" /\ C01!GitLabInit
  \/ collector = "github/envseparation" /\ C03!GitHubInit
  \/ collector = "azuredevops/envseparation" /\ C03!AzureInit
  \/ collector = "gitlab/envseparation" /\ C03!GitLabInit
  \/ collector = "github/secretshygiene" /\ C04!GitHubInit
  \/ collector = "azuredevops/secretshygiene" /\ C04!AzureInit
  \/ collector = "gitlab/secretshygiene" /\ C04!GitLabInit
  \/ collector = "github/scahistory" /\ GitHubC06!Init
  \/ collector = "azuredevops/scahistory" /\ AzureC06!ScaInit
  \/ collector = "gitlab/scahistory" /\ GitLabC06!ScaInit
  \/ collector = "github/provenance" /\ C07!GitHubInit
  \/ collector = "azuredevops/provenance" /\ AzureC07!ProvInit
  \/ collector = "gitlab/provenance" /\ C07!GitLabInit
  \/ collector = "github/actionssecurity" /\ C08!GitHubInit
  \/ collector = "azuredevops/pipelinesecurity" /\ C08!AzureInit
  \/ collector = "gitlab/actionssecurity" /\ C08!GitLabInit
  \/ collector = "github/auditlogging" /\ C09!GitHubInit
  \/ collector = "azuredevops/auditlogging" /\ C09!AzureInit
  \/ collector = "gitlab/auditlogging" /\ C09!GitLabInit
  \/ collector = "github/vdp" /\ C10!GitHubInit
  \/ collector = "azuredevops/vdp" /\ C10!AzureInit
  \/ collector = "gitlab/vdp" /\ C10!GitLabInit
  \/ collector = "gogs/vdp" /\ C10!GogsInit

Next ==
  /\ \/ collector = "github/orgsecurity" /\ C01!GitHubNext
     \/ collector = "azuredevops/orgsecurity" /\ C01!AzureNext
     \/ collector = "gitlab/orgsecurity" /\ C01!GitLabNext
     \/ collector = "github/envseparation" /\ C03!GitHubNext
     \/ collector = "azuredevops/envseparation" /\ C03!AzureNext
     \/ collector = "gitlab/envseparation" /\ C03!GitLabNext
     \/ collector = "github/secretshygiene" /\ C04!GitHubNext
     \/ collector = "azuredevops/secretshygiene" /\ C04!AzureNext
     \/ collector = "gitlab/secretshygiene" /\ C04!GitLabNext
     \/ collector = "github/scahistory" /\ GitHubC06!Next
     \/ collector = "azuredevops/scahistory" /\ AzureC06!ScaNext
     \/ collector = "gitlab/scahistory" /\ GitLabC06!ScaNext
     \/ collector = "github/provenance" /\ C07!GitHubNext
     \/ collector = "azuredevops/provenance" /\ AzureC07!ProvNext
     \/ collector = "gitlab/provenance" /\ C07!GitLabNext
     \/ collector = "github/actionssecurity" /\ C08!GitHubNext
     \/ collector = "azuredevops/pipelinesecurity" /\ C08!AzureNext
     \/ collector = "gitlab/actionssecurity" /\ C08!GitLabNext
     \/ collector = "github/auditlogging" /\ C09!GitHubNext
     \/ collector = "azuredevops/auditlogging" /\ C09!AzureNext
     \/ collector = "gitlab/auditlogging" /\ C09!GitLabNext
     \/ collector = "github/vdp" /\ C10!GitHubNext
     \/ collector = "azuredevops/vdp" /\ C10!AzureNext
     \/ collector = "gitlab/vdp" /\ C10!GitLabNext
     \/ collector = "gogs/vdp" /\ C10!GogsNext
  /\ UNCHANGED collector

Spec == Init /\ [][Next]_<<vars, collector>>
-----------------------------------------------------------------------------
TypeOK ==
  \/ collector = "github/orgsecurity" /\ C01!GitHubTypeOK
  \/ collector = "azuredevops/orgsecurity" /\ C01!AzureTypeOK
  \/ collector = "gitlab/orgsecurity" /\ C01!GitLabTypeOK
  \/ collector = "github/envseparation" /\ C03!GitHubTypeOK
  \/ collector = "azuredevops/envseparation" /\ C03!AzureTypeOK
  \/ collector = "gitlab/envseparation" /\ C03!GitLabTypeOK
  \/ collector = "github/secretshygiene" /\ C04!GitHubTypeOK
  \/ collector = "azuredevops/secretshygiene" /\ C04!AzureTypeOK
  \/ collector = "gitlab/secretshygiene" /\ C04!GitLabTypeOK
  \/ collector = "github/scahistory" /\ GitHubC06!TypeOK
  \/ collector = "azuredevops/scahistory" /\ AzureC06!ScaTypeOK
  \/ collector = "gitlab/scahistory" /\ GitLabC06!ScaTypeOK
  \/ collector = "github/provenance" /\ C07!GitHubTypeOK
  \/ collector = "azuredevops/provenance" /\ AzureC07!ProvTypeOK
  \/ collector = "gitlab/provenance" /\ C07!GitLabTypeOK
  \/ collector = "github/actionssecurity" /\ C08!GitHubTypeOK
  \/ collector = "azuredevops/pipelinesecurity" /\ C08!AzureTypeOK
  \/ collector = "gitlab/actionssecurity" /\ C08!GitLabTypeOK
  \/ collector = "github/auditlogging" /\ C09!GitHubTypeOK
  \/ collector = "azuredevops/auditlogging" /\ C09!AzureTypeOK
  \/ collector = "gitlab/auditlogging" /\ C09!GitLabTypeOK
  \/ collector = "github/vdp" /\ C10!GitHubTypeOK
  \/ collector = "azuredevops/vdp" /\ C10!AzureTypeOK
  \/ collector = "gitlab/vdp" /\ C10!GitLabTypeOK
  \/ collector = "gogs/vdp" /\ C10!GogsTypeOK

(***************************************************************************)
(* Every status is one its check declares, and either what the published   *)
(* rubric says of it is true of the settings, whichever calls failed, or   *)
(* it is one of the departures that the collector's module names           *)
(* (Deviates): a pass and a fail have their reason in the world, and a     *)
(* not-checkable in an answer that is missing or in a setting that leaves  *)
(* nothing to judge.                                                       *)
(***************************************************************************)
RubricOrDeviation ==
  /\ collector = "github/orgsecurity" => C01!GitHubRubricHolds
  /\ collector = "azuredevops/orgsecurity" => C01!AzureRubricHolds
  /\ collector = "gitlab/orgsecurity" => C01!GitLabRubricHolds
  /\ collector = "github/envseparation" => C03!GitHubRubricHolds
  /\ collector = "azuredevops/envseparation" => C03!AzureRubricHolds
  /\ collector = "gitlab/envseparation" => C03!GitLabRubricHolds
  /\ collector = "github/secretshygiene" => C04!GitHubAccountedFor
  /\ collector = "azuredevops/secretshygiene" => C04!AzureAccountedFor
  /\ collector = "gitlab/secretshygiene" => C04!GitLabRubricHolds
  /\ collector = "github/scahistory" => GitHubC06!AccountedFor
  /\ collector = "azuredevops/scahistory" => AzureC06!AccountedFor
  /\ collector = "gitlab/scahistory" => GitLabC06!AccountedFor
  /\ collector = "github/provenance" => C07!GitHubAccountedFor
  /\ collector = "azuredevops/provenance" => AzureC07!AccountedFor
  /\ collector = "gitlab/provenance" => C07!GitLabRubricHolds
  /\ collector = "github/actionssecurity" => C08!GitHubAccountedFor
  /\ collector = "azuredevops/pipelinesecurity" => C08!AzureRubricHolds
  /\ collector = "gitlab/actionssecurity" => C08!GitLabRubricHolds
  /\ collector = "github/auditlogging" => C09!GitHubRubricHolds
  /\ collector = "azuredevops/auditlogging" => C09!AzureRubricHolds
  /\ collector = "gitlab/auditlogging" => C09!GitLabRubricHolds
  /\ collector = "github/vdp" => C10!GitHubRubricHolds
  /\ collector = "azuredevops/vdp" => C10!AzureRubricHolds
  /\ collector = "gitlab/vdp" => C10!GitLabRubricHolds
  /\ collector = "gogs/vdp" => C10!GogsRubricHolds

(***************************************************************************)
(* The published rubrics as they stand, of three collectors that give a    *)
(* verdict on all there is when part of it was never looked at: workflows  *)
(* that could not be read (github/actionssecurity.go:139), digests not     *)
(* asked about (github/provenance.go:118), alerts without a date           *)
(* (azuredevops/scahistory.go:368).                                        *)
(***************************************************************************)
VerdictsAreWhole ==
  /\ collector = "azuredevops/scahistory" => AzureC06!RubricHolds
  /\ collector = "github/provenance" => C07!GitHubRubricHolds
  /\ collector = "github/actionssecurity" => C08!GitHubRubricHolds
=============================================================================
