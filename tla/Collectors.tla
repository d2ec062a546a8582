----------------------------- MODULE Collectors ------------------------------
(***************************************************************************)
(* The collectors side by side: one of them, over one repository, from its *)
(* first call to its statuses.  Collectors share nothing but the context   *)
(* (WorkerPools, ScanRun) and each client is used by one goroutine         *)
(* (ApiCalls), so that one at a time is all there is to see.               *)
(***************************************************************************)
EXTENDS Observation

CONSTANTS Ruleset, Kind, NoLegacy,             \* GitHub
          Branch, NoBranch, Absent, Policy,    \* Azure DevOps
          Rule,                                \* GitLab
          Tool, CodeQL, Release, Run, History, \* C05, everywhere
          Lookback, WindowStart,
          Pipeline,                            \* C05, Azure DevOps
          Unusable, Job, JobHistory, MaxJobs   \* C05, GitLab

VARIABLE collector \* which one this is, by its directory under internal/collect

GitHub == INSTANCE GitHubProtection
Azure == INSTANCE AzureProtection
GitLab == INSTANCE GitLabProtection
Gogs == INSTANCE GogsProtection

GitHubC05 == INSTANCE GitHubSast
AzureC05 == INSTANCE AzureSast
GitLabC05 == INSTANCE GitLabSast

ASSUME GitHubAssumption ==
  /\ Kind \subseteq GitHub!Kinds
  /\ Ruleset \cap {"repository", "protection", "rules"} = {}

ASSUME AzureAssumption ==
  /\ Policy \subseteq Azure!Policies
  /\ Branch \cap {NoBranch, Absent, Unasked, Failed} = {}

ASSUME GitLabAssumption == Rule \subseteq GitLab!Rules

ASSUME HistoryAssumption ==
  /\ Release \subseteq GitHubC05!Releases
  /\ Run \subseteq GitHubC05!Runs
  /\ History \subseteq GitHubC05!Histories
  /\ CodeQL \notin Tool
  /\ Lookback \in Nat \ {0}
  /\ WindowStart \in Nat
  /\ {"on", "off", "gated", "none", "weak", "strong"} \cap {Unasked, Failed} = {}

ASSUME PipelineAssumption == Pipeline \subseteq AzureC05!Pipelines

ASSUME JobAssumption ==
  /\ Job \subseteq GitLabC05!Jobs
  /\ JobHistory \subseteq GitLabC05!JobHistories
  /\ \A h \in JobHistory :
       /\ IsFiniteSet(h.jobs)
       /\ \A j, k \in h.jobs : j.id = k.id => j = k
  /\ MaxJobs \in Nat

Init ==
  \/ collector = "github/repoprotection" /\ GitHub!Init
  \/ collector = "azuredevops/repoprotection" /\ Azure!Init
  \/ collector = "gitlab/repoprotection" /\ GitLab!Init
  \/ collector = "gogs/repoprotection" /\ Gogs!Init
  \/ collector = "github/sasthistory" /\ GitHubC05!Init
  \/ collector = "azuredevops/sasthistory" /\ AzureC05!Init
  \/ collector = "gitlab/sasthistory" /\ GitLabC05!Init

Next ==
  /\ \/ collector = "github/repoprotection" /\ GitHub!Next
     \/ collector = "azuredevops/repoprotection" /\ Azure!Next
     \/ collector = "gitlab/repoprotection" /\ GitLab!Next
     \/ collector = "gogs/repoprotection" /\ Gogs!Next
     \/ collector = "github/sasthistory" /\ GitHubC05!Next
     \/ collector = "azuredevops/sasthistory" /\ AzureC05!Next
     \/ collector = "gitlab/sasthistory" /\ GitLabC05!Next
  /\ UNCHANGED collector

Spec == Init /\ [][Next]_<<vars, collector>>
-----------------------------------------------------------------------------
TypeOK ==
  \/ collector = "github/repoprotection" /\ GitHub!TypeOK
  \/ collector = "azuredevops/repoprotection" /\ Azure!TypeOK
  \/ collector = "gitlab/repoprotection" /\ GitLab!TypeOK
  \/ collector = "gogs/repoprotection" /\ Gogs!TypeOK
  \/ collector = "github/sasthistory" /\ GitHubC05!TypeOK
  \/ collector = "azuredevops/sasthistory" /\ AzureC05!TypeOK
  \/ collector = "gitlab/sasthistory" /\ GitLabC05!TypeOK

(***************************************************************************)
(* No status claims what was not so: what a verified-pass, a partial or a  *)
(* verified-fail says of the repository was true of its settings during    *)
(* the scan, whichever calls failed and whatever was changed meanwhile.    *)
(* Each module says what its statuses claim and how much of it survives a  *)
(* change between two calls.                                               *)
(***************************************************************************)
VerifiedIsTrue ==
  /\ collector = "github/repoprotection" => GitHub!VerifiedIsTrue
  /\ collector = "azuredevops/repoprotection" => Azure!VerifiedIsTrue
  /\ collector = "gitlab/repoprotection" => GitLab!VerifiedIsTrue
  /\ collector = "gogs/repoprotection" => Gogs!VerifiedIsTrue
  /\ collector = "github/sasthistory" => GitHubC05!VerifiedIsTrue
  /\ collector = "azuredevops/sasthistory" => AzureC05!VerifiedIsTrue
  /\ collector = "gitlab/sasthistory" => GitLabC05!VerifiedIsTrue

(***************************************************************************)
(* A failed call makes those checks not-checkable that rest on it and no   *)
(* others: an answer in hand is never swept away with one that is missing. *)
(***************************************************************************)
FailuresStayLocal ==
  /\ collector = "github/repoprotection" => GitHub!FailuresStayLocal
  /\ collector = "azuredevops/repoprotection" => Azure!FailuresStayLocal
  /\ collector = "gitlab/repoprotection" => GitLab!FailuresStayLocal
  /\ collector = "github/sasthistory" => GitHubC05!FailuresStayLocal
  /\ collector = "azuredevops/sasthistory" => AzureC05!FailuresStayLocal
  /\ collector = "gitlab/sasthistory" => GitLabC05!FailuresStayLocal

(***************************************************************************)
(* The checks of one collector do not contradict one another about one     *)
(* repository ("two panels of one pack, opposite claims").                 *)
(***************************************************************************)
PanelsAgree ==
  /\ collector = "github/sasthistory" => GitHubC05!PanelsAgree
  /\ collector = "azuredevops/sasthistory" => AzureC05!PanelsAgree
  /\ collector = "gitlab/sasthistory" => GitLabC05!PanelsAgree

(***************************************************************************)
(* azuredevops/sasthistory.go, the rubric of tool-configured: it is        *)
(* verified-fail when "every pipeline MatchPipelines inspected for this    *)
(* repo resolved cleanly", and not-checkable after "a build-definition     *)
(* fetch failure" of one of them.                                          *)
(***************************************************************************)
FailIsInspected == collector = "azuredevops/sasthistory" => AzureC05!FailIsInspected
=============================================================================
