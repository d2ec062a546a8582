----------------------------- MODULE AuditLogging -----------------------------
\* C09.audit-logging: the audit log, where it goes, and the webhooks of a repository.
EXTENDS Survey

(***************************************************************************)
(* C09.audit-logging on GitHub: whether the audit log of the organisation  *)
(* answers at all, and, with a client of its own, whether a webhook of the *)
(* repository exports what happens there                                   *)
(* (internal/collect/github/auditlogging).                                 *)
(***************************************************************************)

Exported == {"push", "release", "deployment", "*"}
GitHubHooks == [active : BOOLEAN, events : SUBSET (Exported \cup {"other"})]

\* Whether the audit log can be had depends on the plan as well as on the token.
GitHubWorlds == [personal : BOOLEAN, log : {TRUE, Disabled}, hooks : SUBSET GitHubHooks]

GitHubChecks == {"org-log-available", "log-streaming", "retention-awareness", "webhooks"}
GitHubCall == {<<"log">>, <<"plan">>, <<"hooks">>}

GitHubInit == InitWith(Settings["github/auditlogging"], GitHubCall)

\* A personal account has no organisation to ask about: neither call is made.
Asked == ~world.personal

GitHubReadLog == Asked /\ Ask(<<"log">>, world.log)
ReadPlan == Heard({<<"log">>}) /\ Ask(<<"plan">>, world.log)
GitHubListHooks == (Asked => Heard({<<"plan">>})) /\ Ask(<<"hooks">>, world.hooks)
-----------------------------------------------------------------------------
GitHubOrgLogAvailable == IF Got(<<"log">>) /\ heard[<<"log">>] = TRUE THEN Pass ELSE NotCheckable

\* Nothing that can be asked of an organisation tells these.
GitHubLogStreaming == NotCheckable
GitHubRetentionAwareness == NotCheckable

\* A mutant of Covered: a hook that was switched off still counts.
CoveredByAll == UNION {h.events : h \in heard[<<"hooks">>]}

Covered == UNION {h.events : h \in {k \in heard[<<"hooks">>] : k.active}}

GitHubRepoWebhooks ==
  IF Lost(<<"hooks">>) THEN NotCheckable
  ELSE IF Covered \cap Exported # {} THEN Pass
  ELSE Fail

GitHubDecide ==
  /\ Heard({<<"hooks">>})
  /\ Emit([c \in GitHubChecks |->
       CASE c = "org-log-available"   -> GitHubOrgLogAvailable
         [] c = "log-streaming"       -> GitHubLogStreaming
         [] c = "retention-awareness" -> GitHubRetentionAwareness
         [] c = "webhooks"            -> GitHubRepoWebhooks])

GitHubNext == GitHubReadLog \/ ReadPlan \/ GitHubListHooks \/ GitHubDecide

GitHubSpec == GitHubInit /\ [][GitHubNext]_vars
-----------------------------------------------------------------------------
GitHubTypeOK == SurveyTypeOK(GitHubWorlds, GitHubCall, GitHubChecks)

GitHubExports == \E h \in world.hooks : h.active /\ h.events \cap Exported # {}

GitHubRubric(c, s) ==
  \/ c \in {"log-streaming", "retention-awareness"} /\ s = NotCheckable
  \/ /\ c = "org-log-available"
     /\ \/ s = Pass /\ world.log = TRUE
        \/ s = NotCheckable /\ (world.personal \/ world.log = Disabled \/ Lost(<<"log">>))
  \/ /\ c = "webhooks"
     /\ \/ s = Pass /\ GitHubExports
        \/ s = Fail /\ ~GitHubExports
        \/ s = NotCheckable /\ Lost(<<"hooks">>)

GitHubRubricHolds == status # Undecided => \A c \in GitHubChecks : GitHubRubric(c, status[c])
-----------------------------------------------------------------------------
(***************************************************************************)
(* C09.audit-logging on Azure DevOps: the audit log and its streams, of    *)
(* the organisation, and the service hooks of the organisation that reach  *)
(* the project, which is resolved first                                    *)
(* (internal/collect/azuredevops/auditlogging).                            *)
(***************************************************************************)

(***************************************************************************)
(* The status of a stream comes as a name or as a number, neither of which *)
(* is certain; anything else makes the answer one that cannot be read.     *)
(***************************************************************************)
StreamStatus == <<"unknown", "enabled", "disabledByUser", "disabledBySystem", "deleted", "backfilling">>
Sent == ({"name"} \X {StreamStatus[n] : n \in DOMAIN StreamStatus}) \cup ({"ordinal"} \X (0..7)) \cup {<<"other", "object">>}

\* The project a subscription names, or "" for all of them.
Subscriptions == [event : {"git.push", "build.complete", "other"}, status : {"", "enabled", "disabled"},
                  project : {"", "this", "another"}]

AzureWorlds == [log : {TRUE, Disabled}, streams : SUBSET Sent, project : {"this", Disabled},
                subscriptions : SUBSET Subscriptions]

AzureChecks == {"org-log-available", "log-streaming", "retention-awareness", "webhooks"}
AzureCall == {<<"log">>, <<"streams">>, <<"project">>, <<"subscriptions">>}

AzureInit == InitWith(Settings["azuredevops/auditlogging"], AzureCall)

\* A mutant of Decoded: the numbers are taken to begin at one.
DecodedFromOne(s) ==
  CASE s[1] = "name"                              -> s[2]
    [] s[1] = "ordinal" /\ s[2] \in 1..6          -> StreamStatus[s[2]]
    [] OTHER                                      -> "unknown"

Decoded(s) ==
  CASE s[1] = "name"                              -> s[2]
    [] s[1] = "ordinal" /\ s[2] + 1 \in 1..6      -> StreamStatus[s[2] + 1]
    [] OTHER                                      -> "unknown"

Unreadable == \E s \in world.streams : s[1] = "other"

AzureReadLog == Ask(<<"log">>, world.log)
ListStreams ==
  /\ Heard({<<"log">>})
  /\ Ask(<<"streams">>, IF Unreadable THEN Failed ELSE {Decoded(s) : s \in world.streams})
ResolveProject == Heard({<<"streams">>}) /\ Ask(<<"project">>, world.project)

\* A project without an id is as good as none.
Resolved == Got(<<"project">>) /\ heard[<<"project">>] # Disabled

ListSubscriptions == Resolved /\ Ask(<<"subscriptions">>, world.subscriptions)
-----------------------------------------------------------------------------
AzureOrgLogAvailable == IF Got(<<"log">>) /\ heard[<<"log">>] = TRUE THEN Pass ELSE NotCheckable

AzureLogStreaming ==
  IF Lost(<<"streams">>) THEN NotCheckable
  ELSE IF "enabled" \in heard[<<"streams">>] THEN Pass
  ELSE Fail

AzureRetentionAwareness == NotCheckable

Active(s) == s.status \in {"", "enabled"}

\* A mutant of AzureRepoWebhooks: only a subscription of this very project counts.
RepoWebhooksOfProject ==
  IF ~Resolved \/ Lost(<<"subscriptions">>) THEN NotCheckable
  ELSE IF \E s \in heard[<<"subscriptions">>] :
            Active(s) /\ s.event # "other" /\ s.project = heard[<<"project">>]
       THEN Pass
  ELSE Fail

AzureRepoWebhooks ==
  IF ~Resolved \/ Lost(<<"subscriptions">>) THEN NotCheckable
  ELSE IF \E s \in heard[<<"subscriptions">>] :
            Active(s) /\ s.event # "other" /\ s.project \in {"", heard[<<"project">>]}
       THEN Pass
  ELSE Fail

AzureDecide ==
  /\ Heard({<<"project">>}) /\ (Resolved => Heard({<<"subscriptions">>}))
  /\ Emit([c \in AzureChecks |->
       CASE c = "org-log-available"   -> AzureOrgLogAvailable
         [] c = "log-streaming"       -> AzureLogStreaming
         [] c = "retention-awareness" -> AzureRetentionAwareness
         [] c = "webhooks"            -> AzureRepoWebhooks])

AzureNext == AzureReadLog \/ ListStreams \/ ResolveProject \/ ListSubscriptions \/ AzureDecide

AzureSpec == AzureInit /\ [][AzureNext]_vars
-----------------------------------------------------------------------------
AzureTypeOK == SurveyTypeOK(AzureWorlds, AzureCall, AzureChecks)

Streaming == world.streams \cap {<<"name", "enabled">>, <<"ordinal", 1>>} # {}
AzureExports ==
  \E s \in world.subscriptions : s.status # "disabled" /\ s.event # "other" /\ s.project # "another"

AzureRubric(c, s) ==
  \/ c = "retention-awareness" /\ s = NotCheckable
  \/ /\ c = "org-log-available"
     /\ \/ s = Pass /\ world.log = TRUE
        \/ s = NotCheckable /\ (world.log = Disabled \/ Lost(<<"log">>))
  \/ /\ c = "log-streaming"
     /\ \/ s = Pass /\ Streaming
        \/ s = Fail /\ ~Streaming
        \/ s = NotCheckable /\ Lost(<<"streams">>)
  \/ /\ c = "webhooks"
     /\ \/ s = Pass /\ AzureExports
        \/ s = Fail /\ ~AzureExports
        \/ s = NotCheckable /\ (~Resolved \/ Lost(<<"subscriptions">>))

AzureRubricHolds == status # Undecided => \A c \in AzureChecks : AzureRubric(c, status[c])
-----------------------------------------------------------------------------
(***************************************************************************)
(* C09.audit-logging on GitLab: what is said of the audit log is never     *)
(* looked up, it is a paid feature; the webhooks of a project are          *)
(* (internal/collect/gitlab/auditlogging).                                 *)
(***************************************************************************)

Alert == {"executable", "temporarily_disabled", "disabled"}
GitLabHooks == [alert : Alert \cup {"unrecognised"}, exports : BOOLEAN]

GitLabWorlds == [hooks : SUBSET GitLabHooks]

AuditChecks == {"org-log-available", "log-streaming", "retention-awareness"}
GitLabChecks == AuditChecks \cup {"webhooks"}
GitLabCall == {<<"client">>, <<"hooks">>}

GitLabInit == InitWith(Settings["gitlab/auditlogging"], GitLabCall)

NewClient == Ask(<<"client">>, TRUE)
GitLabListHooks == Got(<<"client">>) /\ Ask(<<"hooks">>, world.hooks)
-----------------------------------------------------------------------------
Delivers(h) == h.alert = "executable" /\ h.exports

\* A mutant of GitLabRepoWebhooks: a state that is not recognised is a hook that does not deliver.
RepoWebhooksOfRecognised ==
  IF Lost(<<"client">>) \/ Lost(<<"hooks">>) THEN NotCheckable
  ELSE IF \E h \in heard[<<"hooks">>] : Delivers(h) THEN Pass
  ELSE Fail

GitLabRepoWebhooks ==
  IF Lost(<<"client">>) \/ Lost(<<"hooks">>) THEN NotCheckable
  ELSE IF \E h \in heard[<<"hooks">>] : Delivers(h) THEN Pass
  ELSE IF \E h \in heard[<<"hooks">>] : h.alert \notin Alert THEN NotCheckable
  ELSE Fail

GitLabDecide ==
  /\ Lost(<<"client">>) \/ Heard({<<"hooks">>})
  /\ Emit([c \in GitLabChecks |-> IF c \in AuditChecks THEN NotCheckable ELSE GitLabRepoWebhooks])

GitLabNext == NewClient \/ GitLabListHooks \/ GitLabDecide

GitLabSpec == GitLabInit /\ [][GitLabNext]_vars
-----------------------------------------------------------------------------
GitLabTypeOK == SurveyTypeOK(GitLabWorlds, GitLabCall, GitLabChecks)

GitLabRubric(c, s) ==
  \/ c \in AuditChecks /\ s = NotCheckable
  \/ /\ c = "webhooks"
     /\ \/ s = Pass /\ \E h \in world.hooks : Delivers(h)
        \/ s = Fail /\ \A h \in world.hooks : h.alert \in Alert /\ ~Delivers(h)
        \/ s = NotCheckable /\ \/ Lost(<<"client">>) \/ Lost(<<"hooks">>)
                               \/ \E h \in world.hooks : h.alert \notin Alert

GitLabRubricHolds == status # Undecided => \A c \in GitLabChecks : GitLabRubric(c, status[c])
=============================================================================
