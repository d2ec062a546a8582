------------------------------- MODULE AzureSca -------------------------------
(***************************************************************************)
(* C06.sca-history on Azure DevOps: pipelines, tags and builds as for      *)
(* C05.sast-history, with other signatures; injected dependency scanning   *)
(* in place of default setup; and the active critical alerts               *)
(* (internal/collect/azuredevops/scahistory).  Here the loss of the        *)
(* releases costs one check only.                                          *)
(***************************************************************************)
EXTENDS AzureSast, Survey

\* An active critical alert, and whether the date it was first seen can be parsed.
CriticalAlerts == [overdue : BOOLEAN, dated : BOOLEAN]

Worlds == [found : BOOLEAN, pipeline : [Tool -> Pipeline], setup : {"on", "off"}, history : History,
           alerts : (SUBSET CriticalAlerts) \cup {Disabled}]

Checks == {"tool-configured", "ran-per-release", "dependabot-config", "dependency-review",
           "alerts-triaged"}

ScaCall == Call \cup {<<"alerts">>}

ScaInit == InitWith(Settings["azuredevops/scahistory"], ScaCall)

HistoryRead ==
  \/ Lost(<<"releases">>)
  \/ Got(<<"releases">>) /\ Dated /\ (Matched # {} => heard[<<"builds">>] # Unasked)

ReadEnablement == HistoryRead /\ Get(<<"setup">>, world.setup)
ReadAlerts == Heard({<<"setup">>}) /\ Get(<<"alerts">>, world.alerts)

Coverings ==
  IF Lost(<<"releases">>) THEN {<<>>}
  ELSE UNION {{Covering(S, firsts, date, runs) : firsts \in Firsts(S, date)} : S \in Selections(Resolved, date)}

\* A mutant of ScaRanPerRelease: an enablement that could not be read is one that is off (before issue #244).
ScaRanPerReleaseIfUnread(covering) ==
  IF Lost(<<"releases">>) \/ (Matched = {} /\ (setup = "on" \/ Skipped # {})) THEN NotCheckable
  ELSE IF DOMAIN covering # {} /\ BuildsLost THEN NotCheckable
  ELSE CoverageVerdict(covering, Dropped)

ScaRanPerRelease(covering) ==
  IF Lost(<<"releases">>) \/ (Matched = {} /\ (setup # "off" \/ Skipped # {})) THEN NotCheckable
  ELSE IF DOMAIN covering # {} /\ BuildsLost THEN NotCheckable
  ELSE CoverageVerdict(covering, Dropped)

ScaToolConfigured == ConfiguredVerdict(Matched, Strong, setup, Skipped)

\* There is no such file and no such gate on Azure DevOps.
DependabotConfig == NotCheckable
DependencyReview == NotCheckable

alerts == heard[<<"alerts">>]

\* An alert without a date counts only where no other has one.
AlertsTriaged ==
  IF Lost(<<"alerts">>) THEN NotCheckable
  ELSE IF alerts = Disabled THEN Fail
  ELSE IF alerts # {} /\ \A a \in alerts : ~a.dated THEN Partial
  ELSE IF \E a \in alerts : a.dated /\ a.overdue THEN Partial
  ELSE Pass

NoRepository == Lost(<<"repositories">>) \/ Lost(<<"pipelines">>) \/ (Inspected /\ ~heard[<<"repositories">>])

ScaDecide ==
  \/ NoRepository /\ Emit(Nothing(Checks))
  \/ /\ Heard({<<"alerts">>})
     /\ \E covering \in Coverings :
          Emit([c \in Checks |->
            CASE c = "tool-configured"   -> ScaToolConfigured
              [] c = "ran-per-release"   -> ScaRanPerRelease(covering)
              [] c = "dependabot-config" -> DependabotConfig
              [] c = "dependency-review" -> DependencyReview
              [] c = "alerts-triaged"    -> AlertsTriaged])

ScaNext ==
  /\ \/ ReadRepositories \/ ListPipelines \/ ListTags \/ FetchBuilds \/ ReadEnablement \/ ReadAlerts
     \/ \E t \in Tool : FetchDefinition(t) \/ FetchFile(t)
     \/ \E r \in Release : FetchAnnotation(r) \/ FetchCommit(r)
     \/ ScaDecide
  /\ FewFailures'

ScaSpec == ScaInit /\ [][ScaNext]_vars
-----------------------------------------------------------------------------
ScaTypeOK == SurveyTypeOK(Worlds, ScaCall, Checks)

\* The pipelines of this repository that could not be read, and those that speak for no scanner.
Unread == {t \in Tool : world.pipeline[t].repository = "this" /\ Lost(<<"definition", t>>)}
Vouched == {t \in Tool : world.pipeline[t].repository = "this" =>
                            t \notin Unread /\ Plain(world, t) /\ t \notin Scanners(world)}

Unscanned == ZeroRuns(world.history.releases, date, Scans(world))
AtOnce == Tied(world.history.releases, date, Scans(world))

\* The rubrics: what the project publishes of each status.
Rubric(c, s) ==
  \/ s = NotCheckable /\ (NoRepository \/ c \in {"dependabot-config", "dependency-review"})
  \/ /\ c = "tool-configured"
     /\ \/ s = Pass /\ (world.setup = "on" \/ \E t \in Scanners(world) : world.pipeline[t].file = "strong")
        \/ s = Partial /\ Scanners(world) # {} /\ (Lost(<<"setup">>) \/ world.setup = "off")
        \/ s = Fail /\ world.setup = "off" /\ Tool \subseteq Vouched
        \/ s = NotCheckable /\ Scanners(world) \cap Read = {} /\ (Lost(<<"setup">>) \/ Skipped # {})
  \/ /\ c = "ran-per-release"
     /\ \/ s = Pass /\ Dropped = {} /\ AllScanned(world.history.releases, date, Scans(world))
        \/ s = Partial /\ (Dropped # {} \/ Scans(world) # {})
        \/ s = Fail /\ Unscanned
                    /\ (Scanners(world) \cap Read # {} \/ (world.setup = "off" /\ Skipped = {} /\ Unread = {}))
        \/ s = NotCheckable /\ (Lost(<<"releases">>) \/ Recent(Named, date) = {} \/ BuildsLost)
        \/ s = NotCheckable /\ Scanners(world) \cap Read = {}
                            /\ (world.setup = "on" \/ Lost(<<"setup">>) \/ Skipped # {})
  \/ /\ c = "alerts-triaged"
     /\ \/ s = Pass /\ world.alerts # Disabled /\ \A a \in world.alerts : ~a.overdue
        \/ s = Partial /\ world.alerts \notin {Disabled, {}}
                       /\ ((\E a \in world.alerts : a.overdue) \/ \A a \in world.alerts : ~a.dated)
        \/ s = Fail /\ world.alerts = Disabled
        \/ s = NotCheckable /\ Lost(<<"alerts">>)

(***************************************************************************)
(* Where the code departs from them.  A definition that cannot be read has *)
(* no repository, is taken for another one's, and is not missed: the two   *)
(* verdicts of absence are of the others alone.  Of releases of one date   *)
(* all but one are denied the runs before them.  And an alert whose date   *)
(* cannot be parsed is overlooked as soon as there is another with one.    *)
(***************************************************************************)
Deviates(c, s) ==
  \/ /\ c = "tool-configured" /\ s = Fail
     /\ world.setup = "off" /\ Unread # {} /\ Tool \ Unread \subseteq Vouched
  \/ /\ c = "ran-per-release" /\ s = Fail
     /\ \/ Unscanned /\ world.setup = "off" /\ Skipped = {} /\ Unread # {}
        \/ AtOnce /\ (Scanners(world) \cap Read # {} \/ (world.setup = "off" /\ Skipped = {}))
  \/ /\ c = "alerts-triaged" /\ s = Pass
     /\ world.alerts # Disabled /\ \E a \in world.alerts : a.dated
     /\ \A a \in world.alerts : a.overdue => ~a.dated

Accounted(c, s) == Rubric(c, s) \/ Deviates(c, s)

RubricHolds == status # Undecided => \A c \in Checks : Rubric(c, status[c])
AccountedFor == status # Undecided => \A c \in Checks : Accounted(c, status[c])
=============================================================================
