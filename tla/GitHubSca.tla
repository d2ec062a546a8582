------------------------------- MODULE GitHubSca ------------------------------
(***************************************************************************)
(* C06.sca-history on GitHub: workflows are searched for dependency        *)
(* scanners and their runs held against the releases; Dependabot's         *)
(* configuration is held against the manifests in the root directory; the  *)
(* workflow of dependency review is fetched a second time for its triggers *)
(* and looked for among the required checks; open alerts are triaged       *)
(* (internal/collect/github/scahistory).                                   *)
(***************************************************************************)
EXTENDS RunHistory, Survey

CONSTANTS Ecosystem, Actions, NoConfig

Workflows == [evidence : Evidence \cup {"review"}, pullRequest : BOOLEAN]

Worlds == [workflow : UNION {[T -> Workflows] : T \in SUBSET Tool}, required : SUBSET Tool,
           config : (SUBSET Ecosystem) \cup {NoConfig}, manifests : SUBSET Ecosystem,
           alerts : (SUBSET Alerts) \cup {Disabled}, history : History]

Checks == {"tool-configured", "ran-per-release", "dependabot-config", "dependency-review",
           "alerts-triaged"}

Call == {<<c>> : c \in {"repository", "workflows", "releases", "root", "config", "alerts",
                        "required", "review"}}
   \cup {<<"tag", r>> : r \in Release} \cup {<<"file", t>> : t \in Tool} \cup {<<"runs", t>> : t \in Tool}

Init == InitWith(Settings["github/scahistory"], Call)

ReadRepository == Ask(<<"repository">>, TRUE)
ListWorkflows == Got(<<"repository">>) /\ Ask(<<"workflows">>, DOMAIN world.workflow)

Listed == heard[<<"workflows">>]
Files == {<<"file", t>> : t \in Listed}

ReadFile(t) ==
  /\ Got(<<"workflows">>) /\ t \in Listed \cap DOMAIN world.workflow
  /\ Ask(<<"file", t>>, world.workflow[t].evidence)

ListReleases ==
  /\ Got(<<"workflows">>) /\ Heard(Files)
  /\ Ask(<<"releases">>, world.history.releases)

Named == IF Got(<<"releases">>) THEN {r \in heard[<<"releases">>] : r.named} ELSE {}

ResolveTag(r) == r \in Named /\ Ask(<<"tag", r>>, r.commit)

Found(t) == Got(<<"file", t>>) /\ heard[<<"file", t>>] # "none"
Matched == {t \in Tool : Found(t)}
Strong == \E t \in Matched : heard[<<"file", t>>] # "weak"
Skipped == {t \in Tool : Lost(<<"file", t>>)}

ReadRuns(t) ==
  /\ Got(<<"releases">>) /\ Heard({<<"tag", r>> : r \in Named}) /\ t \in Matched
  /\ Ask(<<"runs", t>>, {x \in world.history.runs : x.tool = t /\ x.at >= WindowStart})

HistoryRead ==
  \/ Lost(<<"releases">>)
  \/ Got(<<"releases">>) /\ Heard({<<"tag", r>> : r \in Named}) /\ Heard({<<"runs", t>> : t \in Matched})

(***************************************************************************)
(* The rest is asked for whatever became of the releases, one after the    *)
(* other; the workflow of dependency review only if one was matched.       *)
(***************************************************************************)
ReadRoot == HistoryRead /\ Ask(<<"root">>, world.manifests)
ReadConfig == Heard({<<"root">>}) /\ Ask(<<"config">>, world.config)
ReadAlerts == Heard({<<"config">>}) /\ Ask(<<"alerts">>, world.alerts)
ReadRequired == Heard({<<"alerts">>}) /\ Ask(<<"required">>, world.required)

Reviews == {t \in Matched : heard[<<"file", t>>] = "review"}

RefetchReview ==
  /\ Heard({<<"required">>})
  /\ \E t \in Reviews \cap DOMAIN world.workflow :
       Ask(<<"review">>, [name |-> t, pullRequest |-> world.workflow[t].pullRequest])
-----------------------------------------------------------------------------
runs == UNION {heard[<<"runs", t>>] : t \in {u \in Matched : Got(<<"runs", u>>)}}
RunsLost == \E t \in Matched : Lost(<<"runs", t>>)

date == [r \in Release |-> r.at]
Resolved == {r \in Named : Got(<<"tag", r>>)}
Dropped == {r \in Named \ Resolved : date[r] >= WindowStart}

config == heard[<<"config">>]
Configured == Got(<<"config">>) /\ config \notin {NoConfig, {}}

\* Dependabot is a tool like any other, only that it keeps no runs.
ToolConfigured ==
  ConfiguredVerdict(Matched, Strong, IF Lost(<<"config">>) THEN Failed ELSE IF Configured THEN "on" ELSE "off", Skipped)

\* A mutant of RanPerRelease: Dependabot alone is held against the releases too.
RanPerReleaseOfDependabot(covering) ==
  IF Matched = {} /\ (Lost(<<"config">>) \/ Skipped # {}) THEN NotCheckable
  ELSE IF Lost(<<"releases">>) \/ (RunsLost /\ Missing(covering) # {}) THEN NotCheckable
  ELSE CoverageVerdict(covering, Dropped)

RanPerRelease(covering) ==
  IF Matched = {} /\ (Lost(<<"config">>) \/ Configured \/ Skipped # {}) THEN NotCheckable
  ELSE IF Lost(<<"releases">>) \/ (RunsLost /\ Missing(covering) # {}) THEN NotCheckable
  ELSE CoverageVerdict(covering, Dropped)

Detected == heard[<<"root">>] \cup (IF Listed # {} THEN {Actions} ELSE {})

DependabotConfig ==
  IF Lost(<<"root">>) \/ Lost(<<"config">>) THEN NotCheckable
  ELSE IF config = NoConfig THEN (IF Detected = {} THEN NotCheckable ELSE Fail)
  ELSE IF Detected \subseteq config THEN Pass ELSE Partial

review == heard[<<"review">>]

\* A mutant of DependencyReview: the workflow that could not be read is not missed.
DependencyReviewDespiteSkips ==
  IF Reviews = {} THEN Fail
  ELSE IF Lost(<<"review">>) THEN NotCheckable
  ELSE IF review.pullRequest /\ Got(<<"required">>) /\ review.name \in heard[<<"required">>] THEN Pass
  ELSE Partial

DependencyReview ==
  IF Reviews = {} THEN (IF Skipped # {} THEN NotCheckable ELSE Fail)
  ELSE IF Lost(<<"review">>) THEN NotCheckable
  ELSE IF review.pullRequest /\ Got(<<"required">>) /\ review.name \in heard[<<"required">>] THEN Pass
  ELSE Partial

AlertsTriaged ==
  IF Lost(<<"alerts">>) THEN NotCheckable
  ELSE IF heard[<<"alerts">>] = Disabled THEN Fail
  ELSE IF Untriaged(heard[<<"alerts">>]) THEN Partial ELSE Pass

GiveUp == Lost(<<"repository">>) \/ Lost(<<"workflows">>)

Decide ==
  \/ GiveUp /\ Emit(Nothing(Checks))
  \/ /\ Heard({<<"required">>})
     /\ Reviews # {} => Heard({<<"review">>})
     /\ \E S \in Selections(Resolved, date) : \E firsts \in Firsts(S, date) :
          Emit([c \in Checks |->
            CASE c = "tool-configured"   -> ToolConfigured
              [] c = "ran-per-release"   -> RanPerRelease(Covering(S, firsts, date, runs))
              [] c = "dependabot-config" -> DependabotConfig
              [] c = "dependency-review" -> DependencyReview
              [] c = "alerts-triaged"    -> AlertsTriaged])

\* Somebody edits the triggers of a workflow after it was matched.
Edit ==
  /\ heard[<<"review">>] = Unasked
  /\ Change({[world EXCEPT !.workflow[t].pullRequest = ~@] : t \in Reviews})

Next ==
  \/ ReadRepository \/ ListWorkflows \/ ListReleases
  \/ \E t \in Tool : ReadFile(t) \/ ReadRuns(t)
  \/ \E r \in Release : ResolveTag(r)
  \/ ReadRoot \/ ReadConfig \/ ReadAlerts \/ ReadRequired \/ RefetchReview
  \/ Decide \/ Edit

Spec == Init /\ [][Next]_vars
-----------------------------------------------------------------------------
TypeOK == SurveyTypeOK(Worlds, Call, Checks)

Scanners == {t \in DOMAIN world.workflow : world.workflow[t].evidence # "none"}
Scans == {x \in world.history.runs : x.tool \in Scanners \ Skipped /\ x.at >= WindowStart}
InUse == world.manifests \cup (IF DOMAIN world.workflow # {} THEN {Actions} ELSE {})

\* A scanner was found, or none could have been missed.
Trusted == ~(Scanners \subseteq Skipped) \/ (world.config \in {NoConfig, {}} /\ Skipped = {})

\* The rubrics: what the project publishes of each status.
Rubric(c, s) ==
  \/ s = NotCheckable /\ GiveUp
  \/ /\ c = "tool-configured"
     /\ \/ s = Pass /\ \/ \E t \in Scanners : world.workflow[t].evidence # "weak"
                       \/ world.config \notin {NoConfig, {}}
        \/ s = Partial /\ Scanners # {} /\ (Lost(<<"config">>) \/ world.config \in {NoConfig, {}})
        \/ s = Fail /\ Scanners = {} /\ world.config \in {NoConfig, {}} /\ Skipped = {}
        \/ s = NotCheckable /\ Scanners \subseteq Skipped
                            /\ (Lost(<<"config">>) \/ (Skipped # {} /\ world.config \in {NoConfig, {}}))
  \/ /\ c = "ran-per-release"
     /\ \/ s = Pass /\ Dropped = {} /\ AllScanned(world.history.releases, date, Scans)
        \/ s = Partial /\ (Dropped # {} \/ Scans # {})
        \/ s = Fail /\ ZeroRuns(world.history.releases, date, Scans) /\ Trusted
        \/ s = NotCheckable /\ \/ Scanners \subseteq Skipped /\ \/ Lost(<<"config">>) \/ Skipped # {}
                                                                \/ world.config \notin {NoConfig, {}}
                               \/ Lost(<<"releases">>) \/ Recent(Named, date) = {}
                               \/ RunsLost /\ SomeUnscanned(Named, date, runs)
  \/ /\ c = "dependabot-config"
     /\ \/ s = Pass /\ world.config # NoConfig /\ InUse \subseteq world.config
        \/ s = Partial /\ world.config # NoConfig /\ ~(InUse \subseteq world.config)
        \/ s = Fail /\ world.config = NoConfig /\ InUse # {}
        \/ s = NotCheckable /\ \/ Lost(<<"root">>) \/ Lost(<<"config">>)
                               \/ world.config = NoConfig /\ InUse = {}
  \/ /\ c = "dependency-review"
     /\ \/ s = Pass /\ \E t \in Scanners \cap world.required, w \in seen :
                         world.workflow[t].evidence = "review" /\ w.workflow[t].pullRequest
        \/ s = Partial /\ \E t \in Scanners : world.workflow[t].evidence = "review"
        \/ s = Fail /\ \A t \in Scanners : world.workflow[t].evidence # "review"
        \/ s = NotCheckable /\ (Lost(<<"review">>) \/ Skipped # {})
  \/ /\ c = "alerts-triaged"
     /\ \/ s = Pass /\ world.alerts # Disabled /\ ~Untriaged(world.alerts)
        \/ s = Partial /\ world.alerts # Disabled /\ Untriaged(world.alerts)
        \/ s = Fail /\ world.alerts = Disabled
        \/ s = NotCheckable /\ Lost(<<"alerts">>)

\* Where the code departs from them: of releases of one date all but one are denied the runs before them.
Deviates(c, s) ==
  c = "ran-per-release" /\ s = Fail /\ Tied(world.history.releases, date, Scans) /\ Trusted

Accounted(c, s) == Rubric(c, s) \/ Deviates(c, s)

AccountedFor == status # Undecided => \A c \in Checks : Accounted(c, status[c])
=============================================================================
