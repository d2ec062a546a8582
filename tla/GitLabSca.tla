------------------------------- MODULE GitLabSca ------------------------------
(***************************************************************************)
(* C06.sca-history on GitLab: configuration, releases and jobs as for      *)
(* C05.sast-history, with other signatures; the files GitLab reported      *)
(* dependencies from against the manifests in the tree; and the findings   *)
(* of dependency scanning (internal/collect/gitlab/scahistory).            *)
(***************************************************************************)
EXTENDS GitLabSast, Survey

CONSTANT Manifest \* files that declare dependencies

(***************************************************************************)
(* A finding is open or closed, or in a state this build does not know; it *)
(* may come from another kind of scan.                                     *)
(***************************************************************************)
Findings == [dependency : BOOLEAN, state : {"open", "closed", "unknown"}, critical : BOOLEAN, overdue : BOOLEAN]

Worlds == [config : [Tool -> Evidence] \cup {Unusable}, history : JobHistory,
           scanned : SUBSET Manifest, manifests : SUBSET Manifest, findings : SUBSET Findings]

Checks == {"tool-configured", "ran-per-release", "dependabot-config", "dependency-review",
           "alerts-triaged"}

ScaCall == Call \cup {<<"scanned">>, <<"tree">>, <<"findings">>}

ScaInit == InitWith(Settings["gitlab/scahistory"], ScaCall)

\* Each of these is asked for whatever became of the others.
ReadScanned == Heard({<<"jobs">>}) /\ Get(<<"scanned">>, world.scanned)
ReadTree == Heard({<<"scanned">>}) /\ Get(<<"tree">>, world.manifests)
ReadFindings == Heard({<<"tree">>}) /\ Get(<<"findings">>, world.findings)

\* The first two checks are judged as in C05, by functions of their own.
ScaToolConfigured == ToolConfigured
ScaRanPerRelease(S) == RanPerRelease(S)

\* A mutant of ManifestCoverage: a listing that is refused is a listing of nothing.
ManifestCoverageIfRefused ==
  IF Lost(<<"tree">>) \/ heard[<<"tree">>] = {} THEN NotCheckable
  ELSE IF Got(<<"scanned">>) /\ ~(heard[<<"tree">>] \subseteq heard[<<"scanned">>]) THEN Partial
  ELSE Pass

ManifestCoverage ==
  IF Lost(<<"scanned">>) \/ Lost(<<"tree">>) \/ heard[<<"tree">>] = {} THEN NotCheckable
  ELSE IF heard[<<"tree">>] \subseteq heard[<<"scanned">>] THEN Pass
  ELSE Partial

\* A gap that is known beforehand.
DependencyReview == NotCheckable

(***************************************************************************)
(* A mutant of AlertsTriaged: a state that is not known is not an open     *)
(* one.                                                                    *)
(***************************************************************************)
AlertsTriagedByOpen ==
  IF Lost(<<"findings">>) THEN NotCheckable
  ELSE IF \E f \in heard[<<"findings">>] : f.dependency /\ f.state = "open" /\ f.critical /\ f.overdue THEN Fail
  ELSE Pass

AlertsTriaged ==
  IF Lost(<<"findings">>) THEN NotCheckable
  ELSE LET own == {f \in heard[<<"findings">>] : f.dependency}
       IN IF \E f \in own : f.state = "open" /\ f.critical /\ f.overdue THEN Fail
          ELSE IF \E f \in own : f.state = "unknown" THEN Partial
          ELSE Pass

ScaDecide ==
  \/ Lost(<<"client">>) /\ Emit(Nothing(Checks))
  \/ /\ Heard({<<"findings">>})
     /\ \E S \in Selections(Listed, date) :
          Emit([c \in Checks |->
            CASE c = "tool-configured"   -> ScaToolConfigured
              [] c = "ran-per-release"   -> ScaRanPerRelease(S)
              [] c = "dependabot-config" -> ManifestCoverage
              [] c = "dependency-review" -> DependencyReview
              [] c = "alerts-triaged"    -> AlertsTriaged])

ScaNext ==
  /\ \/ NewClient \/ Lint \/ ListReleases \/ WalkJobs
     \/ ReadScanned \/ ReadTree \/ ReadFindings \/ ScaDecide
  /\ FewFailures'

ScaSpec == ScaInit /\ [][ScaNext]_vars
-----------------------------------------------------------------------------
ScaTypeOK == SurveyTypeOK(Worlds, ScaCall, Checks)

Overdue == \E f \in world.findings : f.dependency /\ f.state = "open" /\ f.critical /\ f.overdue
Unclear == \E f \in world.findings : f.dependency /\ f.state = "unknown"

RanOn(r) == \E j \in Scans(world) : j.commit = r.commit
RanWellOn(r) == \E j \in Scans(world) : j.commit = r.commit /\ j.success

\* The rubrics: what the project publishes of each status.
Rubric(c, s) ==
  \/ s = NotCheckable /\ (Lost(<<"client">>) \/ c = "dependency-review")
  \/ /\ c = "tool-configured"
     /\ \/ s = Pass /\ \E t \in Scanners(world) : world.config[t] = "strong"
        \/ s = Partial /\ Scanners(world) # {} /\ \A t \in Scanners(world) : world.config[t] = "weak"
        \/ s = Fail /\ world.config # Unusable /\ Scanners(world) = {}
        \/ s = NotCheckable /\ (Lost(<<"lint">>) \/ world.config = Unusable)
  \/ /\ c = "ran-per-release"
     /\ \/ s = Pass /\ \E S \in Selections(world.history.releases, date) : S # {} /\ \A r \in S : RanWellOn(r)
        \/ s = Partial /\ \E S \in Selections(world.history.releases, date) :
                            (\A r \in S : RanOn(r)) /\ \E r \in S : \E j \in Scans(world) :
                                                         j.commit = r.commit /\ ~j.success
        \/ s = Fail /\ \E r \in Recent(world.history.releases, date) : ~RanOn(r)
        \/ s = NotCheckable /\ (Lost(<<"lint">>) \/ world.config = Unusable \/ Lost(<<"releases">>) \/ Lost(<<"jobs">>))
        \/ s = NotCheckable /\ Recent(world.history.releases, date) = {}
        \/ s = NotCheckable /\ Truncated /\ \E r \in Recent(world.history.releases, date) :
                                              \A j \in runs : j.commit # r.commit
  \/ /\ c = "dependabot-config"
     /\ \/ s = Pass /\ world.manifests # {} /\ world.manifests \subseteq world.scanned
        \/ s = Partial /\ ~(world.manifests \subseteq world.scanned)
        \/ s = NotCheckable /\ (Lost(<<"scanned">>) \/ Lost(<<"tree">>) \/ world.manifests = {})
  \/ /\ c = "alerts-triaged"
     /\ \/ s = Pass /\ ~Overdue /\ ~Unclear
        \/ s = Partial /\ ~Overdue /\ Unclear
        \/ s = Fail /\ Overdue
        \/ s = NotCheckable /\ Lost(<<"findings">>)

(***************************************************************************)
(* Where the code departs from them: the walk over the jobs stops at the   *)
(* first that is older than the window, and misses the younger ones behind *)
(* it when the jobs did not finish in the order of their ids.              *)
(***************************************************************************)
Deviates(c, s) ==
  c = "ran-per-release" /\ s = Fail /\ ~InOrder(world.history.jobs) /\ Recent(world.history.releases, date) # {}

Accounted(c, s) == Rubric(c, s) \/ Deviates(c, s)

AccountedFor == status # Undecided => \A c \in Checks : Accounted(c, status[c])
=============================================================================
