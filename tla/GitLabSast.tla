------------------------------ MODULE GitLabSast ------------------------------
(***************************************************************************)
(* C05.sast-history on GitLab: the merged CI configuration tells of the    *)
(* jobs, the job history is walked backwards to the start of the window,   *)
(* and a run counts for the release of its own commit only                 *)
(* (internal/collect/gitlab/sasthistory, cihistory).                       *)
(***************************************************************************)
EXTENDS RunHistory

CONSTANTS
  Unusable,   \* no merged configuration, or one that does not parse
  Job,        \* the jobs there may have been
  JobHistory, \* pasts of a project: its releases and its jobs
  MaxJobs     \* the walk looks at no more jobs than this (20 pages of 100)

(***************************************************************************)
(* A job of the past: ids grow as jobs are created, not as they finish; it *)
(* may have left a report of a scanner behind, whatever its name.          *)
(***************************************************************************)
Jobs == [id : Nat, tool : Tool, commit : STRING, success : BOOLEAN, finished : BOOLEAN, at : Nat,
         report : BOOLEAN]
JobHistories == [releases : SUBSET Release, jobs : SUBSET Job]

World == [config : [Tool -> Evidence] \cup {Unusable}, history : JobHistory]

Call == {<<"client">>, <<"lint">>, <<"releases">>, <<"jobs">>}

Init == InitWith(World, Call)
-----------------------------------------------------------------------------
(***************************************************************************)
(* FetchJobsInWindow: newest id first, until a job that finished before    *)
(* the window ends the walk, or the bound does.                            *)
(***************************************************************************)
Reachable(jobs) == {j \in jobs : Cardinality({k \in jobs : k.id > j.id}) < MaxJobs}
Ends(j) == j.finished /\ j.at < WindowStart

Walk(jobs) ==
  [runs |-> {j \in Reachable(jobs) : j.finished /\ \A k \in Reachable(jobs) : k.id >= j.id => ~Ends(k)},
   truncated |-> /\ Cardinality(jobs) >= MaxJobs
                 /\ \A k \in Reachable(jobs) : ~Ends(k)]

NewClient == Get(<<"client">>, TRUE)
Lint == Got(<<"client">>) /\ Get(<<"lint">>, world.config)
ListReleases == heard[<<"lint">>] # Unasked /\ Get(<<"releases">>, world.history.releases)
WalkJobs == heard[<<"releases">>] # Unasked /\ Get(<<"jobs">>, Walk(world.history.jobs))
-----------------------------------------------------------------------------
ConfigKnown == heard[<<"lint">>] \notin {Failed, Unusable}
config == heard[<<"lint">>]
Matched == IF ConfigKnown THEN {t \in Tool : config[t] # "none"} ELSE {}
Strong == \E t \in Matched : config[t] = "strong"

Truncated == heard[<<"jobs">>].truncated

\* SelectRuns: by the name of the job, or by the report it left.
runs == {j \in heard[<<"jobs">>].runs : j.tool \in Matched \/ j.report}

date == [r \in Release |-> r.at]

\* LinkRunsToReleases: by commit alone.
CoveringByCommit(S) == [r \in S |-> {j \in runs : j.commit = r.commit}]

ToolConfigured ==
  IF ~ConfigKnown THEN NotCheckable ELSE ConfiguredVerdict(Matched, Strong, "off", {})

(***************************************************************************)
(* A mutant of RanPerRelease: a walk that was cut short certifies absence. *)
(***************************************************************************)
RanPerReleaseTruncated(S) ==
  IF ~ConfigKnown \/ ~Got(<<"releases">>) \/ ~Got(<<"jobs">>) THEN NotCheckable
  ELSE CoverageVerdict(CoveringByCommit(S), {})

\* A mutant of RanPerRelease: any walk cut short is an answer lost.
RanPerReleaseTainted(S) ==
  IF ~ConfigKnown \/ ~Got(<<"releases">>) \/ ~Got(<<"jobs">>) THEN NotCheckable
  ELSE IF Truncated THEN NotCheckable
  ELSE CoverageVerdict(CoveringByCommit(S), {})

RanPerRelease(S) ==
  IF ~ConfigKnown \/ ~Got(<<"releases">>) \/ ~Got(<<"jobs">>) THEN NotCheckable
  ELSE IF Truncated /\ Missing(CoveringByCommit(S)) # {} THEN NotCheckable
  ELSE CoverageVerdict(CoveringByCommit(S), {})

\* A mutant of Cadence: as for the releases, a walk cut short matters only where nothing was found.
CadenceOfWhatWasSeen ==
  IF ~ConfigKnown \/ Matched = {} \/ ~Got(<<"jobs">>) THEN NotCheckable ELSE CadenceVerdict(runs, Strong)

Cadence ==
  IF ~ConfigKnown \/ Matched = {} \/ ~Got(<<"jobs">>) THEN NotCheckable
  ELSE IF Truncated THEN NotCheckable
  ELSE CadenceVerdict(runs, Strong)

GiveUp == heard[<<"client">>] = Failed /\ Emit(AllNotCheckable)

Listed == IF Got(<<"releases">>) THEN heard[<<"releases">>] ELSE {}

Decide ==
  /\ Asked({<<"jobs">>})
  /\ \E S \in Selections(Listed, date) :
       Emit([c \in Check |->
         CASE c = "tool-configured" -> ToolConfigured
           [] c = "ran-per-release" -> RanPerRelease(S)
           [] c = "cadence"         -> Cadence
           [] c = "default-setup"   -> NotCheckable])

Next == NewClient \/ Lint \/ ListReleases \/ WalkJobs \/ GiveUp \/ Decide

Spec == Init /\ [][Next]_vars
-----------------------------------------------------------------------------
TypeOK == Typed(World, Call)

Scanners(w) == IF w.config = Unusable THEN {} ELSE {t \in Tool : w.config[t] # "none"}

\* The jobs that scanned, in the window: by what they are called now, or by what they left.
Scans(w) == {j \in w.history.jobs : /\ j.finished /\ j.at >= WindowStart
                                    /\ j.tool \in Scanners(w) \/ j.report}

\* Jobs finished in the order of their ids, as the walk takes for granted.
InOrder(jobs) == \A j, k \in {i \in jobs : i.finished} : j.id < k.id => j.at <= k.at

PassWasTrue ==
  /\ Is("tool-configured", Pass) => \E t \in Scanners(world) : world.config[t] = "strong"
  /\ Is("tool-configured", Partial) => Scanners(world) # {}
  /\ Is("ran-per-release", Pass) =>
       \E S \in Selections(world.history.releases, date) :
         \A r \in S : \E j \in Scans(world) : j.success /\ j.commit = r.commit
  /\ Is("cadence", Pass) \/ Is("cadence", Partial) => Scans(world) # {}

(***************************************************************************)
(* A verified-fail is an absence of a scanner or of its runs, if the jobs  *)
(* finished in the order in which they were created.                       *)
(***************************************************************************)
FailIsAbsence ==
  /\ Is("tool-configured", Fail) => Scanners(world) = {}
  /\ InOrder(world.history.jobs) =>
       /\ Is("ran-per-release", Fail) =>
            \E r \in Recent(world.history.releases, date) : \A j \in Scans(world) : j.commit # r.commit
       /\ Is("cadence", Fail) => Scans(world) = {}

VerifiedIsTrue == PassWasTrue /\ FailIsAbsence

FailuresStayLocal ==
  heard[<<"client">>] # Failed =>
    /\ Is("tool-configured", NotCheckable) => heard[<<"lint">>] \in {Failed, Unusable}
    /\ Is("cadence", NotCheckable) =>
         \/ \E c \in {<<"lint">>, <<"jobs">>} : heard[c] = Failed
         \/ Scanners(world) = {}
         \/ Cardinality(world.history.jobs) >= MaxJobs
    /\ Is("ran-per-release", NotCheckable) =>
         \/ \E c \in Call : heard[c] = Failed
         \/ world.config = Unusable
         \/ Recent(world.history.releases, date) = {}
         \/ /\ Cardinality(world.history.jobs) >= MaxJobs
            /\ \E r \in Recent(world.history.releases, date) : \A j \in runs : j.commit # r.commit

(***************************************************************************)
(* A scanner no longer configured may have run for every release, so that  *)
(* here ran-per-release may pass where tool-configured fails.              *)
(***************************************************************************)
PanelsAgree ==
  /\ ChecksAgree
  /\ Is("tool-configured", NotCheckable) => Is("ran-per-release", NotCheckable)
=============================================================================
