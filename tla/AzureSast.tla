------------------------------- MODULE AzureSast ------------------------------
(***************************************************************************)
(* C05.sast-history on Azure DevOps: the pipelines of the whole project    *)
(* are searched once, each by its definition and then its YAML file, those *)
(* of the repository picked out, and the builds of what was found held     *)
(* against the repository's tags (internal/collect/azuredevops/            *)
(* sasthistory, pipelinehistory).                                          *)
(***************************************************************************)
EXTENDS RunHistory

CONSTANT Pipeline \* what a pipeline may be like

(***************************************************************************)
(* A pipeline builds a repository; it is defined by a YAML file, by one    *)
(* whose path the API does not tell, or otherwise; and the file may refer  *)
(* to templates, which are not followed.                                   *)
(***************************************************************************)
Pipelines == [repository : {"this", "other"}, process : {"yaml", "pathless", "classic"},
              file : Evidence, template : BOOLEAN]

World == [found : BOOLEAN, pipeline : [Tool -> Pipeline], setup : {"on", "off"}, history : History]

Call == {<<"repositories">>, <<"pipelines">>, <<"releases">>, <<"builds">>, <<"setup">>}
   \cup {<<"definition", t>> : t \in Tool} \cup {<<"file", t>> : t \in Tool}
   \cup {<<"annotation", r>> : r \in Release} \cup {<<"commit", r>> : r \in Release}

Init == InitWith(World, Call)

ReadRepositories == Get(<<"repositories">>, world.found)
ListPipelines == Got(<<"repositories">>) /\ Get(<<"pipelines">>, TRUE)

FetchDefinition(t) == Got(<<"pipelines">>) /\ Get(<<"definition", t>>, world.pipeline[t])

Definition(t) == heard[<<"definition", t>>]
HasFile(t) == Got(<<"definition", t>>) /\ Definition(t).process = "yaml"

FetchFile(t) ==
  /\ HasFile(t)
  /\ Get(<<"file", t>>, [found |-> world.pipeline[t].file, template |-> world.pipeline[t].template])

\* Every definition was asked for, and every file there is.
Inspected ==
  /\ Got(<<"pipelines">>)
  /\ Asked({<<"definition", t>> : t \in Tool})
  /\ Asked({<<"file", t>> : t \in {u \in Tool : HasFile(u)}})

(***************************************************************************)
(* The entries of one repository.  A pipeline whose definition could not   *)
(* be fetched has no repository, hence is an entry of none.                *)
(***************************************************************************)
Ours == {t \in Tool : Got(<<"definition", t>>) /\ Definition(t).repository = "this"}
Read == {t \in Ours : HasFile(t) /\ Got(<<"file", t>>)}
Content(t) == heard[<<"file", t>>]

Matched == {t \in Read : Content(t).found # "none"}
Strong == \E t \in Matched : Content(t).found = "strong"

\* A mutant of Skipped: a template is taken to hold no scanner.
SkippedButTemplates == {t \in Ours :
  \/ Definition(t).process = "pathless"
  \/ HasFile(t) /\ heard[<<"file", t>>] = Failed}

Skipped == {t \in Ours :
  \/ Definition(t).process = "pathless"
  \/ HasFile(t) /\ heard[<<"file", t>>] = Failed
  \/ t \in Read /\ Content(t).template}

ListTags ==
  /\ Inspected /\ heard[<<"repositories">>]
  /\ Get(<<"releases">>, world.history.releases)

Named == {r \in heard[<<"releases">>] : r.named}

(***************************************************************************)
(* A tag is dated by its annotation, or else by its commit: one that has   *)
(* no annotation, and one whose annotation cannot be fetched.              *)
(***************************************************************************)
FetchAnnotation(r) ==
  /\ Got(<<"releases">>) /\ r \in Named /\ r.annotated
  /\ Get(<<"annotation", r>>, r.at)

FetchCommit(r) ==
  /\ Got(<<"releases">>) /\ r \in Named
  /\ r.annotated => heard[<<"annotation", r>>] = Failed
  /\ Get(<<"commit", r>>, r.committed)

Dated == \A r \in Named : Got(<<"annotation", r>>) \/ heard[<<"commit", r>>] # Unasked

BuildsOf(tools) == {x \in world.history.runs : x.tool \in tools /\ x.at >= WindowStart}

\* A mutant of FetchBuilds: when nothing matched, the empty filter asks for all builds there are.
FetchBuildsUnfiltered ==
  /\ Got(<<"releases">>) /\ Dated
  /\ Get(<<"builds">>, BuildsOf(IF Matched = {} THEN Tool ELSE Matched))

\* One call for all that matched, and none when nothing did: an empty filter is no filter.
FetchBuilds ==
  /\ Got(<<"releases">>) /\ Dated /\ Matched # {}
  /\ Get(<<"builds">>, BuildsOf(Matched))

ReadSetup ==
  /\ Got(<<"releases">>) /\ Dated
  /\ Matched # {} => heard[<<"builds">>] # Unasked
  /\ Get(<<"setup">>, world.setup)
-----------------------------------------------------------------------------
setup == heard[<<"setup">>]
runs == IF Got(<<"builds">>) THEN heard[<<"builds">>] ELSE {}
BuildsLost == heard[<<"builds">>] = Failed

date == [r \in Release |-> IF r.annotated /\ heard[<<"annotation", r>>] # Failed THEN r.at ELSE r.committed]

Dropped == {r \in Named : heard[<<"commit", r>>] = Failed}
Resolved == Named \ Dropped

\* A mutant of RanPerRelease: default setup is not looked at (before issues #184 and #235).
RanPerReleaseByBuilds(covering) ==
  IF Matched = {} /\ Skipped # {} THEN NotCheckable
  ELSE IF DOMAIN covering # {} /\ BuildsLost THEN NotCheckable
  ELSE CoverageVerdict(covering, Dropped)

RanPerRelease(covering) ==
  IF Matched = {} /\ (setup # "off" \/ Skipped # {}) THEN NotCheckable
  ELSE IF DOMAIN covering # {} /\ BuildsLost THEN NotCheckable
  ELSE CoverageVerdict(covering, Dropped)

Cadence ==
  IF Matched = {} \/ BuildsLost THEN NotCheckable ELSE CadenceVerdict(runs, Strong)

GiveUp ==
  /\ \/ \E c \in {<<"repositories">>, <<"pipelines">>, <<"releases">>} : heard[c] = Failed
     \/ Inspected /\ heard[<<"repositories">>] = FALSE
  /\ Emit(AllNotCheckable)

Decide ==
  /\ Asked({<<"setup">>})
  /\ \E S \in Selections(Resolved, date) : \E firsts \in Firsts(S, date) :
       Emit([c \in Check |->
         CASE c = "tool-configured" -> ConfiguredVerdict(Matched, Strong, setup, Skipped)
           [] c = "ran-per-release" -> RanPerRelease(Covering(S, firsts, date, runs))
           [] c = "cadence"         -> Cadence
           [] c = "default-setup"   -> SetupVerdict(setup)])

Next ==
  \/ ReadRepositories \/ ListPipelines \/ ListTags \/ FetchBuilds \/ ReadSetup
  \/ \E t \in Tool : FetchDefinition(t) \/ FetchFile(t)
  \/ \E r \in Release : FetchAnnotation(r) \/ FetchCommit(r)
  \/ GiveUp \/ Decide

Spec == Init /\ [][Next]_vars
-----------------------------------------------------------------------------
TypeOK == Typed(World, Call)

\* The pipelines that run a scanner of their own, as far as their files tell.
Scanners(w) == {t \in Tool : /\ w.pipeline[t].repository = "this"
                             /\ w.pipeline[t].process = "yaml"
                             /\ w.pipeline[t].file # "none"}

Scans(w) == {x \in w.history.runs : x.tool \in Scanners(w) \cap Read /\ x.at >= WindowStart}

\* Nothing about this pipeline is hidden from the one who reads it.
Plain(w, t) ==
  \/ w.pipeline[t].process = "classic"
  \/ w.pipeline[t].process = "yaml" /\ ~w.pipeline[t].template

PassWasTrue ==
  /\ Is("tool-configured", Pass) =>
       \/ world.setup = "on"
       \/ \E t \in Scanners(world) : world.pipeline[t].file = "strong"
  /\ Is("tool-configured", Partial) => Scanners(world) # {}
  /\ Is("ran-per-release", Pass) => AllScanned(world.history.releases, date, Scans(world))
  /\ Is("cadence", Pass) \/ Is("cadence", Partial) => Scans(world) # {}
  /\ Is("default-setup", Pass) => world.setup = "on"

(***************************************************************************)
(* A verified-fail is an absence, but for pipelines whose definition could *)
(* not be fetched, of which the code forgets that they may be this         *)
(* repository's (see FailIsInspected).                                     *)
(***************************************************************************)
FailIsAbsence ==
  /\ Is("tool-configured", Fail) =>
       /\ world.setup = "off"
       /\ \A t \in Tool : world.pipeline[t].repository = "this" =>
            \/ heard[<<"definition", t>>] = Failed
            \/ Plain(world, t) /\ t \notin Scanners(world)
  /\ Is("ran-per-release", Fail) => SomeUnscanned(world.history.releases, date, Scans(world))
  /\ Is("cadence", Fail) => Scans(world) = {}
  /\ Is("default-setup", Fail) => world.setup = "off"

VerifiedIsTrue == PassWasTrue /\ FailIsAbsence

\* One failed call costs the checks that need it, as on GitHub.
FailuresStayLocal ==
  /\ \A c \in {<<"repositories">>, <<"pipelines">>, <<"releases">>} : heard[c] # Failed
  /\ world.found
  => /\ Is("tool-configured", NotCheckable) => setup = Failed \/ Skipped # {}
     /\ Is("cadence", NotCheckable) => BuildsLost \/ Scanners(world) \cap Read = {}
     /\ Is("ran-per-release", NotCheckable) =>
          BuildsLost \/ Scanners(world) \cap Read = {} \/ Recent(Named, date) = {}
     /\ Is("default-setup", NotCheckable) => setup = Failed

(***************************************************************************)
(* On Azure DevOps the runs of default setup cannot be seen: where it is   *)
(* all there is, or where that is not known, nothing is said of runs.      *)
(***************************************************************************)
PanelsAgree ==
  /\ ChecksAgree
  /\ Is("tool-configured", Fail) => ~Is("ran-per-release", Pass) /\ ~Is("default-setup", Pass)
  /\ Is("tool-configured", NotCheckable) => Is("ran-per-release", NotCheckable)
  /\ Is("default-setup", Pass) /\ Scanners(world) = {} =>
       Is("ran-per-release", NotCheckable) /\ Is("cadence", NotCheckable)

(***************************************************************************)
(* What the rubric of tool-configured promises of a verified-fail: "every  *)
(* pipeline MatchPipelines inspected for this repo resolved cleanly [...]  *)
(* a real absence, not an evidence gap".                                   *)
(***************************************************************************)
FailIsInspected ==
  Is("tool-configured", Fail) =>
    \A t \in Tool : world.pipeline[t].repository = "this" => heard[<<"definition", t>>] # Failed
=============================================================================
