------------------------------ MODULE GitHubSast ------------------------------
(***************************************************************************)
(* C05.sast-history on GitHub: workflow files are searched for scanners,   *)
(* CodeQL's default setup is told from an entry in the list of workflows   *)
(* and asked for again at the end, and the runs of what was found are held *)
(* against the releases (internal/collect/github/sasthistory).             *)
(***************************************************************************)
EXTENDS RunHistory

World == [file : [Tool -> Evidence], setup : {"on", "off", "gated"}, history : History]

Files == {<<"file", t>> : t \in Tool}

Call == {<<"repository">>, <<"workflows">>, <<"releases">>, <<"setup">>} \cup Files
   \cup {<<"tag", r>> : r \in Release} \cup {<<"runs", t>> : t \in Tool \cup {CodeQL}}

Init == InitWith(World, Call)

(***************************************************************************)
(* The calls, in the order the code makes them; where it loops, one        *)
(* failure does not keep the rest back.  The list of workflows tells of    *)
(* default setup by a file that does not exist, and every other file is    *)
(* fetched and parsed, which may fail too.                                 *)
(***************************************************************************)
ReadRepository == Get(<<"repository">>, TRUE)

ListWorkflows == Got(<<"repository">>) /\ Get(<<"workflows">>, world.setup = "on")

ReadFile(t) == Got(<<"workflows">>) /\ Get(<<"file", t>>, world.file[t])

ListReleases ==
  /\ Got(<<"workflows">>) /\ Asked(Files)
  /\ Get(<<"releases">>, world.history.releases)

Named == {r \in heard[<<"releases">>] : r.named}
Tags == {<<"tag", r>> : r \in Named}

ResolveTag(r) ==
  /\ Got(<<"releases">>) /\ r \in Named
  /\ Get(<<"tag", r>>, r.commit)

Found(t) == Got(<<"file", t>>) /\ heard[<<"file", t>>] # "none"
Matched == {t \in Tool : Found(t)} \cup (IF heard[<<"workflows">>] THEN {CodeQL} ELSE {})
Strong == heard[<<"workflows">>] \/ \E t \in Tool : heard[<<"file", t>>] = "strong"
Skipped == {t \in Tool : heard[<<"file", t>>] = Failed}

RunsOf(t) == {x \in world.history.runs : x.tool = t /\ x.at >= WindowStart}

ReadRuns(t) ==
  /\ Got(<<"releases">>) /\ Asked(Tags) /\ t \in Matched
  /\ Get(<<"runs", t>>, RunsOf(t))

ReadSetup ==
  /\ Got(<<"releases">>) /\ Asked(Tags)
  /\ Asked({<<"runs", t>> : t \in Matched})
  /\ Get(<<"setup">>, world.setup)
-----------------------------------------------------------------------------
setup == heard[<<"setup">>]
date == [r \in Release |-> r.at]
runs == UNION {heard[<<"runs", t>>] : t \in {u \in Matched : Got(<<"runs", u>>)}}
RunsLost == \E t \in Matched : heard[<<"runs", t>>] = Failed

Resolved == {r \in Named : Got(<<"tag", r>>)}

\* A mutant of Dropped: a tag that cannot be resolved is skipped and forgotten.
DroppedSilently == {}

Dropped == {r \in Named \ Resolved : date[r] >= WindowStart}

\* A mutant of RanPerRelease: a file that could not be read is as good as an empty one.
RanPerReleaseDespiteSkips(covering) ==
  IF RunsLost /\ Missing(covering) # {} THEN NotCheckable
  ELSE CoverageVerdict(covering, Dropped)

\* A mutant of RanPerRelease: any run that was lost is one too many (before issue #291).
RanPerReleaseTainted(covering) ==
  IF (Matched = {} /\ Skipped # {}) \/ RunsLost THEN NotCheckable
  ELSE CoverageVerdict(covering, Dropped)

(***************************************************************************)
(* More runs can only turn a missing release into a covered one: what was  *)
(* lost matters where one is missing, and only there.                      *)
(***************************************************************************)
RanPerRelease(covering) ==
  IF Matched = {} /\ Skipped # {} THEN NotCheckable
  ELSE IF RunsLost /\ Missing(covering) # {} THEN NotCheckable
  ELSE CoverageVerdict(covering, Dropped)

Cadence ==
  IF (Matched = {} /\ setup # "on") \/ RunsLost THEN NotCheckable
  ELSE CadenceVerdict(runs, Strong \/ setup = "on")

GiveUp ==
  /\ \E c \in {<<"repository">>, <<"workflows">>, <<"releases">>} : heard[c] = Failed
  /\ Emit(AllNotCheckable)

Decide ==
  /\ Asked({<<"setup">>})
  /\ \E S \in Selections(Resolved, date) : \E firsts \in Firsts(S, date) :
       Emit([c \in Check |->
         CASE c = "tool-configured" -> ConfiguredVerdict(Matched, Strong, setup, Skipped)
           [] c = "ran-per-release" -> RanPerRelease(Covering(S, firsts, date, runs))
           [] c = "cadence"         -> Cadence
           [] c = "default-setup"   -> SetupVerdict(setup)])

\* An administrator turns default setup on or off.
Edit == Change({[world EXCEPT !.setup = s] : s \in {"on", "off"}})

Next ==
  \/ ReadRepository \/ ListWorkflows \/ ListReleases \/ ReadSetup
  \/ \E t \in Tool : ReadFile(t)
  \/ \E r \in Release : ResolveTag(r)
  \/ \E t \in Tool \cup {CodeQL} : ReadRuns(t)
  \/ GiveUp \/ Decide \/ Edit

Spec == Init /\ [][Next]_vars
-----------------------------------------------------------------------------
TypeOK == Typed(World, Call)

Scanners(w) == {t \in Tool : w.file[t] # "none"} \cup (IF w.setup = "on" THEN {CodeQL} ELSE {})

\* The runs of a scanner in the window; those of a file that could not be read are unknown.
Scans(w) == {x \in w.history.runs : /\ x.tool \in Scanners(w) \ Skipped
                                    /\ x.at >= WindowStart}

(***************************************************************************)
(* What passes was so: there is a scanner, it ran, and it ran for all the  *)
(* releases looked at, whatever was turned on or off in the meantime.      *)
(***************************************************************************)
PassWasTrue ==
  /\ Is("tool-configured", Pass) =>
       \E w \in seen : w.setup = "on" \/ \E t \in Tool : w.file[t] = "strong"
  /\ Is("tool-configured", Partial) => \E w \in seen : Scanners(w) # {}
  /\ Is("ran-per-release", Pass) =>
       AllScanned(world.history.releases, date, UNION {Scans(w) : w \in seen})
  /\ Is("cadence", Pass) \/ Is("cadence", Partial) => \E w \in seen : Scans(w) # {}
  /\ Is("default-setup", Pass) => \E w \in seen : w.setup = "on"

(***************************************************************************)
(* While nothing was turned on or off, a verified-fail is an absence: of   *)
(* any scanner, of a run for some release, of runs altogether.             *)
(***************************************************************************)
FailIsAbsence ==
  Quiet =>
    /\ Is("tool-configured", Fail) => Scanners(world) = {}
    /\ Is("ran-per-release", Fail) => SomeUnscanned(world.history.releases, date, Scans(world))
    /\ Is("cadence", Fail) => Scans(world) = {}
    /\ Is("default-setup", Fail) => world.setup = "off"

VerifiedIsTrue == PassWasTrue /\ FailIsAbsence

(***************************************************************************)
(* A lost answer costs the checks that need it: a tag or a run that was    *)
(* lost says nothing of the configuration, and the runs that were not lost *)
(* still show that every release was covered.                              *)
(***************************************************************************)
FailuresStayLocal ==
  (\A c \in {<<"repository">>, <<"workflows">>, <<"releases">>} : heard[c] # Failed) =>
    /\ Is("tool-configured", NotCheckable) => setup = Failed \/ Skipped # {}
    /\ Is("cadence", NotCheckable) => RunsLost \/ ~Is("tool-configured", Pass)
    /\ Is("ran-per-release", NotCheckable) =>
         \/ Recent(Named, date) = {}
         \/ Skipped # {} /\ \A t \in Tool : ~Found(t)
         \/ RunsLost /\ SomeUnscanned(Named, date, runs)
    /\ Is("default-setup", NotCheckable) => setup \in {Failed, "gated"}

PanelsAgree ==
  /\ ChecksAgree
  /\ Is("tool-configured", Fail) => ~Is("ran-per-release", Pass) /\ ~Is("default-setup", Pass)
  /\ Is("tool-configured", NotCheckable) /\ Is("ran-per-release", Fail) => setup = Failed
=============================================================================
