------------------------------ MODULE RunHistory ------------------------------
(***************************************************************************)
(* Did a scanner run for each recent release?  What the collectors of      *)
(* C05.sast-history share on all platforms: the choice of the releases     *)
(* looked at, the runs that count for a release, and the part of the       *)
(* verdicts that is the same everywhere                                    *)
(* (internal/collect/github/runhistory, azuredevops/pipelinehistory,       *)
(* gitlab/cihistory).                                                      *)
(*                                                                         *)
(* Times are numbers; only their order counts.  A release has the date the *)
(* platform gives it (at), and a commit with a date of its own (committed) *)
(* that Azure DevOps falls back on.                                        *)
(***************************************************************************)
EXTENDS Observation

CONSTANTS
  Tool,       \* workflows, pipelines or jobs that may run a scanner
  CodeQL,     \* the scanner the platform runs by itself (default setup)
  Release,    \* the releases, or release tags, there may be
  Run,        \* the runs there may be
  History,    \* pasts of a repository: its releases and its runs
  Lookback,   \* at most this many releases are looked at
  WindowStart \* and none from before this date

Releases == [named : BOOLEAN, commit : STRING, at : Nat, annotated : BOOLEAN, committed : Nat]
Runs == [tool : Tool \cup {CodeQL}, commit : STRING, trunk : BOOLEAN, success : BOOLEAN, at : Nat]
Histories == [releases : SUBSET Release, runs : SUBSET Run]

Check == {"tool-configured", "ran-per-release", "cadence", "default-setup"}
AllNotCheckable == [c \in Check |-> NotCheckable]

\* How sure a match is: a scanner is invoked ("strong"), or only its name suggests one.
Evidence == {"none", "weak", "strong"}

Asked(calls) == \A c \in calls : heard[c] # Unasked
-----------------------------------------------------------------------------
(***************************************************************************)
(* FilterReleasesInLookback: the newest ones, as many as Lookback allows.  *)
(* Releases of one date come in any order: sort.Slice promises none.       *)
(***************************************************************************)
Recent(releases, date) == {r \in releases : r.named /\ date[r] >= WindowStart}

Selections(releases, date) ==
  {S \in SUBSET Recent(releases, date) :
     /\ Cardinality(S) <= Lookback
     /\ S # Recent(releases, date) => Cardinality(S) = Lookback
     /\ \A r \in S : \A q \in Recent(releases, date) \ S : date[q] <= date[r]}

(***************************************************************************)
(* LinkRunsToReleases: a run counts for the release of its own commit, and *)
(* a run on the default branch for the release that ends the window it     *)
(* falls in.  Of several releases of one date only the first in the sorted *)
(* list has a window, that of the others being empty: firsts holds one for *)
(* each date.                                                              *)
(***************************************************************************)
Firsts(S, date) ==
  {firsts \in SUBSET S :
     \A r \in S : \E f \in firsts :
       /\ date[f] = date[r]
       /\ \A g \in firsts : date[g] = date[r] => g = f}

InWindow(x, r, S, date) ==
  /\ x.trunk
  /\ x.at <= date[r]
  /\ \A q \in S : date[q] < date[r] => x.at > date[q]

Covering(S, firsts, date, runs) ==
  [r \in S |-> {x \in runs : x.commit = r.commit \/ (r \in firsts /\ InWindow(x, r, S, date))}]

Missing(covering) == {r \in DOMAIN covering : covering[r] = {}}
Unclean(covering) == {r \in DOMAIN covering : \A x \in covering[r] : ~x.success}
-----------------------------------------------------------------------------
(***************************************************************************)
(* The verdicts, as far as the platforms agree.                            *)
(***************************************************************************)
ConfiguredVerdict(matched, strong, setup, skipped) ==
  IF matched = {} /\ setup = Failed THEN NotCheckable
  ELSE IF strong \/ setup = "on" THEN Pass
  ELSE IF matched # {} THEN Partial
  ELSE IF skipped # {} THEN NotCheckable
  ELSE Fail

CoverageVerdict(covering, dropped) ==
  IF DOMAIN covering = {} THEN (IF dropped # {} THEN Partial ELSE NotCheckable)
  ELSE IF Missing(covering) # {} THEN Fail
  ELSE IF Unclean(covering) = {} /\ dropped = {} THEN Pass
  ELSE Partial

CadenceVerdict(runs, strong) ==
  IF runs = {} THEN Fail ELSE IF strong THEN Pass ELSE Partial

SetupVerdict(setup) ==
  CASE setup = "on"  -> Pass
    [] setup = "off" -> Fail
    [] OTHER         -> NotCheckable
-----------------------------------------------------------------------------
Typed(World, Call) ==
  /\ world \in World /\ seen \subseteq World /\ world \in seen
  /\ DOMAIN heard = Call
  /\ status # Undecided => status \in [Check -> {Pass, Fail, Partial, NotCheckable}]

(***************************************************************************)
(* What a verified-pass of ran-per-release claims of the releases: each of *)
(* those looked at had a successful run of a scanner, either of its commit *)
(* or on the default branch, after the one before and not after itself.    *)
(***************************************************************************)
AllScanned(releases, date, runs) ==
  \E S \in Selections(releases, date) :
    \A r \in S : \E x \in runs :
      /\ x.success
      /\ x.commit = r.commit \/ InWindow(x, r, S, date)

(***************************************************************************)
(* What a verified-fail claims: one of the releases had no run of a        *)
(* scanner at all, neither of its commit nor on the default branch since   *)
(* the last release before it.  The claim does not hold of releases of the *)
(* same date, of which all but one read as missing (see Firsts).           *)
(***************************************************************************)
SomeUnscanned(releases, date, runs) ==
  \E r \in Recent(releases, date) :
    /\ \A x \in runs : x.commit # r.commit
    /\ \/ \A x \in runs : ~InWindow(x, r, {q \in releases : q.named}, date)
       \/ \E q \in Recent(releases, date) \ {r} : date[q] = date[r]

(***************************************************************************)
(* The two parts of SomeUnscanned: a release without any run at all; and   *)
(* one without a run of its commit that shares its date with another.      *)
(***************************************************************************)
ZeroRuns(releases, date, runs) ==
  \E r \in Recent(releases, date) :
    \A x \in runs : x.commit # r.commit /\ ~InWindow(x, r, {q \in releases : q.named}, date)

Tied(releases, date, runs) ==
  \E r \in Recent(releases, date) :
    (\A x \in runs : x.commit # r.commit) /\ \E q \in Recent(releases, date) \ {r} : date[q] = date[r]

(***************************************************************************)
(* The four checks draw on the same evidence and must not contradict one   *)
(* another ("two panels of one pack, opposite claims"): a cadence that     *)
(* passes is that of a tool that is configured, and where it cannot be     *)
(* told whether there is one, nothing is said of its runs.                 *)
(***************************************************************************)
ChecksAgree ==
  /\ Is("cadence", Pass) => Is("tool-configured", Pass)
  /\ Is("cadence", Partial) => Is("tool-configured", Pass) \/ Is("tool-configured", Partial)
  /\ Is("cadence", Fail) => Is("tool-configured", Pass) \/ Is("tool-configured", Partial)
  /\ Is("default-setup", Pass) => Is("tool-configured", Pass)
  /\ Is("tool-configured", NotCheckable) => ~Is("ran-per-release", Pass)
=============================================================================
