-------------------------- MODULE CollectorsProofs ---------------------------
(***************************************************************************)
(* The collectors are honest for any settings, any number of rulesets,     *)
(* policies and rules, and any number of changes during the collection.    *)
(*                                                                         *)
(* One argument serves all platforms.  Nothing moves once there are        *)
(* statuses, and nothing is claimed before, so that all that has to be     *)
(* carried along is where the answers in hand come from (...Heard): each   *)
(* was right of settings met during the collection, which are, while       *)
(* nothing has been changed, the settings there are.  ...Decide is the one *)
(* step that has to turn this into what the statuses say.                  *)
(***************************************************************************)
EXTENDS Collectors, FiniteSetTheorems, TLAPS

\* What a call may have been answered, or not, when these are the true answers.
Outcomes(answers) == {Unasked, Failed} \cup answers

\* The instances of a standard module have its operators under names of their own.
LEMMA SameCount ==
  ASSUME NEW S
  PROVE  /\ GitHubC05!Cardinality(S) = Cardinality(S)
         /\ AzureC05!Cardinality(S) = Cardinality(S)
         /\ GitLabC05!Cardinality(S) = Cardinality(S)
BY DEF GitHubC05!Cardinality, AzureC05!Cardinality, GitLabC05!Cardinality, Cardinality
-----------------------------------------------------------------------------
(***************************************************************************)
(* C05.sast-history is honest on every platform, whatever the releases and *)
(* the runs of the past, the tools and the calls that fail, along the same *)
(* argument.  For each platform it is said what the choice of releases     *)
(* (...Chosen) and the verdict on them (...Coverage) come to, what the     *)
(* answers in hand say of the runs (...Runs), and how the statuses follow  *)
(* (...Pass, ...Fail, ...Local, ...Panels).                                *)
(***************************************************************************)
LEMMA GitHubC05Chosen ==
  ASSUME NEW R, NEW date, NEW S \in GitHubC05!Selections(R, date)
  PROVE  /\ S \subseteq GitHubC05!Recent(R, date)
         /\ S = {} => GitHubC05!Recent(R, date) = {}
<1>1. Lookback # 0 /\ GitHubC05!Cardinality({}) = 0
  BY HistoryAssumption, FS_EmptySet, SameCount
<1> QED
  BY <1>1 DEF GitHubC05!Selections

\* A run that counts for a release.
GitHubC05Counts(x, r, S, firsts, date) ==
  x.commit = r.commit \/ (r \in firsts /\ GitHubC05!InWindow(x, r, S, date))

LEMMA GitHubC05Coverage ==
  ASSUME NEW S, NEW firsts, NEW date, NEW runs, NEW dropped, NEW verdict,
         verdict = GitHubC05!CoverageVerdict(GitHubC05!Covering(S, firsts, date, runs), dropped)
  PROVE  /\ verdict \in {Pass, Fail, Partial, NotCheckable}
         /\ verdict = Pass =>
              /\ S # {} /\ dropped = {}
              /\ \A r \in S : \E x \in runs : x.success /\ GitHubC05Counts(x, r, S, firsts, date)
         /\ verdict = Fail =>
              \E r \in S : \A x \in runs : ~GitHubC05Counts(x, r, S, firsts, date)
         /\ verdict = NotCheckable => S = {} /\ dropped = {}
         /\ GitHubC05!Missing(GitHubC05!Covering(S, firsts, date, runs)) # {} =>
              \E r \in S : \A x \in runs : ~GitHubC05Counts(x, r, S, firsts, date)
<1> DEFINE covering == GitHubC05!Covering(S, firsts, date, runs)
<1>1. /\ DOMAIN covering = S
      /\ \A r \in S : covering[r] = {x \in runs : GitHubC05Counts(x, r, S, firsts, date)}
  BY DEF GitHubC05!Covering, GitHubC05Counts
<1> HIDE DEF covering
<1>2. GitHubC05!Missing(covering) # {} =>
        \E r \in S : \A x \in runs : ~GitHubC05Counts(x, r, S, firsts, date)
  BY <1>1 DEF GitHubC05!Missing
<1>3. GitHubC05!Missing(covering) = {} /\ GitHubC05!Unclean(covering) = {} =>
        \A r \in S : \E x \in runs : x.success /\ GitHubC05Counts(x, r, S, firsts, date)
  BY <1>1 DEF GitHubC05!Unclean
<1>4. verdict = GitHubC05!CoverageVerdict(covering, dropped)
  BY DEF covering
<1>5. GitHubC05!Missing(GitHubC05!Covering(S, firsts, date, runs)) = GitHubC05!Missing(covering)
  BY DEF covering
<1> QED
  BY <1>1, <1>2, <1>3, <1>4, <1>5 DEF GitHubC05!CoverageVerdict, Pass, Fail, Partial, NotCheckable,
     GitHubC05!Pass, GitHubC05!Fail, GitHubC05!Partial, GitHubC05!NotCheckable
\* Where the answers in hand come from, and what was asked before what.
GitHubC05Heard ==
  /\ \A w \in seen : w.file = world.file /\ w.history = world.history
  /\ heard[<<"workflows">>] \in Outcomes({w.setup = "on" : w \in seen})
  /\ \A t \in Tool : heard[<<"file", t>>] \in Outcomes({world.file[t]})
  /\ heard[<<"releases">>] \in Outcomes({world.history.releases})
  /\ \A t \in Tool \cup {CodeQL} : heard[<<"runs", t>>] \in Outcomes({GitHubC05!RunsOf(t)})
  /\ heard[<<"setup">>] \in Outcomes({w.setup : w \in seen})
  /\ Got(<<"releases">>) => Got(<<"workflows">>) /\ \A t \in Tool : heard[<<"file", t>>] # Unasked
  /\ heard[<<"setup">>] # Unasked =>
       Got(<<"releases">>) /\ \A t \in GitHubC05!Matched : heard[<<"runs", t>>] # Unasked

\* All has been heard that there is to be heard.
GitHubC05Ready == GitHubC05!TypeOK /\ GitHubC05Heard /\ heard[<<"setup">>] # Unasked

LEMMA GitHubC05Setup ==
  ASSUME GitHubC05Ready
  PROVE  /\ heard[<<"workflows">>] => \E w \in seen : w.setup = "on"
         /\ Quiet /\ world.setup = "on" => heard[<<"workflows">>]
         /\ GitHubC05!setup = Failed \/ \E w \in seen : GitHubC05!setup = w.setup
<1>1. \E w \in seen : heard[<<"workflows">>] = (w.setup = "on")
  BY DEF GitHubC05Ready, GitHubC05Heard, Outcomes, Got
<1>2. GitHubC05!setup = Failed \/ \E w \in seen : GitHubC05!setup = w.setup
  BY DEF GitHubC05Ready, GitHubC05Heard, Outcomes, GitHubC05!setup
<1> QED
  BY <1>1, <1>2 DEF Quiet

LEMMA GitHubC05Tools ==
  ASSUME GitHubC05Ready
  PROVE  /\ \A t \in Tool \ GitHubC05!Skipped :
              t \in GitHubC05!Matched <=> world.file[t] # "none"
         /\ GitHubC05!Matched \cap GitHubC05!Skipped = {}
         /\ CodeQL \in GitHubC05!Matched <=> heard[<<"workflows">>]
         /\ GitHubC05!Matched \subseteq Tool \cup {CodeQL}
         /\ GitHubC05!Strong =>
              heard[<<"workflows">>] \/ \E t \in GitHubC05!Matched : world.file[t] = "strong"
<1>1. \A t \in Tool : heard[<<"file", t>>] \in {Failed, world.file[t]}
  BY DEF GitHubC05Ready, GitHubC05Heard, Outcomes, Got
<1>2. CodeQL \notin Tool /\ "none" # Failed /\ "strong" # Failed /\ "strong" # Unasked
  BY HistoryAssumption
<1>3. \A t \in Tool : heard[<<"file", t>>] # Unasked
  BY DEF GitHubC05Ready, GitHubC05Heard
<1>4. \A t \in Tool : t \in GitHubC05!Matched <=> GitHubC05!Found(t)
  BY <1>2 DEF GitHubC05!Matched
<1>5. \A t \in Tool : GitHubC05!Found(t) <=> heard[<<"file", t>>] # Failed /\ world.file[t] # "none"
  BY <1>1, <1>3 DEF GitHubC05!Found, GitHubC05!Got
<1>6. CodeQL \in GitHubC05!Matched <=> heard[<<"workflows">>]
  BY <1>2 DEF GitHubC05!Matched
<1>7. GitHubC05!Matched \cap GitHubC05!Skipped = {}
  BY <1>4, <1>5 DEF GitHubC05!Skipped
<1>8. GitHubC05!Strong =>
        heard[<<"workflows">>] \/ \E t \in GitHubC05!Matched : world.file[t] = "strong"
  BY <1>1, <1>2, <1>4, <1>5 DEF GitHubC05!Strong
<1> QED
  BY <1>4, <1>5, <1>6, <1>7, <1>8 DEF GitHubC05!Skipped, GitHubC05!Matched

LEMMA GitHubC05Runs ==
  ASSUME GitHubC05Ready
  PROVE  /\ \A x \in GitHubC05!runs : \E w \in seen : x \in GitHubC05!Scans(w)
         /\ Quiet /\ ~GitHubC05!RunsLost => GitHubC05!Scans(world) \subseteq GitHubC05!runs
         /\ GitHubC05!runs # {} => GitHubC05!Matched # {}
<1>1. \A t \in GitHubC05!Matched : heard[<<"runs", t>>] \in {Failed, GitHubC05!RunsOf(t)}
                                   /\ heard[<<"runs", t>>] # Unasked
  BY GitHubC05Tools DEF GitHubC05Ready, GitHubC05Heard, Outcomes
<1>2. ASSUME NEW x \in GitHubC05!runs
      PROVE  \E t \in GitHubC05!Matched : x \in GitHubC05!RunsOf(t)
  BY <1>1 DEF GitHubC05!runs, GitHubC05!Got
<1>3. ASSUME NEW t \in GitHubC05!Matched, NEW x \in GitHubC05!RunsOf(t)
      PROVE  \E w \in seen : x \in GitHubC05!Scans(w)
  <2>1. \E w \in seen : t \in GitHubC05!Scanners(w) \ GitHubC05!Skipped
    <3>1. world \in seen /\ \A w \in seen : w.file = world.file
      BY DEF GitHubC05Ready, GitHubC05Heard, GitHubC05!TypeOK, GitHubC05!Typed
    <3>2. CASE t \in Tool
      BY <3>1, <3>2, GitHubC05Tools DEF GitHubC05!Scanners
    <3>3. CASE t = CodeQL
      BY <3>3, GitHubC05Tools, GitHubC05Setup DEF GitHubC05!Scanners
    <3> QED
      BY <3>2, <3>3, GitHubC05Tools
  <2>2. \A w \in seen : w.history = world.history
    BY DEF GitHubC05Ready, GitHubC05Heard
  <2> QED
    BY <2>1, <2>2, <1>3 DEF GitHubC05!RunsOf, GitHubC05!Scans
<1>4. ASSUME Quiet, ~GitHubC05!RunsLost, NEW x \in GitHubC05!Scans(world)
      PROVE  x \in GitHubC05!runs
  <2>1. x \in GitHubC05!RunsOf(x.tool) /\ x.tool \in GitHubC05!Scanners(world) \ GitHubC05!Skipped
    BY <1>4 DEF GitHubC05!Scans, GitHubC05!RunsOf
  <2>2. x.tool \in GitHubC05!Matched
    BY <2>1, <1>4, GitHubC05Tools, GitHubC05Setup DEF GitHubC05!Scanners
  <2>3. heard[<<"runs", x.tool>>] # Failed
    BY <2>2, <1>4 DEF GitHubC05!RunsLost
  <2> QED
    BY <2>1, <2>2, <2>3, <1>1 DEF GitHubC05!runs, GitHubC05!Got
<1> QED
  BY <1>2, <1>3, <1>4
LEMMA GitHubC05ToolConfigured ==
  ASSUME GitHubC05Ready, NEW v,
         v = GitHubC05!ConfiguredVerdict(GitHubC05!Matched, GitHubC05!Strong, GitHubC05!setup, GitHubC05!Skipped)
  PROVE  /\ v \in {Pass, Fail, Partial, NotCheckable}
         /\ v = Pass => \E w \in seen : w.setup = "on" \/ \E t \in Tool : w.file[t] = "strong"
         /\ v = Partial => \E w \in seen : GitHubC05!Scanners(w) # {}
         /\ Quiet /\ v = Fail => GitHubC05!Scanners(world) = {}
         /\ v = Fail => GitHubC05!Matched = {} /\ GitHubC05!setup # "on"
         /\ v = NotCheckable =>
              GitHubC05!Matched = {} /\ (GitHubC05!setup = Failed \/ GitHubC05!Skipped # {})
         /\ GitHubC05!Matched # {} => v \in {Pass, Partial}
         /\ (GitHubC05!Matched # {} /\ GitHubC05!Strong) \/ GitHubC05!setup = "on" => v = Pass
<1> USE DEF Pass, Fail, Partial, NotCheckable,
            GitHubC05!Pass, GitHubC05!Fail, GitHubC05!Partial, GitHubC05!NotCheckable
<1>1. "on" # Failed
  BY HistoryAssumption
<1>2. world \in seen /\ \A w \in seen : w.file = world.file
  BY DEF GitHubC05Ready, GitHubC05Heard, GitHubC05!TypeOK, GitHubC05!Typed
<1>3. ASSUME v = Pass
      PROVE  \E w \in seen : w.setup = "on" \/ \E t \in Tool : w.file[t] = "strong"
  <2>1. GitHubC05!Strong \/ GitHubC05!setup = "on"
    BY <1>3 DEF GitHubC05!ConfiguredVerdict
  <2>2. CASE GitHubC05!setup = "on"
    BY <2>2, <1>1, GitHubC05Setup
  <2>3. CASE GitHubC05!Strong
    <3>1. CASE heard[<<"workflows">>]
      BY <3>1, GitHubC05Setup
    <3>2. ASSUME NEW t \in GitHubC05!Matched, world.file[t] = "strong", ~heard[<<"workflows">>]
          PROVE  \E w \in seen : \E u \in Tool : w.file[u] = "strong"
      <4>1. t \in Tool
        BY <3>2, GitHubC05Tools
      <4> QED
        BY <4>1, <3>2, <1>2
    <3> QED
      BY <2>3, <3>1, <3>2, GitHubC05Tools
  <2> QED
    BY <2>1, <2>2, <2>3
<1>4. ASSUME NEW t \in GitHubC05!Matched
      PROVE  \E w \in seen : GitHubC05!Scanners(w) # {}
  <2>1. CASE t \in Tool
    BY <2>1, <1>2, GitHubC05Tools DEF GitHubC05!Scanners
  <2>2. CASE t = CodeQL
    BY <2>2, GitHubC05Tools, GitHubC05Setup DEF GitHubC05!Scanners
  <2> QED
    BY <2>1, <2>2, GitHubC05Tools
<1>5. ASSUME Quiet, GitHubC05!Matched = {}, GitHubC05!Skipped = {}
      PROVE  GitHubC05!Scanners(world) = {}
  BY <1>5, GitHubC05Tools, GitHubC05Setup DEF GitHubC05!Scanners
<1> QED
  BY <1>1, <1>3, <1>4, <1>5 DEF GitHubC05!ConfiguredVerdict

LEMMA GitHubC05Cadence ==
  ASSUME GitHubC05Ready, NEW v, v = GitHubC05!Cadence
  PROVE  /\ v \in {Pass, Fail, Partial, NotCheckable}
         /\ v \in {Pass, Partial} =>
              (\E w \in seen : GitHubC05!Scans(w) # {}) /\ GitHubC05!Matched # {}
         /\ v = Pass => GitHubC05!Strong \/ GitHubC05!setup = "on"
         /\ v = Fail => GitHubC05!Matched # {} \/ GitHubC05!setup = "on"
         /\ Quiet /\ v = Fail => GitHubC05!Scans(world) = {}
         /\ v = NotCheckable =>
              GitHubC05!RunsLost \/ (GitHubC05!Matched = {} /\ GitHubC05!setup # "on")
BY GitHubC05Runs DEF GitHubC05!Cadence, GitHubC05!CadenceVerdict, Pass, Fail, Partial, NotCheckable,
   GitHubC05!Pass, GitHubC05!Fail, GitHubC05!Partial, GitHubC05!NotCheckable

LEMMA GitHubC05RanPerRelease ==
  ASSUME GitHubC05Ready,
         NEW S \in GitHubC05!Selections(GitHubC05!Resolved, GitHubC05!date),
         NEW firsts \in GitHubC05!Firsts(S, GitHubC05!date), NEW v,
         v = GitHubC05!RanPerRelease(GitHubC05!Covering(S, firsts, GitHubC05!date, GitHubC05!runs))
  PROVE  /\ v \in {Pass, Fail, Partial, NotCheckable}
         /\ v = Pass =>
              /\ GitHubC05!AllScanned(world.history.releases, GitHubC05!date,
                                      UNION {GitHubC05!Scans(w) : w \in seen})
              /\ GitHubC05!Matched # {}
         /\ Quiet /\ v = Fail =>
              GitHubC05!SomeUnscanned(world.history.releases, GitHubC05!date, GitHubC05!Scans(world))
         /\ v = Fail => ~(GitHubC05!Matched = {} /\ GitHubC05!Skipped # {})
         /\ v = NotCheckable =>
              \/ GitHubC05!Recent(GitHubC05!Named, GitHubC05!date) = {}
              \/ GitHubC05!Skipped # {} /\ GitHubC05!Matched = {}
              \/ /\ GitHubC05!RunsLost
                 /\ GitHubC05!SomeUnscanned(GitHubC05!Named, GitHubC05!date, GitHubC05!runs)
<1> DEFINE date == GitHubC05!date
           runs == GitHubC05!runs
           Counts(x, r) == GitHubC05Counts(x, r, S, firsts, date)
           covering == GitHubC05!Covering(S, firsts, date, runs)
           cv == GitHubC05!CoverageVerdict(covering, GitHubC05!Dropped)
<1> HIDE DEF date, runs, covering, cv
<1>1. heard[<<"releases">>] = world.history.releases
  BY DEF GitHubC05Ready, GitHubC05Heard, Outcomes, Got
<1>2. /\ S \subseteq GitHubC05!Recent(GitHubC05!Resolved, date)
      /\ S = {} => GitHubC05!Recent(GitHubC05!Resolved, date) = {}
  BY GitHubC05Chosen DEF date
<1>3. GitHubC05!Resolved \subseteq GitHubC05!Named
  BY DEF GitHubC05!Resolved
<1>4. GitHubC05!Recent(world.history.releases, date) = GitHubC05!Recent(GitHubC05!Named, date)
  BY <1>1 DEF GitHubC05!Recent, GitHubC05!Named
<1>5. GitHubC05!Dropped = {} =>
        GitHubC05!Recent(GitHubC05!Resolved, date) = GitHubC05!Recent(GitHubC05!Named, date)
  BY <1>3 DEF GitHubC05!Dropped, GitHubC05!Recent, date
<1>6. /\ cv \in {Pass, Fail, Partial, NotCheckable}
      /\ cv = Pass => S # {} /\ GitHubC05!Dropped = {} /\ \A r \in S : \E x \in runs : x.success /\ Counts(x, r)
      /\ cv = Fail => \E r \in S : \A x \in runs : ~Counts(x, r)
      /\ cv = NotCheckable => S = {} /\ GitHubC05!Dropped = {}
      /\ GitHubC05!Missing(covering) # {} => \E r \in S : \A x \in runs : ~Counts(x, r)
  BY GitHubC05Coverage DEF cv, covering
<1>7. /\ v = cv \/ v = NotCheckable
      /\ v = NotCheckable => \/ GitHubC05!Skipped # {} /\ GitHubC05!Matched = {}
                             \/ GitHubC05!RunsLost /\ GitHubC05!Missing(covering) # {}
                             \/ cv = NotCheckable
      /\ v # NotCheckable => /\ ~(GitHubC05!Matched = {} /\ GitHubC05!Skipped # {})
                             /\ ~(GitHubC05!RunsLost /\ GitHubC05!Missing(covering) # {})
  BY DEF GitHubC05!RanPerRelease, NotCheckable, GitHubC05!NotCheckable, cv, covering, date, runs
\* A release without a run that counts for it has none at all, or shares its date.
<1>8. ASSUME NEW xs, NEW r \in S, \A x \in xs : ~Counts(x, r),
             NEW R, GitHubC05!Named \subseteq R, R \subseteq world.history.releases
      PROVE  GitHubC05!SomeUnscanned(R, date, xs)
  <2>1. S \subseteq GitHubC05!Recent(R, date) /\ S \subseteq {q \in R : q.named}
    BY <1>2, <1>3, <1>8 DEF GitHubC05!Recent, GitHubC05!Named
  <2>2. \A x \in xs : x.commit # r.commit
    BY <1>8 DEF GitHubC05Counts
  <2>3. CASE r \in firsts
    <3>1. \A x \in xs : ~GitHubC05!InWindow(x, r, S, date)
      BY <1>8, <2>3 DEF GitHubC05Counts
    <3>2. \A x \in xs : ~GitHubC05!InWindow(x, r, {q \in R : q.named}, date)
      BY <3>1, <2>1 DEF GitHubC05!InWindow
    <3> QED
      BY <2>1, <2>2, <3>2 DEF GitHubC05!SomeUnscanned
  <2>4. CASE r \notin firsts
    <3>1. PICK f \in firsts : date[f] = date[r]
      BY DEF GitHubC05!Firsts, date
    <3>2. f \in S /\ f # r
      BY <2>4 DEF GitHubC05!Firsts
    <3> QED
      BY <2>1, <2>2, <3>1, <3>2 DEF GitHubC05!SomeUnscanned
  <2> QED
    BY <2>3, <2>4
<1>9. ASSUME v = Pass
      PROVE  GitHubC05!AllScanned(world.history.releases, date, UNION {GitHubC05!Scans(w) : w \in seen})
  <2>1. cv = Pass
    BY <1>7, <1>9 DEF Pass, NotCheckable
  <2>2. S \in GitHubC05!Selections(world.history.releases, date)
    BY <2>1, <1>4, <1>5, <1>6 DEF GitHubC05!Selections, date
  <2>3. runs \subseteq UNION {GitHubC05!Scans(w) : w \in seen}
    BY GitHubC05Runs DEF runs
  <2>4. \A x, r : Counts(x, r) => x.commit = r.commit \/ GitHubC05!InWindow(x, r, S, date)
    BY DEF GitHubC05Counts
  <2> QED
    BY <2>1, <2>2, <2>3, <2>4, <1>6 DEF GitHubC05!AllScanned
<1>10. ASSUME v = Pass
       PROVE  GitHubC05!Matched # {}
  BY <1>6, <1>7, <1>10, GitHubC05Runs DEF Pass, NotCheckable, runs
<1>11. ASSUME Quiet, v = Fail
       PROVE  GitHubC05!SomeUnscanned(world.history.releases, date, GitHubC05!Scans(world))
  <2>1. cv = Fail
    BY <1>7, <1>11 DEF Fail, NotCheckable
  <2>2. GitHubC05!Missing(covering) # {}
    <3>1. DOMAIN covering # {} /\ GitHubC05!Missing(covering) # {}
      BY <2>1 DEF cv, GitHubC05!CoverageVerdict, Fail, GitHubC05!Pass, GitHubC05!Fail, GitHubC05!Partial, GitHubC05!NotCheckable
    <3> QED
      BY <3>1
  <2>3. ~GitHubC05!RunsLost
    BY <2>2, <1>7, <1>11 DEF Fail, NotCheckable
  <2>4. GitHubC05!Scans(world) \subseteq runs
    BY <2>3, <1>11, GitHubC05Runs DEF runs
  <2>5. GitHubC05!Named \subseteq world.history.releases
    BY <1>1 DEF GitHubC05!Named
  <2> QED
    BY <2>1, <2>4, <2>5, <1>6, <1>8
<1>12. GitHubC05!RunsLost /\ GitHubC05!Missing(covering) # {} =>
         GitHubC05!SomeUnscanned(GitHubC05!Named, date, runs)
  BY <1>1, <1>6, <1>8 DEF GitHubC05!Named
<1>13. cv = NotCheckable => GitHubC05!Recent(GitHubC05!Named, date) = {}
  BY <1>2, <1>5, <1>6
<1> QED
  <2>1. v \in {Pass, Fail, Partial, NotCheckable}
    BY <1>6, <1>7
  <2>2. v = Fail => v # NotCheckable
    BY DEF Fail, NotCheckable
  <2> QED
    BY <2>1, <2>2, <1>7, <1>9, <1>10, <1>11, <1>12, <1>13 DEF date, runs
GitHubC05Honest == GitHubC05!VerifiedIsTrue /\ GitHubC05!FailuresStayLocal /\ GitHubC05!PanelsAgree

LEMMA GitHubC05Decide ==
  ASSUME GitHubC05Ready, GitHubC05!Decide
  PROVE  GitHubC05Honest' /\ status' \in [GitHubC05!Check -> {Pass, Fail, Partial, NotCheckable}]
<1> DEFINE tc == GitHubC05!ConfiguredVerdict(GitHubC05!Matched, GitHubC05!Strong, GitHubC05!setup, GitHubC05!Skipped)
           ca == GitHubC05!Cadence
           ds == GitHubC05!SetupVerdict(GitHubC05!setup)
           rr(S, firsts) ==
             GitHubC05!RanPerRelease(GitHubC05!Covering(S, firsts, GitHubC05!date, GitHubC05!runs))
<1>0. PICK S \in GitHubC05!Selections(GitHubC05!Resolved, GitHubC05!date) :
           \E firsts \in GitHubC05!Firsts(S, GitHubC05!date) :
             GitHubC05!Emit([c \in GitHubC05!Check |->
               CASE c = "tool-configured" -> tc
                 [] c = "ran-per-release" -> rr(S, firsts)
                 [] c = "cadence"         -> ca
                 [] c = "default-setup"   -> ds])
  BY DEF GitHubC05!Decide
<1>1. PICK firsts \in GitHubC05!Firsts(S, GitHubC05!date) :
             GitHubC05!Emit([c \in GitHubC05!Check |->
               CASE c = "tool-configured" -> tc
                 [] c = "ran-per-release" -> rr(S, firsts)
                 [] c = "cadence"         -> ca
                 [] c = "default-setup"   -> ds])
  BY <1>0
<1> DEFINE ra == rr(S, firsts)
<1> HIDE DEF tc, ca, ds, rr, ra
<1>2. /\ DOMAIN status' = GitHubC05!Check
      /\ status'["tool-configured"] = tc /\ status'["ran-per-release"] = ra
      /\ status'["cadence"] = ca /\ status'["default-setup"] = ds
      /\ status' = [c \in GitHubC05!Check |-> status'[c]]
      /\ UNCHANGED <<world, heard, seen>>
  BY <1>1 DEF GitHubC05!Emit, GitHubC05!Check, ra
<1>3. /\ GitHubC05!setup' = GitHubC05!setup /\ GitHubC05!Skipped' = GitHubC05!Skipped
      /\ GitHubC05!runs' = GitHubC05!runs /\ GitHubC05!RunsLost' = GitHubC05!RunsLost
      /\ GitHubC05!Named' = GitHubC05!Named
      /\ \A t \in Tool : GitHubC05!Found(t)' = GitHubC05!Found(t)
  BY <1>2 DEF GitHubC05!setup, GitHubC05!Skipped, GitHubC05!runs, GitHubC05!RunsLost, GitHubC05!Named,
     GitHubC05!Matched, GitHubC05!Found, GitHubC05!Got
<1>4. \A s : /\ GitHubC05!Is("tool-configured", s)' <=> status' # Undecided /\ tc = s
             /\ GitHubC05!Is("ran-per-release", s)' <=> status' # Undecided /\ ra = s
             /\ GitHubC05!Is("cadence", s)' <=> status' # Undecided /\ ca = s
             /\ GitHubC05!Is("default-setup", s)' <=> status' # Undecided /\ ds = s
  BY <1>2 DEF GitHubC05!Is
<1>5. \A w : GitHubC05!Scans(w)' = GitHubC05!Scans(w)
  BY <1>3 DEF GitHubC05!Scans
<1> USE DEF Pass, Fail, Partial, NotCheckable,
            GitHubC05!Pass, GitHubC05!Fail, GitHubC05!Partial, GitHubC05!NotCheckable
<1>6. /\ ds \in {Pass, Fail, NotCheckable}
      /\ ds = Pass => GitHubC05!setup = "on"
      /\ ds = Fail => GitHubC05!setup = "off"
      /\ ds = NotCheckable => GitHubC05!setup \notin {"on", "off"}
  BY DEF GitHubC05!SetupVerdict, ds
<1>7. /\ "on" # Failed /\ "off" # Failed
      /\ \A w \in seen : w.setup \in {"on", "off", "gated"}
  BY HistoryAssumption DEF GitHubC05Ready, GitHubC05!TypeOK, GitHubC05!Typed, GitHubC05!World
<1>8. GitHubC05!setup = Failed \/ \E w \in seen : GitHubC05!setup = w.setup
  BY GitHubC05Setup
<1>9. status' \in [GitHubC05!Check -> {Pass, Fail, Partial, NotCheckable}]
  <2>1. \A c \in GitHubC05!Check : status'[c] \in {Pass, Fail, Partial, NotCheckable}
    BY <1>2, <1>6, GitHubC05ToolConfigured, GitHubC05Cadence, GitHubC05RanPerRelease
    DEF GitHubC05!Check, tc, ca, ra, rr
  <2> QED
    BY <2>1, <1>2
<1>10. GitHubC05!PassWasTrue'
  <2>1. tc = Pass => \E w \in seen : w.setup = "on" \/ \E t \in Tool : w.file[t] = "strong"
    BY GitHubC05ToolConfigured DEF tc
  <2>2. tc = Partial => \E w \in seen : GitHubC05!Scanners(w) # {}
    BY GitHubC05ToolConfigured DEF tc
  <2>3. ra = Pass => GitHubC05!AllScanned(world.history.releases, GitHubC05!date,
                                          UNION {GitHubC05!Scans(w) : w \in seen})
    BY GitHubC05RanPerRelease DEF ra, rr
  <2>4. ca \in {Pass, Partial} => \E w \in seen : GitHubC05!Scans(w) # {}
    BY GitHubC05Cadence DEF ca
  <2>5. ds = Pass => \E w \in seen : w.setup = "on"
    BY <1>6, <1>7, <1>8
  <2>6. (UNION {GitHubC05!Scans(w) : w \in seen})' = UNION {GitHubC05!Scans(w) : w \in seen}
    BY <1>2, <1>5
  <2> QED
    BY <2>1, <2>2, <2>3, <2>4, <2>5, <2>6, <1>2, <1>4, <1>5 DEF GitHubC05!PassWasTrue
<1>11. GitHubC05!FailIsAbsence'
  <2> SUFFICES ASSUME Quiet PROVE GitHubC05!FailIsAbsence'
    BY <1>2 DEF GitHubC05!FailIsAbsence, GitHubC05!Quiet, Quiet
  <2>1. tc = Fail => GitHubC05!Scanners(world) = {}
    BY GitHubC05ToolConfigured DEF tc
  <2>2. ra = Fail => GitHubC05!SomeUnscanned(world.history.releases, GitHubC05!date, GitHubC05!Scans(world))
    BY GitHubC05RanPerRelease DEF ra, rr
  <2>3. ca = Fail => GitHubC05!Scans(world) = {}
    BY GitHubC05Cadence DEF ca
  <2>4. ds = Fail => world.setup = "off"
    BY <1>6, <1>7, <1>8 DEF Quiet
  <2>5. GitHubC05!Scans(world)' = GitHubC05!Scans(world)
    BY <1>2, <1>3 DEF GitHubC05!Scans
  <2> QED
    BY <2>1, <2>2, <2>3, <2>4, <2>5, <1>2, <1>4 DEF GitHubC05!FailIsAbsence
<1>12. GitHubC05!FailuresStayLocal'
  <2>1. tc = NotCheckable => GitHubC05!setup = Failed \/ GitHubC05!Skipped # {}
    BY GitHubC05ToolConfigured DEF tc
  <2>2. ca = NotCheckable => GitHubC05!RunsLost \/ tc # Pass
    <3>1. GitHubC05!Matched = {} => ~GitHubC05!Strong
      BY GitHubC05Tools
    <3>2. tc = Pass => GitHubC05!Strong \/ GitHubC05!setup = "on"
      BY DEF tc, GitHubC05!ConfiguredVerdict
    <3> QED
      BY <3>1, <3>2, GitHubC05Cadence DEF ca
  <2>3. GitHubC05!Matched = {} => \A t \in Tool : ~GitHubC05!Found(t)
    BY DEF GitHubC05!Matched
  <2>4. ra = NotCheckable =>
          \/ GitHubC05!Recent(GitHubC05!Named, GitHubC05!date) = {}
          \/ GitHubC05!Skipped # {} /\ \A t \in Tool : ~GitHubC05!Found(t)
          \/ /\ GitHubC05!RunsLost
             /\ GitHubC05!SomeUnscanned(GitHubC05!Named, GitHubC05!date, GitHubC05!runs)
    BY <2>3, GitHubC05RanPerRelease DEF ra, rr
  <2>5. ds = NotCheckable => GitHubC05!setup \in {Failed, "gated"}
    BY <1>6, <1>7, <1>8
  <2> QED
    BY <2>1, <2>2, <2>4, <2>5, <1>3, <1>4 DEF GitHubC05!FailuresStayLocal
<1>13. GitHubC05!PanelsAgree'
  <2>1. ca \in {Pass, Partial, Fail} => tc \in {Pass, Partial}
    BY GitHubC05ToolConfigured, GitHubC05Cadence DEF tc, ca
  <2>2. ca = Pass => tc = Pass
    BY GitHubC05ToolConfigured, GitHubC05Cadence DEF tc, ca
  <2>3. ds = Pass => tc = Pass
    BY <1>6, GitHubC05ToolConfigured DEF tc
  <2>4. tc \in {Fail, NotCheckable} => ra # Pass
    BY GitHubC05ToolConfigured, GitHubC05RanPerRelease DEF tc, ra, rr
  <2>5. tc = NotCheckable /\ ra = Fail => GitHubC05!setup = Failed
    BY GitHubC05ToolConfigured, GitHubC05RanPerRelease DEF tc, ra, rr
  <2> QED
    BY <2>1, <2>2, <2>3, <2>4, <2>5, <1>3, <1>4 DEF GitHubC05!PanelsAgree, GitHubC05!ChecksAgree
<1> QED
  BY <1>9, <1>10, <1>11, <1>12, <1>13 DEF GitHubC05Honest, GitHubC05!VerifiedIsTrue
GitHubC05Inv == GitHubC05!TypeOK /\ GitHubC05Heard /\ GitHubC05Honest

\* Nothing is claimed until there are statuses.
LEMMA GitHubC05Silent == status = Undecided => GitHubC05Honest
BY DEF GitHubC05Honest, GitHubC05!VerifiedIsTrue, GitHubC05!PassWasTrue, GitHubC05!FailIsAbsence,
   GitHubC05!FailuresStayLocal, GitHubC05!PanelsAgree, GitHubC05!ChecksAgree, GitHubC05!Is

LEMMA GitHubC05Reads ==
  ASSUME GitHubC05Inv, NEW c \in GitHubC05!Call, NEW answer, GitHubC05!Get(c, answer),
         c = <<"workflows">> => answer = (world.setup = "on"),
         \A t \in Tool : c = <<"file", t>> => answer = world.file[t],
         c = <<"releases">> =>
           /\ answer = world.history.releases
           /\ Got(<<"workflows">>) /\ \A t \in Tool : heard[<<"file", t>>] # Unasked,
         \A t \in Tool \cup {CodeQL} : c = <<"runs", t>> => answer = GitHubC05!RunsOf(t),
         c = <<"setup">> =>
           /\ answer = world.setup
           /\ Got(<<"releases">>) /\ \A t \in GitHubC05!Matched : heard[<<"runs", t>>] # Unasked
  PROVE  GitHubC05Inv'
<1>1. PICK a \in {answer, Failed} : heard' = [heard EXCEPT ![c] = a]
  BY DEF GitHubC05!Get
<1>2. heard[c] = Unasked /\ status = Undecided /\ UNCHANGED <<world, status, seen>>
  BY DEF GitHubC05!Get
<1>3. GitHubC05!TypeOK'
  BY <1>1, <1>2 DEF GitHubC05Inv, GitHubC05!TypeOK, GitHubC05!Typed
<1>4. world \in seen /\ DOMAIN heard = GitHubC05!Call
  BY DEF GitHubC05Inv, GitHubC05!TypeOK, GitHubC05!Typed
<1>5. GitHubC05Heard'
  <2>1. /\ <<"workflows">> \in GitHubC05!Call /\ <<"releases">> \in GitHubC05!Call
        /\ <<"setup">> \in GitHubC05!Call
        /\ \A t \in Tool : <<"file", t>> \in GitHubC05!Call
        /\ \A t \in Tool \cup {CodeQL} : <<"runs", t>> \in GitHubC05!Call
    BY DEF GitHubC05!Call, GitHubC05!Files
  <2>2. \A d \in GitHubC05!Call : heard'[d] = IF d = c THEN a ELSE heard[d]
    BY <1>1, <1>4
  <2>3. \A w \in seen' : w.file = world'.file /\ w.history = world'.history
    BY <1>2 DEF GitHubC05Inv, GitHubC05Heard
  <2>4. heard'[<<"workflows">>] \in Outcomes({w.setup = "on" : w \in seen'})
    BY <2>1, <2>2, <1>2, <1>4 DEF GitHubC05Inv, GitHubC05Heard, Outcomes
  <2>5. \A t \in Tool : heard'[<<"file", t>>] \in Outcomes({world'.file[t]})
    BY <2>1, <2>2, <1>2 DEF GitHubC05Inv, GitHubC05Heard, Outcomes
  <2>6. heard'[<<"releases">>] \in Outcomes({world'.history.releases})
    BY <2>1, <2>2, <1>2 DEF GitHubC05Inv, GitHubC05Heard, Outcomes
  <2>7. \A t \in Tool \cup {CodeQL} : heard'[<<"runs", t>>] \in Outcomes({GitHubC05!RunsOf(t)'})
    <3>1. \A t : GitHubC05!RunsOf(t)' = GitHubC05!RunsOf(t)
      BY <1>2 DEF GitHubC05!RunsOf
    <3> QED
      BY <3>1, <2>1, <2>2, <1>2 DEF GitHubC05Inv, GitHubC05Heard, Outcomes
  <2>8. heard'[<<"setup">>] \in Outcomes({w.setup : w \in seen'})
    BY <2>1, <2>2, <1>2, <1>4 DEF GitHubC05Inv, GitHubC05Heard, Outcomes
  <2>9. Got(<<"releases">>)' =>
          Got(<<"workflows">>)' /\ \A t \in Tool : heard'[<<"file", t>>] # Unasked
    <3>1. ASSUME c # <<"releases">>, heard[<<"releases">>] # Unasked, Got(<<"releases">>)
          PROVE  Got(<<"workflows">>)' /\ \A t \in Tool : heard'[<<"file", t>>] # Unasked
      BY <3>1, <2>1, <2>2, <1>2 DEF GitHubC05Inv, GitHubC05Heard, Got
    <3>2. ASSUME c = <<"releases">>
          PROVE  Got(<<"workflows">>)' /\ \A t \in Tool : heard'[<<"file", t>>] # Unasked
      BY <3>2, <2>1, <2>2, <1>2 DEF Got
    <3> QED
      BY <3>1, <3>2, <2>1, <2>2 DEF Got
  <2>10. heard'[<<"setup">>] # Unasked =>
           Got(<<"releases">>)' /\ \A t \in GitHubC05!Matched' : heard'[<<"runs", t>>] # Unasked
    <3> SUFFICES ASSUME heard'[<<"setup">>] # Unasked
                 PROVE  Got(<<"releases">>)' /\ \A t \in GitHubC05!Matched' : heard'[<<"runs", t>>] # Unasked
      OBVIOUS
    <3>1. Got(<<"releases">>) /\ \A t \in GitHubC05!Matched : heard[<<"runs", t>>] # Unasked
      BY <2>1, <2>2 DEF GitHubC05Inv, GitHubC05Heard
    <3>2. /\ c # <<"releases">> /\ c # <<"workflows">>
          /\ \A t \in Tool : c # <<"file", t>>
      BY <3>1, <1>2 DEF GitHubC05Inv, GitHubC05Heard, Got
    <3>3. /\ heard'[<<"workflows">>] = heard[<<"workflows">>]
          /\ \A t \in Tool : heard'[<<"file", t>>] = heard[<<"file", t>>]
          /\ heard'[<<"releases">>] = heard[<<"releases">>]
      BY <3>2, <2>1, <2>2
    <3>4. GitHubC05!Matched' = GitHubC05!Matched
      <4>1. \A t \in Tool : GitHubC05!Found(t)' <=> GitHubC05!Found(t)
        BY <3>3 DEF GitHubC05!Found, GitHubC05!Got
      <4> QED
        BY <4>1, <3>3 DEF GitHubC05!Matched
    <3>5. \A t \in GitHubC05!Matched : heard'[<<"runs", t>>] # Unasked
      <4>1. GitHubC05!Matched \subseteq Tool \cup {CodeQL}
        BY DEF GitHubC05!Matched
      <4> QED
        BY <4>1, <3>1, <2>1, <2>2, <1>2
    <3> QED
      BY <3>1, <3>3, <3>4, <3>5 DEF Got
  <2> QED
    BY <2>3, <2>4, <2>5, <2>6, <2>7, <2>8, <2>9, <2>10 DEF GitHubC05Heard
<1> QED
  BY <1>2, <1>3, <1>5, GitHubC05Silent DEF GitHubC05Inv, GitHubC05Honest, GitHubC05!VerifiedIsTrue,
     GitHubC05!PassWasTrue, GitHubC05!FailIsAbsence, GitHubC05!FailuresStayLocal, GitHubC05!PanelsAgree,
     GitHubC05!ChecksAgree, GitHubC05!Is

LEMMA GitHubC05Init == GitHubC05!Init => GitHubC05Inv
<1> SUFFICES ASSUME GitHubC05!Init PROVE GitHubC05Inv
  OBVIOUS
<1>1. /\ world \in GitHubC05!World /\ seen = {world} /\ status = Undecided
      /\ heard = [c \in GitHubC05!Call |-> Unasked]
  BY DEF GitHubC05!Init, GitHubC05!InitWith
<1>2. GitHubC05!TypeOK
  BY <1>1 DEF GitHubC05!TypeOK, GitHubC05!Typed
<1>3. GitHubC05Heard
  BY <1>1 DEF GitHubC05Heard, Outcomes, Got, GitHubC05!Call, GitHubC05!Files
<1> QED
  BY <1>1, <1>2, <1>3, GitHubC05Silent DEF GitHubC05Inv

LEMMA GitHubC05Next == GitHubC05Inv /\ [GitHubC05!Next]_vars => GitHubC05Inv'
<1> SUFFICES ASSUME GitHubC05Inv, [GitHubC05!Next]_vars PROVE GitHubC05Inv'
  OBVIOUS
<1>1. CASE GitHubC05!ReadRepository
  <2>1. GitHubC05!Get(<<"repository">>, TRUE) /\ <<"repository">> \in GitHubC05!Call
    BY <1>1 DEF GitHubC05!ReadRepository, GitHubC05!Call
  <2>2. /\ <<"repository">> # <<"workflows">> /\ <<"repository">> # <<"releases">>
        /\ <<"repository">> # <<"setup">>
        /\ \A t : <<"repository">> # <<"file", t>> /\ <<"repository">> # <<"runs", t>>
    OBVIOUS
  <2> QED
    BY <2>1, <2>2, GitHubC05Reads
<1>2. CASE GitHubC05!ListWorkflows
  BY <1>2, GitHubC05Reads DEF GitHubC05!ListWorkflows, GitHubC05!Call
<1>3. ASSUME NEW t \in Tool, GitHubC05!ReadFile(t)
      PROVE  GitHubC05Inv'
  BY <1>3, GitHubC05Reads DEF GitHubC05!ReadFile, GitHubC05!Call, GitHubC05!Files
<1>4. CASE GitHubC05!ListReleases
  BY <1>4, GitHubC05Reads DEF GitHubC05!ListReleases, GitHubC05!Call, GitHubC05!Asked, GitHubC05!Files,
     GitHubC05!Got, Got
<1>5. ASSUME NEW r \in Release, GitHubC05!ResolveTag(r)
      PROVE  GitHubC05Inv'
  BY <1>5, GitHubC05Reads DEF GitHubC05!ResolveTag, GitHubC05!Call
<1>6. ASSUME NEW t \in Tool \cup {CodeQL}, GitHubC05!ReadRuns(t)
      PROVE  GitHubC05Inv'
  BY <1>6, GitHubC05Reads DEF GitHubC05!ReadRuns, GitHubC05!Call
<1>7. CASE GitHubC05!ReadSetup
  BY <1>7, GitHubC05Reads DEF GitHubC05!ReadSetup, GitHubC05!Call, GitHubC05!Asked, GitHubC05!Got, Got
<1>8. CASE GitHubC05!GiveUp
  <2>1. status' = [c \in GitHubC05!Check |-> NotCheckable] /\ UNCHANGED <<world, heard, seen>>
        /\ \E c \in {<<"repository">>, <<"workflows">>, <<"releases">>} : heard[c] = Failed
    BY <1>8 DEF GitHubC05!GiveUp, GitHubC05!Emit, GitHubC05!AllNotCheckable, GitHubC05!NotCheckable, NotCheckable
  <2>2. \A c \in GitHubC05!Check : \A s : GitHubC05!Is(c, s)' => s = NotCheckable
    BY <2>1 DEF GitHubC05!Is
  <2>3. /\ "tool-configured" \in GitHubC05!Check /\ "ran-per-release" \in GitHubC05!Check
        /\ "cadence" \in GitHubC05!Check /\ "default-setup" \in GitHubC05!Check
    BY DEF GitHubC05!Check
  <2>4. GitHubC05!TypeOK' /\ GitHubC05Heard'
    <3>1. \A t : GitHubC05!RunsOf(t)' = GitHubC05!RunsOf(t)
      BY <2>1 DEF GitHubC05!RunsOf
    <3>2. GitHubC05!Matched' = GitHubC05!Matched
      BY <2>1 DEF GitHubC05!Matched, GitHubC05!Found, GitHubC05!Got
    <3>3. GitHubC05Heard'
      BY <3>1, <3>2, <2>1 DEF GitHubC05Inv, GitHubC05Heard, Got
    <3> QED
      BY <3>3, <2>1 DEF GitHubC05Inv, GitHubC05!TypeOK, GitHubC05!Typed, NotCheckable, GitHubC05!NotCheckable
  <2>5. GitHubC05Honest'
    BY <2>1, <2>2, <2>3 DEF GitHubC05Honest, GitHubC05!VerifiedIsTrue, GitHubC05!PassWasTrue,
       GitHubC05!FailIsAbsence, GitHubC05!FailuresStayLocal, GitHubC05!PanelsAgree, GitHubC05!ChecksAgree,
       Pass, Fail, Partial, NotCheckable, GitHubC05!Pass, GitHubC05!Fail, GitHubC05!Partial,
       GitHubC05!NotCheckable
  <2> QED
    BY <2>4, <2>5 DEF GitHubC05Inv
<1>9. CASE GitHubC05!Decide
  <2>1. UNCHANGED <<world, heard, seen>>
    BY <1>9 DEF GitHubC05!Decide, GitHubC05!Emit
  <2>2. GitHubC05Ready
    BY <1>9 DEF GitHubC05!Decide, GitHubC05!Asked, GitHubC05Ready, GitHubC05Inv
  <2>3. GitHubC05Heard'
    <3>1. \A t : GitHubC05!RunsOf(t)' = GitHubC05!RunsOf(t)
      BY <2>1 DEF GitHubC05!RunsOf
    <3>2. GitHubC05!Matched' = GitHubC05!Matched
      BY <2>1 DEF GitHubC05!Matched, GitHubC05!Found, GitHubC05!Got
    <3> QED
      BY <3>1, <3>2, <2>1 DEF GitHubC05Inv, GitHubC05Heard, Got
  <2>4. status' \in [GitHubC05!Check -> {Pass, Fail, Partial, NotCheckable}] /\ GitHubC05Honest'
    BY <1>9, <2>2, GitHubC05Decide
  <2>5. GitHubC05!TypeOK'
    BY <2>1, <2>4 DEF GitHubC05Inv, GitHubC05!TypeOK, GitHubC05!Typed, Pass, Fail, Partial, NotCheckable,
       GitHubC05!Pass, GitHubC05!Fail, GitHubC05!Partial, GitHubC05!NotCheckable
  <2> QED
    BY <2>3, <2>4, <2>5 DEF GitHubC05Inv
<1>10. CASE GitHubC05!Edit
  <2>1. PICK w : /\ w \in {[world EXCEPT !.setup = s] : s \in {"on", "off"}}
                 /\ world' = w /\ seen' = seen \cup {w}
    BY <1>10 DEF GitHubC05!Edit, GitHubC05!Change
  <2>2. status = Undecided /\ UNCHANGED <<heard, status>>
    BY <1>10 DEF GitHubC05!Edit, GitHubC05!Change
  <2>3. w \in GitHubC05!World /\ w.file = world.file /\ w.history = world.history
    BY <2>1 DEF GitHubC05Inv, GitHubC05!TypeOK, GitHubC05!Typed, GitHubC05!World
  <2>4. GitHubC05!TypeOK'
    BY <2>1, <2>2, <2>3 DEF GitHubC05Inv, GitHubC05!TypeOK, GitHubC05!Typed
  <2>5. GitHubC05Heard'
    <3>1. \A t : GitHubC05!RunsOf(t)' = GitHubC05!RunsOf(t)
      BY <2>1, <2>3 DEF GitHubC05!RunsOf
    <3>2. GitHubC05!Matched' = GitHubC05!Matched
      BY <2>2 DEF GitHubC05!Matched, GitHubC05!Found, GitHubC05!Got
    <3> QED
      BY <3>1, <3>2, <2>1, <2>2, <2>3 DEF GitHubC05Inv, GitHubC05Heard, Outcomes, Got
  <2>6. status' = Undecided => GitHubC05Honest'
    BY DEF GitHubC05Honest, GitHubC05!VerifiedIsTrue, GitHubC05!PassWasTrue, GitHubC05!FailIsAbsence,
       GitHubC05!FailuresStayLocal, GitHubC05!PanelsAgree, GitHubC05!ChecksAgree, GitHubC05!Is
  <2> QED
    BY <2>2, <2>4, <2>5, <2>6 DEF GitHubC05Inv
<1>11. CASE UNCHANGED vars
  <2>1. UNCHANGED <<world, heard, status, seen>>
    BY <1>11 DEF vars
  <2>2. \A t : GitHubC05!RunsOf(t)' = GitHubC05!RunsOf(t)
    BY <2>1 DEF GitHubC05!RunsOf
  <2>3. \A t : GitHubC05!Found(t)' = GitHubC05!Found(t)
    BY <2>1 DEF GitHubC05!Found, GitHubC05!Got
  <2>4. GitHubC05!Matched' = GitHubC05!Matched
    BY <2>1, <2>3 DEF GitHubC05!Matched
  <2>5. /\ GitHubC05!Skipped' = GitHubC05!Skipped /\ GitHubC05!setup' = GitHubC05!setup
        /\ GitHubC05!Named' = GitHubC05!Named
    BY <2>1 DEF GitHubC05!Skipped, GitHubC05!setup, GitHubC05!Named
  <2>6. GitHubC05!runs' = GitHubC05!runs /\ GitHubC05!RunsLost' = GitHubC05!RunsLost
    BY <2>1, <2>4 DEF GitHubC05!runs, GitHubC05!RunsLost, GitHubC05!Got
  <2>7. \A w : GitHubC05!Scans(w)' = GitHubC05!Scans(w)
    BY <2>5 DEF GitHubC05!Scans
  <2>8. \A c, s : GitHubC05!Is(c, s)' <=> GitHubC05!Is(c, s)
    BY <2>1 DEF GitHubC05!Is
  <2>9. GitHubC05Heard' /\ GitHubC05!TypeOK'
    BY <2>1, <2>2, <2>4 DEF GitHubC05Inv, GitHubC05Heard, Got, GitHubC05!TypeOK, GitHubC05!Typed
  <2>10. GitHubC05!PassWasTrue' = GitHubC05!PassWasTrue
    BY <2>1, <2>7, <2>8 DEF GitHubC05!PassWasTrue
  <2>11. GitHubC05!FailIsAbsence' = GitHubC05!FailIsAbsence
    <3>1. GitHubC05!Scans(world)' = GitHubC05!Scans(world)
      BY <2>1, <2>5 DEF GitHubC05!Scans
    <3> QED
      BY <3>1, <2>1, <2>8 DEF GitHubC05!FailIsAbsence, GitHubC05!Quiet
  <2>12. GitHubC05!FailuresStayLocal' = GitHubC05!FailuresStayLocal
    BY <2>1, <2>3, <2>5, <2>6, <2>8 DEF GitHubC05!FailuresStayLocal
  <2>13. GitHubC05!PanelsAgree' = GitHubC05!PanelsAgree
    BY <2>5, <2>8 DEF GitHubC05!PanelsAgree, GitHubC05!ChecksAgree
  <2> QED
    BY <2>9, <2>10, <2>11, <2>12, <2>13 DEF GitHubC05Inv, GitHubC05Honest, GitHubC05!VerifiedIsTrue
<1> QED
  BY <1>1, <1>2, <1>3, <1>4, <1>5, <1>6, <1>7, <1>8, <1>9, <1>10, <1>11 DEF GitHubC05!Next
-----------------------------------------------------------------------------
LEMMA AzureC05Chosen ==
  ASSUME NEW R, NEW date, NEW S \in AzureC05!Selections(R, date)
  PROVE  /\ S \subseteq AzureC05!Recent(R, date)
         /\ S = {} => AzureC05!Recent(R, date) = {}
<1>1. Lookback # 0 /\ AzureC05!Cardinality({}) = 0
  BY HistoryAssumption, FS_EmptySet, SameCount
<1> QED
  BY <1>1 DEF AzureC05!Selections

AzureC05Counts(x, r, S, firsts, date) ==
  x.commit = r.commit \/ (r \in firsts /\ AzureC05!InWindow(x, r, S, date))

LEMMA AzureC05Coverage ==
  ASSUME NEW S, NEW firsts, NEW date, NEW runs, NEW dropped, NEW verdict,
         verdict = AzureC05!CoverageVerdict(AzureC05!Covering(S, firsts, date, runs), dropped)
  PROVE  /\ verdict \in {Pass, Fail, Partial, NotCheckable}
         /\ verdict = Pass =>
              /\ S # {} /\ dropped = {}
              /\ \A r \in S : \E x \in runs : x.success /\ AzureC05Counts(x, r, S, firsts, date)
         /\ verdict = Fail =>
              \E r \in S : \A x \in runs : ~AzureC05Counts(x, r, S, firsts, date)
         /\ verdict = NotCheckable => S = {} /\ dropped = {}
<1> DEFINE covering == AzureC05!Covering(S, firsts, date, runs)
<1>1. /\ DOMAIN covering = S
      /\ \A r \in S : covering[r] = {x \in runs : AzureC05Counts(x, r, S, firsts, date)}
  BY DEF AzureC05!Covering, AzureC05Counts
<1> HIDE DEF covering
<1>2. AzureC05!Missing(covering) # {} =>
        \E r \in S : \A x \in runs : ~AzureC05Counts(x, r, S, firsts, date)
  BY <1>1 DEF AzureC05!Missing
<1>3. AzureC05!Missing(covering) = {} /\ AzureC05!Unclean(covering) = {} =>
        \A r \in S : \E x \in runs : x.success /\ AzureC05Counts(x, r, S, firsts, date)
  BY <1>1 DEF AzureC05!Unclean
<1>4. verdict = AzureC05!CoverageVerdict(covering, dropped)
  BY DEF covering
<1> QED
  BY <1>1, <1>2, <1>3, <1>4 DEF AzureC05!CoverageVerdict, Pass, Fail, Partial, NotCheckable,
     AzureC05!Pass, AzureC05!Fail, AzureC05!Partial, AzureC05!NotCheckable

\* The pipelines were all inspected before the tags were asked for.
AzureC05Inspected ==
  /\ Got(<<"repositories">>) /\ Got(<<"pipelines">>)
  /\ \A t \in Tool : heard[<<"definition", t>>] # Unasked
  /\ \A t \in Tool : AzureC05!HasFile(t) => heard[<<"file", t>>] # Unasked

\* Nothing changes on Azure DevOps during a collection, so that all answers are about one world.
AzureC05Heard ==
  /\ seen = {world}
  /\ heard[<<"repositories">>] \in Outcomes({world.found})
  /\ \A t \in Tool : heard[<<"definition", t>>] \in Outcomes({world.pipeline[t]})
  /\ \A t \in Tool : heard[<<"file", t>>] \in
       Outcomes({[found |-> world.pipeline[t].file, template |-> world.pipeline[t].template]})
  /\ heard[<<"releases">>] \in Outcomes({world.history.releases})
  /\ heard[<<"builds">>] \in Outcomes({AzureC05!BuildsOf(AzureC05!Matched)})
  /\ heard[<<"setup">>] \in Outcomes({world.setup})
  /\ Got(<<"pipelines">>) => Got(<<"repositories">>)
  /\ heard[<<"releases">>] # Unasked => AzureC05Inspected
  /\ heard[<<"builds">>] # Unasked => Got(<<"releases">>)
  /\ heard[<<"setup">>] # Unasked =>
       /\ Got(<<"releases">>)
       /\ AzureC05!Matched # {} => heard[<<"builds">>] # Unasked

AzureC05Ready == AzureC05!TypeOK /\ AzureC05Heard /\ heard[<<"setup">>] # Unasked

LEMMA AzureC05Tools ==
  ASSUME AzureC05Ready
  PROVE  /\ AzureC05!Matched = AzureC05!Scanners(world) \cap AzureC05!Read
         /\ \A t \in AzureC05!Matched : AzureC05!Content(t).found = world.pipeline[t].file
         /\ AzureC05!Skipped = {} =>
              \A t \in Tool : world.pipeline[t].repository = "this" =>
                \/ heard[<<"definition", t>>] = Failed
                \/ AzureC05!Plain(world, t) /\ (t \in AzureC05!Scanners(world) => t \in AzureC05!Matched)
<1>1. \A t \in Tool : heard[<<"definition", t>>] \in {Failed, world.pipeline[t]}
                      /\ heard[<<"definition", t>>] # Unasked
  BY DEF AzureC05Ready, AzureC05Heard, AzureC05Inspected, Outcomes, Got
<1>2. \A t \in Tool : AzureC05!HasFile(t) =>
        /\ heard[<<"file", t>>] # Unasked
        /\ heard[<<"file", t>>] \in
             {Failed, [found |-> world.pipeline[t].file, template |-> world.pipeline[t].template]}
  BY DEF AzureC05Ready, AzureC05Heard, AzureC05Inspected, Outcomes, Got
<1>3. \A t \in Tool : AzureC05!HasFile(t) <=>
        heard[<<"definition", t>>] # Failed /\ world.pipeline[t].process = "yaml"
  BY <1>1 DEF AzureC05!HasFile, AzureC05!Definition, AzureC05!Got
<1>4. \A t \in Tool : t \in AzureC05!Ours <=>
        heard[<<"definition", t>>] # Failed /\ world.pipeline[t].repository = "this"
  BY <1>1 DEF AzureC05!Ours, AzureC05!Definition, AzureC05!Got
<1>5. \A t \in Tool : t \in AzureC05!Read <=>
        t \in AzureC05!Ours /\ AzureC05!HasFile(t) /\ heard[<<"file", t>>] # Failed
  BY <1>2, <1>4 DEF AzureC05!Read, AzureC05!Got, AzureC05!Ours
<1>6. ASSUME NEW t \in AzureC05!Read
      PROVE  /\ t \in Tool
             /\ AzureC05!Content(t).found = world.pipeline[t].file
             /\ AzureC05!Content(t).template = world.pipeline[t].template
  <2>1. t \in Tool
    BY DEF AzureC05!Read, AzureC05!Ours
  <2>2. heard[<<"file", t>>] = [found |-> world.pipeline[t].file, template |-> world.pipeline[t].template]
    BY <2>1, <1>2, <1>5
  <2> QED
    BY <2>1, <2>2 DEF AzureC05!Content
<1>7. AzureC05!Matched = AzureC05!Scanners(world) \cap AzureC05!Read
  BY <1>3, <1>4, <1>5, <1>6 DEF AzureC05!Matched, AzureC05!Scanners
<1>8. ASSUME AzureC05!Skipped = {}, NEW t \in Tool, world.pipeline[t].repository = "this",
             heard[<<"definition", t>>] # Failed
      PROVE  AzureC05!Plain(world, t) /\ (t \in AzureC05!Scanners(world) => t \in AzureC05!Matched)
  <2>1. t \in AzureC05!Ours /\ AzureC05!Definition(t) = world.pipeline[t]
    BY <1>1, <1>4, <1>8 DEF AzureC05!Definition
  <2>2. world.pipeline[t].process # "pathless"
    BY <2>1, <1>8 DEF AzureC05!Skipped
  <2>3. world.pipeline[t] \in AzureC05!Pipelines
    BY PipelineAssumption DEF AzureC05Ready, AzureC05!TypeOK, AzureC05!Typed, AzureC05!World
  <2>4. world.pipeline[t].process \in {"yaml", "classic"}
    BY <2>2, <2>3 DEF AzureC05!Pipelines
  <2>5. CASE world.pipeline[t].process = "classic"
    BY <2>5 DEF AzureC05!Plain, AzureC05!Scanners
  <2>6. CASE world.pipeline[t].process = "yaml"
    <3>1. AzureC05!HasFile(t)
      BY <2>6, <1>3, <1>8
    <3>2. heard[<<"file", t>>] # Failed
      BY <3>1, <2>1, <1>8 DEF AzureC05!Skipped
    <3>3. t \in AzureC05!Read
      BY <3>1, <3>2, <2>1, <1>5
    <3>4. ~AzureC05!Content(t).template
      BY <3>3, <2>1, <1>8 DEF AzureC05!Skipped
    <3> QED
      BY <3>3, <3>4, <2>6, <1>6, <1>7 DEF AzureC05!Plain
  <2> QED
    BY <2>4, <2>5, <2>6
<1> QED
  BY <1>6, <1>7, <1>8

LEMMA AzureC05Runs ==
  ASSUME AzureC05Ready
  PROVE  /\ AzureC05!runs \subseteq AzureC05!Scans(world)
         /\ AzureC05!BuildsLost \/ AzureC05!runs = AzureC05!Scans(world)
         /\ AzureC05!runs # {} => AzureC05!Matched # {}
<1>1. AzureC05!Scans(world) = AzureC05!BuildsOf(AzureC05!Matched)
  BY AzureC05Tools DEF AzureC05!Scans, AzureC05!BuildsOf
<1>2. AzureC05!Matched = {} => AzureC05!BuildsOf(AzureC05!Matched) = {}
  BY DEF AzureC05!BuildsOf
<1>3. heard[<<"builds">>] \in {Unasked, Failed, AzureC05!BuildsOf(AzureC05!Matched)}
  BY DEF AzureC05Ready, AzureC05Heard, Outcomes
<1>4. heard[<<"builds">>] = Unasked => AzureC05!Matched = {}
  BY DEF AzureC05Ready, AzureC05Heard
<1> QED
  BY <1>1, <1>2, <1>3, <1>4 DEF AzureC05!runs, AzureC05!Got, AzureC05!BuildsLost

LEMMA AzureC05ToolConfigured ==
  ASSUME AzureC05Ready, NEW v,
         v = AzureC05!ConfiguredVerdict(AzureC05!Matched, AzureC05!Strong, AzureC05!setup, AzureC05!Skipped)
  PROVE  /\ v \in {Pass, Fail, Partial, NotCheckable}
         /\ v = Pass => \/ world.setup = "on"
                        \/ \E t \in AzureC05!Scanners(world) : world.pipeline[t].file = "strong"
         /\ v = Partial => AzureC05!Scanners(world) # {}
         /\ v = Fail =>
              /\ world.setup = "off"
              /\ \A t \in Tool : world.pipeline[t].repository = "this" =>
                   \/ heard[<<"definition", t>>] = Failed
                   \/ AzureC05!Plain(world, t) /\ t \notin AzureC05!Scanners(world)
         /\ v = Fail => AzureC05!Matched = {} /\ AzureC05!setup # "on"
         /\ v = NotCheckable =>
              AzureC05!Matched = {} /\ (AzureC05!setup = Failed \/ AzureC05!Skipped # {})
         /\ AzureC05!Matched # {} => v \in {Pass, Partial}
         /\ (AzureC05!Matched # {} /\ AzureC05!Strong) \/ AzureC05!setup = "on" => v = Pass
<1> USE DEF Pass, Fail, Partial, NotCheckable,
            AzureC05!Pass, AzureC05!Fail, AzureC05!Partial, AzureC05!NotCheckable
<1>1. "on" # Failed
  BY HistoryAssumption
<1>2. AzureC05!setup \in {Failed, world.setup} /\ world.setup \in {"on", "off"}
  BY DEF AzureC05Ready, AzureC05Heard, Outcomes, AzureC05!setup, AzureC05!TypeOK, AzureC05!Typed, AzureC05!World
<1>3. AzureC05!Strong => \E t \in AzureC05!Scanners(world) : world.pipeline[t].file = "strong"
  BY AzureC05Tools DEF AzureC05!Strong
<1>4. AzureC05!Matched # {} => AzureC05!Scanners(world) # {}
  BY AzureC05Tools
<1>5. AzureC05!Skipped = {} /\ AzureC05!Matched = {} =>
        \A t \in Tool : world.pipeline[t].repository = "this" =>
          \/ heard[<<"definition", t>>] = Failed
          \/ AzureC05!Plain(world, t) /\ t \notin AzureC05!Scanners(world)
  BY AzureC05Tools
<1> QED
  BY <1>1, <1>2, <1>3, <1>4, <1>5 DEF AzureC05!ConfiguredVerdict

LEMMA AzureC05CadenceMeans ==
  ASSUME AzureC05Ready, NEW v, v = AzureC05!Cadence
  PROVE  /\ v \in {Pass, Fail, Partial, NotCheckable}
         /\ v \in {Pass, Partial} => AzureC05!Scans(world) # {}
         /\ v # NotCheckable => AzureC05!Matched # {}
         /\ v = Pass => AzureC05!Strong
         /\ v = Fail => AzureC05!Scans(world) = {}
         /\ v = NotCheckable => AzureC05!BuildsLost \/ AzureC05!Matched = {}
BY AzureC05Runs DEF AzureC05!Cadence, AzureC05!CadenceVerdict, Pass, Fail, Partial, NotCheckable,
   AzureC05!Pass, AzureC05!Fail, AzureC05!Partial, AzureC05!NotCheckable

LEMMA AzureC05RanPerRelease ==
  ASSUME AzureC05Ready,
         NEW S \in AzureC05!Selections(AzureC05!Resolved, AzureC05!date),
         NEW firsts \in AzureC05!Firsts(S, AzureC05!date), NEW v,
         v = AzureC05!RanPerRelease(AzureC05!Covering(S, firsts, AzureC05!date, AzureC05!runs))
  PROVE  /\ v \in {Pass, Fail, Partial, NotCheckable}
         /\ v = Pass =>
              /\ AzureC05!AllScanned(world.history.releases, AzureC05!date, AzureC05!Scans(world))
              /\ AzureC05!Matched # {}
         /\ v = Fail =>
              AzureC05!SomeUnscanned(world.history.releases, AzureC05!date, AzureC05!Scans(world))
         /\ v # NotCheckable => ~(AzureC05!Matched = {} /\ (AzureC05!setup # "off" \/ AzureC05!Skipped # {}))
         /\ v = NotCheckable =>
              \/ AzureC05!BuildsLost \/ AzureC05!Matched = {}
              \/ AzureC05!Recent(AzureC05!Named, AzureC05!date) = {}
<1> DEFINE date == AzureC05!date
           runs == AzureC05!runs
           Counts(x, r) == AzureC05Counts(x, r, S, firsts, date)
           covering == AzureC05!Covering(S, firsts, date, runs)
           cv == AzureC05!CoverageVerdict(covering, AzureC05!Dropped)
<1>0. DOMAIN covering = S
  BY DEF AzureC05!Covering
<1> HIDE DEF date, runs, covering, cv
<1>1. heard[<<"releases">>] = world.history.releases
  BY DEF AzureC05Ready, AzureC05Heard, Outcomes, Got
<1>2. /\ S \subseteq AzureC05!Recent(AzureC05!Resolved, date)
      /\ S = {} => AzureC05!Recent(AzureC05!Resolved, date) = {}
  BY AzureC05Chosen DEF date
<1>3. /\ AzureC05!Resolved \subseteq AzureC05!Named
      /\ AzureC05!Dropped = {} => AzureC05!Resolved = AzureC05!Named
  BY DEF AzureC05!Resolved
<1>4. AzureC05!Recent(world.history.releases, date) = AzureC05!Recent(AzureC05!Named, date)
  BY <1>1 DEF AzureC05!Recent, AzureC05!Named
<1>6. /\ cv \in {Pass, Fail, Partial, NotCheckable}
      /\ cv = Pass => S # {} /\ AzureC05!Dropped = {} /\ \A r \in S : \E x \in runs : x.success /\ Counts(x, r)
      /\ cv = Fail => \E r \in S : \A x \in runs : ~Counts(x, r)
      /\ cv = NotCheckable => S = {} /\ AzureC05!Dropped = {}
  BY AzureC05Coverage DEF cv, covering
<1>7. /\ v = cv \/ v = NotCheckable
      /\ v = NotCheckable => \/ AzureC05!Matched = {}
                             \/ AzureC05!BuildsLost
                             \/ cv = NotCheckable
      /\ v # NotCheckable => /\ ~(AzureC05!Matched = {} /\ (AzureC05!setup # "off" \/ AzureC05!Skipped # {}))
                             /\ ~(S # {} /\ AzureC05!BuildsLost)
  BY <1>0 DEF AzureC05!RanPerRelease, NotCheckable, AzureC05!NotCheckable, cv, covering, date, runs
<1>8. ASSUME NEW r \in S, \A x \in runs : ~Counts(x, r), ~AzureC05!BuildsLost
      PROVE  AzureC05!SomeUnscanned(world.history.releases, date, AzureC05!Scans(world))
  <2> DEFINE R == world.history.releases
             xs == AzureC05!Scans(world)
  <2>0. xs = runs
    BY <1>8, AzureC05Runs DEF runs
  <2> HIDE DEF R, xs
  <2>1. S \subseteq AzureC05!Recent(R, date) /\ S \subseteq {q \in R : q.named}
    BY <1>1, <1>2, <1>3 DEF AzureC05!Recent, AzureC05!Named, R
  <2>2. \A x \in xs : x.commit # r.commit
    BY <1>8, <2>0 DEF AzureC05Counts
  <2>3. CASE r \in firsts
    <3>1. \A x \in xs : ~AzureC05!InWindow(x, r, S, date)
      BY <1>8, <2>0, <2>3 DEF AzureC05Counts
    <3>2. \A x \in xs : ~AzureC05!InWindow(x, r, {q \in R : q.named}, date)
      BY <3>1, <2>1 DEF AzureC05!InWindow
    <3> QED
      BY <2>1, <2>2, <3>2 DEF AzureC05!SomeUnscanned, R, xs
  <2>4. CASE r \notin firsts
    <3>1. PICK f \in firsts : date[f] = date[r]
      BY DEF AzureC05!Firsts, date
    <3>2. f \in S /\ f # r
      BY <2>4 DEF AzureC05!Firsts
    <3> QED
      BY <2>1, <2>2, <3>1, <3>2 DEF AzureC05!SomeUnscanned, R, xs
  <2> QED
    BY <2>3, <2>4
<1>9. ASSUME v = Pass
      PROVE  AzureC05!AllScanned(world.history.releases, date, AzureC05!Scans(world))
  <2>1. cv = Pass
    BY <1>7, <1>9 DEF Pass, NotCheckable
  <2>2. S \in AzureC05!Selections(world.history.releases, date)
    BY <2>1, <1>3, <1>4, <1>6 DEF AzureC05!Selections, date
  <2>3. runs \subseteq AzureC05!Scans(world)
    BY AzureC05Runs DEF runs
  <2>4. \A x, r : Counts(x, r) => x.commit = r.commit \/ AzureC05!InWindow(x, r, S, date)
    BY DEF AzureC05Counts
  <2> QED
    BY <2>1, <2>2, <2>3, <2>4, <1>6 DEF AzureC05!AllScanned
<1>10. ASSUME v = Pass
       PROVE  AzureC05!Matched # {}
  BY <1>6, <1>7, <1>10, AzureC05Runs DEF Pass, NotCheckable, runs
<1>11. ASSUME v = Fail
       PROVE  AzureC05!SomeUnscanned(world.history.releases, date, AzureC05!Scans(world))
  <2>1. cv = Fail /\ ~(S # {} /\ AzureC05!BuildsLost)
    BY <1>7, <1>11 DEF Fail, NotCheckable
  <2> QED
    BY <2>1, <1>6, <1>8
<1>13. cv = NotCheckable => AzureC05!Recent(AzureC05!Named, date) = {}
  BY <1>2, <1>3, <1>6
<1> QED
  <2>1. v \in {Pass, Fail, Partial, NotCheckable}
    BY <1>6, <1>7
  <2> QED
    BY <2>1, <1>7, <1>9, <1>10, <1>11, <1>13 DEF date, runs

AzureC05Honest == AzureC05!VerifiedIsTrue /\ AzureC05!FailuresStayLocal /\ AzureC05!PanelsAgree

LEMMA AzureC05Decide ==
  ASSUME AzureC05Ready, AzureC05!Decide
  PROVE  AzureC05Honest' /\ status' \in [AzureC05!Check -> {Pass, Fail, Partial, NotCheckable}]
<1> DEFINE tc == AzureC05!ConfiguredVerdict(AzureC05!Matched, AzureC05!Strong, AzureC05!setup, AzureC05!Skipped)
           ca == AzureC05!Cadence
           ds == AzureC05!SetupVerdict(AzureC05!setup)
           rr(S, firsts) ==
             AzureC05!RanPerRelease(AzureC05!Covering(S, firsts, AzureC05!date, AzureC05!runs))
<1>0. PICK S \in AzureC05!Selections(AzureC05!Resolved, AzureC05!date) :
           \E firsts \in AzureC05!Firsts(S, AzureC05!date) :
             AzureC05!Emit([c \in AzureC05!Check |->
               CASE c = "tool-configured" -> tc
                 [] c = "ran-per-release" -> rr(S, firsts)
                 [] c = "cadence"         -> ca
                 [] c = "default-setup"   -> ds])
  BY DEF AzureC05!Decide
<1>1. PICK firsts \in AzureC05!Firsts(S, AzureC05!date) :
             AzureC05!Emit([c \in AzureC05!Check |->
               CASE c = "tool-configured" -> tc
                 [] c = "ran-per-release" -> rr(S, firsts)
                 [] c = "cadence"         -> ca
                 [] c = "default-setup"   -> ds])
  BY <1>0
<1> DEFINE ra == rr(S, firsts)
<1> HIDE DEF tc, ca, ds, rr, ra
<1>2. /\ DOMAIN status' = AzureC05!Check
      /\ status'["tool-configured"] = tc /\ status'["ran-per-release"] = ra
      /\ status'["cadence"] = ca /\ status'["default-setup"] = ds
      /\ status' = [c \in AzureC05!Check |-> status'[c]]
      /\ UNCHANGED <<world, heard, seen>>
  BY <1>1 DEF AzureC05!Emit, AzureC05!Check, ra
<1>3. /\ AzureC05!setup' = AzureC05!setup /\ AzureC05!Named' = AzureC05!Named
      /\ AzureC05!BuildsLost' = AzureC05!BuildsLost /\ AzureC05!date' = AzureC05!date
      /\ AzureC05!Ours' = AzureC05!Ours
  BY <1>2 DEF AzureC05!setup, AzureC05!BuildsLost, AzureC05!Named, AzureC05!date, AzureC05!Ours,
     AzureC05!Definition, AzureC05!Got
<1>4. AzureC05!Read' = AzureC05!Read
  BY <1>2, <1>3 DEF AzureC05!Read, AzureC05!HasFile, AzureC05!Definition, AzureC05!Got
<1>5. AzureC05!Skipped' = AzureC05!Skipped
  BY <1>2, <1>3, <1>4 DEF AzureC05!Skipped, AzureC05!HasFile, AzureC05!Definition, AzureC05!Got, AzureC05!Content
<1>6. AzureC05!Scans(world)' = AzureC05!Scans(world)
  BY <1>2, <1>4 DEF AzureC05!Scans
<1>7. \A s : /\ AzureC05!Is("tool-configured", s)' <=> status' # Undecided /\ tc = s
             /\ AzureC05!Is("ran-per-release", s)' <=> status' # Undecided /\ ra = s
             /\ AzureC05!Is("cadence", s)' <=> status' # Undecided /\ ca = s
             /\ AzureC05!Is("default-setup", s)' <=> status' # Undecided /\ ds = s
  BY <1>2 DEF AzureC05!Is
<1> USE DEF Pass, Fail, Partial, NotCheckable,
            AzureC05!Pass, AzureC05!Fail, AzureC05!Partial, AzureC05!NotCheckable
<1>8. /\ ds \in {Pass, Fail, NotCheckable}
      /\ ds = Pass => AzureC05!setup = "on"
      /\ ds = Fail => AzureC05!setup = "off"
      /\ ds = NotCheckable => AzureC05!setup \notin {"on", "off"}
  BY DEF AzureC05!SetupVerdict, ds
<1>9. /\ "on" # Failed /\ "off" # Failed
      /\ AzureC05!setup \in {Failed, world.setup} /\ world.setup \in {"on", "off"}
  BY HistoryAssumption DEF AzureC05Ready, AzureC05Heard, Outcomes, AzureC05!setup, AzureC05!TypeOK,
     AzureC05!Typed, AzureC05!World
<1>10. status' \in [AzureC05!Check -> {Pass, Fail, Partial, NotCheckable}]
  <2>1. \A c \in AzureC05!Check : status'[c] \in {Pass, Fail, Partial, NotCheckable}
    BY <1>2, <1>8, AzureC05ToolConfigured, AzureC05CadenceMeans, AzureC05RanPerRelease
    DEF AzureC05!Check, tc, ca, ra, rr
  <2> QED
    BY <2>1, <1>2
<1>11. AzureC05!PassWasTrue' /\ AzureC05!FailIsAbsence'
  <2>1. /\ tc = Pass => \/ world.setup = "on"
                        \/ \E t \in AzureC05!Scanners(world) : world.pipeline[t].file = "strong"
        /\ tc = Partial => AzureC05!Scanners(world) # {}
        /\ tc = Fail =>
              /\ world.setup = "off"
              /\ \A t \in Tool : world.pipeline[t].repository = "this" =>
                   \/ heard[<<"definition", t>>] = Failed
                   \/ AzureC05!Plain(world, t) /\ t \notin AzureC05!Scanners(world)
    BY AzureC05ToolConfigured DEF tc
  <2>2. /\ ra = Pass => AzureC05!AllScanned(world.history.releases, AzureC05!date, AzureC05!Scans(world))
        /\ ra = Fail => AzureC05!SomeUnscanned(world.history.releases, AzureC05!date, AzureC05!Scans(world))
    BY AzureC05RanPerRelease DEF ra, rr
  <2>3. /\ ca \in {Pass, Partial} => AzureC05!Scans(world) # {}
        /\ ca = Fail => AzureC05!Scans(world) = {}
    BY AzureC05CadenceMeans DEF ca
  <2>4. (ds = Pass => world.setup = "on") /\ (ds = Fail => world.setup = "off")
    BY <1>8, <1>9
  <2> QED
    BY <2>1, <2>2, <2>3, <2>4, <1>2, <1>3, <1>6, <1>7 DEF AzureC05!PassWasTrue, AzureC05!FailIsAbsence
<1>12. AzureC05!FailuresStayLocal'
  <2>1. tc = NotCheckable => AzureC05!setup = Failed \/ AzureC05!Skipped # {}
    BY AzureC05ToolConfigured DEF tc
  <2>2. AzureC05!Matched = {} => AzureC05!Scanners(world) \cap AzureC05!Read = {}
    BY AzureC05Tools
  <2>3. ca = NotCheckable => AzureC05!BuildsLost \/ AzureC05!Scanners(world) \cap AzureC05!Read = {}
    BY <2>2, AzureC05CadenceMeans DEF ca
  <2>4. ra = NotCheckable =>
          \/ AzureC05!BuildsLost \/ AzureC05!Scanners(world) \cap AzureC05!Read = {}
          \/ AzureC05!Recent(AzureC05!Named, AzureC05!date) = {}
    BY <2>2, AzureC05RanPerRelease DEF ra, rr
  <2>5. ds = NotCheckable => AzureC05!setup = Failed
    BY <1>8, <1>9
  <2> QED
    BY <2>1, <2>3, <2>4, <2>5, <1>2, <1>3, <1>4, <1>5, <1>7 DEF AzureC05!FailuresStayLocal
<1>13. AzureC05!PanelsAgree'
  <2>1. ca \in {Pass, Partial, Fail} => tc \in {Pass, Partial}
    BY AzureC05ToolConfigured, AzureC05CadenceMeans DEF tc, ca
  <2>2. ca = Pass => tc = Pass
    BY AzureC05ToolConfigured, AzureC05CadenceMeans DEF tc, ca
  <2>3. ds = Pass => tc = Pass
    BY <1>8, AzureC05ToolConfigured DEF tc
  <2>4. tc \in {Fail, NotCheckable} => ra # Pass
    BY AzureC05ToolConfigured, AzureC05RanPerRelease DEF tc, ra, rr
  <2>5. tc = NotCheckable => ra = NotCheckable
    BY <1>9, AzureC05ToolConfigured, AzureC05RanPerRelease DEF tc, ra, rr
  <2>6. ds = Pass /\ AzureC05!Scanners(world) = {} => ra = NotCheckable /\ ca = NotCheckable
    <3>1. AzureC05!Scanners(world) = {} => AzureC05!Matched = {}
      BY AzureC05Tools
    <3> QED
      BY <3>1, <1>8, AzureC05CadenceMeans, AzureC05RanPerRelease DEF ca, ra, rr
  <2> QED
    BY <2>1, <2>2, <2>3, <2>4, <2>5, <2>6, <1>2, <1>7 DEF AzureC05!PanelsAgree, AzureC05!ChecksAgree
<1> QED
  BY <1>10, <1>11, <1>12, <1>13 DEF AzureC05Honest, AzureC05!VerifiedIsTrue

AzureC05Inv == AzureC05!TypeOK /\ AzureC05Heard /\ AzureC05Honest

LEMMA AzureC05Silent == status = Undecided => AzureC05Honest
BY DEF AzureC05Honest, AzureC05!VerifiedIsTrue, AzureC05!PassWasTrue, AzureC05!FailIsAbsence,
   AzureC05!FailuresStayLocal, AzureC05!PanelsAgree, AzureC05!ChecksAgree, AzureC05!Is

\* What the answers in hand make of the pipelines depends on those about the pipelines alone.
LEMMA AzureC05Stable ==
  ASSUME \A t \in Tool : /\ heard'[<<"definition", t>>] = heard[<<"definition", t>>]
                         /\ heard'[<<"file", t>>] = heard[<<"file", t>>]
  PROVE  /\ AzureC05!Ours' = AzureC05!Ours /\ AzureC05!Read' = AzureC05!Read
         /\ AzureC05!Matched' = AzureC05!Matched /\ AzureC05!Skipped' = AzureC05!Skipped
         /\ \A t \in Tool : AzureC05!HasFile(t)' <=> AzureC05!HasFile(t)
<1>1. \A t \in Tool : AzureC05!HasFile(t)' <=> AzureC05!HasFile(t)
  BY DEF AzureC05!HasFile, AzureC05!Definition, AzureC05!Got
<1>2. AzureC05!Ours' = AzureC05!Ours
  BY DEF AzureC05!Ours, AzureC05!Definition, AzureC05!Got
<1>3. AzureC05!Ours \subseteq Tool
  BY DEF AzureC05!Ours
<1>4. AzureC05!Read' = AzureC05!Read
  BY <1>1, <1>2, <1>3 DEF AzureC05!Read, AzureC05!Got
<1>5. AzureC05!Read \subseteq Tool
  BY <1>3 DEF AzureC05!Read
<1>6. AzureC05!Matched' = AzureC05!Matched
  BY <1>4, <1>5 DEF AzureC05!Matched, AzureC05!Content
<1>7. AzureC05!Skipped' = AzureC05!Skipped
  BY <1>1, <1>2, <1>3, <1>4 DEF AzureC05!Skipped, AzureC05!Content, AzureC05!Definition
<1> QED
  BY <1>1, <1>2, <1>4, <1>6, <1>7

LEMMA AzureC05Reads ==
  ASSUME AzureC05Inv, NEW c \in AzureC05!Call, NEW answer, AzureC05!Get(c, answer),
         c = <<"repositories">> => answer = world.found,
         c = <<"pipelines">> => Got(<<"repositories">>),
         \A t \in Tool : c = <<"definition", t>> => answer = world.pipeline[t] /\ Got(<<"pipelines">>),
         \A t \in Tool : c = <<"file", t>> =>
           /\ answer = [found |-> world.pipeline[t].file, template |-> world.pipeline[t].template]
           /\ AzureC05!HasFile(t),
         c = <<"releases">> => answer = world.history.releases /\ AzureC05Inspected,
         c = <<"builds">> => answer = AzureC05!BuildsOf(AzureC05!Matched) /\ Got(<<"releases">>),
         c = <<"setup">> =>
           /\ answer = world.setup
           /\ Got(<<"releases">>)
           /\ AzureC05!Matched # {} => heard[<<"builds">>] # Unasked
  PROVE  AzureC05Inv'
<1>1. PICK a \in {answer, Failed} : heard' = [heard EXCEPT ![c] = a]
  BY DEF AzureC05!Get
<1>2. heard[c] = Unasked /\ status = Undecided /\ UNCHANGED <<world, status, seen>>
  BY DEF AzureC05!Get
<1>3. AzureC05!TypeOK'
  BY <1>1, <1>2 DEF AzureC05Inv, AzureC05!TypeOK, AzureC05!Typed
<1>4. DOMAIN heard = AzureC05!Call
  BY DEF AzureC05Inv, AzureC05!TypeOK, AzureC05!Typed
<1>5. AzureC05Heard'
  <2>1. /\ {<<"repositories">>, <<"pipelines">>, <<"releases">>, <<"builds">>, <<"setup">>} \subseteq AzureC05!Call
        /\ \A t \in Tool : <<"definition", t>> \in AzureC05!Call /\ <<"file", t>> \in AzureC05!Call
    BY DEF AzureC05!Call
  <2>2. \A d \in AzureC05!Call : heard'[d] = IF d = c THEN a ELSE heard[d]
    BY <1>1, <1>4
  <2>3. seen' = {world'} /\ world' = world
    BY <1>2 DEF AzureC05Inv, AzureC05Heard
  <2>4. heard'[<<"repositories">>] \in Outcomes({world'.found})
    BY <2>1, <2>2, <2>3 DEF AzureC05Inv, AzureC05Heard, Outcomes
  <2>5. ASSUME NEW t \in Tool
        PROVE  heard'[<<"definition", t>>] \in Outcomes({world'.pipeline[t]})
    <3>1. heard'[<<"definition", t>>] = heard[<<"definition", t>>] \/ heard'[<<"definition", t>>] \in {world.pipeline[t], Failed}
      BY <2>1, <2>2
    <3>2. heard[<<"definition", t>>] \in Outcomes({world.pipeline[t]})
      BY DEF AzureC05Inv, AzureC05Heard
    <3> QED
      BY <3>1, <3>2, <2>3 DEF Outcomes
  <2>6. ASSUME NEW t \in Tool
        PROVE  heard'[<<"file", t>>] \in
                 Outcomes({[found |-> world'.pipeline[t].file, template |-> world'.pipeline[t].template]})
    <3> DEFINE content == [found |-> world.pipeline[t].file, template |-> world.pipeline[t].template]
    <3>1. heard'[<<"file", t>>] = heard[<<"file", t>>] \/ heard'[<<"file", t>>] \in {content, Failed}
      BY <2>1, <2>2
    <3>2. heard[<<"file", t>>] \in Outcomes({content})
      BY DEF AzureC05Inv, AzureC05Heard
    <3>3. content = [found |-> world'.pipeline[t].file, template |-> world'.pipeline[t].template]
      BY <2>3
    <3> HIDE DEF content
    <3> QED
      BY <3>1, <3>2, <3>3 DEF Outcomes
  <2>7. heard'[<<"releases">>] \in Outcomes({world'.history.releases})
    BY <2>1, <2>2, <2>3 DEF AzureC05Inv, AzureC05Heard, Outcomes
  <2>8. heard'[<<"setup">>] \in Outcomes({world'.setup})
    BY <2>1, <2>2, <2>3 DEF AzureC05Inv, AzureC05Heard, Outcomes
  <2>9. \A d \in AzureC05!Call : Got(d) => Got(d)' /\ d # c
    BY <2>2, <1>2 DEF Got
  \* Once the releases have been asked for, the pipelines are what they are.
  <2>10. ASSUME AzureC05Inspected
         PROVE  AzureC05Inspected' /\ AzureC05!Matched' = AzureC05!Matched
    <3>1. \A t \in Tool : c # <<"definition", t>> /\ c # <<"file", t>>
      BY <2>10, <1>2 DEF AzureC05Inspected
    <3>2. \A t \in Tool : /\ heard'[<<"definition", t>>] = heard[<<"definition", t>>]
                          /\ heard'[<<"file", t>>] = heard[<<"file", t>>]
      BY <3>1, <2>1, <2>2
    <3>3. Got(<<"repositories">>)' /\ Got(<<"pipelines">>)'
      BY <2>1, <2>9, <2>10 DEF AzureC05Inspected
    <3> QED
      BY <3>2, <3>3, <2>10, AzureC05Stable DEF AzureC05Inspected
  <2>11. heard'[<<"releases">>] # Unasked => AzureC05Inspected /\ AzureC05Inspected'
    BY <2>1, <2>2, <2>10 DEF AzureC05Inv, AzureC05Heard
  <2>12. Got(<<"pipelines">>)' => Got(<<"repositories">>)'
    BY <2>1, <2>2, <2>9 DEF AzureC05Inv, AzureC05Heard, Got
  <2>13. heard'[<<"builds">>] # Unasked => Got(<<"releases">>) /\ Got(<<"releases">>)'
    BY <2>1, <2>2, <2>9 DEF AzureC05Inv, AzureC05Heard
  <2>14. heard'[<<"builds">>] \in Outcomes({AzureC05!BuildsOf(AzureC05!Matched)'})
    <3>1. CASE heard'[<<"builds">>] = Unasked
      BY <3>1 DEF Outcomes
    <3>2. CASE heard'[<<"builds">>] # Unasked
      <4>1. AzureC05Inspected
        BY <3>2, <2>13 DEF AzureC05Inv, AzureC05Heard, Got
      <4>2. AzureC05!BuildsOf(AzureC05!Matched)' = AzureC05!BuildsOf(AzureC05!Matched)
        BY <4>1, <2>10, <1>2 DEF AzureC05!BuildsOf
      <4>3. heard'[<<"builds">>] \in Outcomes({AzureC05!BuildsOf(AzureC05!Matched)})
        BY <2>1, <2>2 DEF AzureC05Inv, AzureC05Heard, Outcomes
      <4> QED
        BY <4>2, <4>3
    <3> QED
      BY <3>1, <3>2
  <2>15. heard'[<<"setup">>] # Unasked =>
           /\ Got(<<"releases">>)'
           /\ AzureC05!Matched' # {} => heard'[<<"builds">>] # Unasked
    <3> SUFFICES ASSUME heard'[<<"setup">>] # Unasked
                 PROVE  /\ Got(<<"releases">>)'
                        /\ AzureC05!Matched' # {} => heard'[<<"builds">>] # Unasked
      OBVIOUS
    <3>1. Got(<<"releases">>) /\ (AzureC05!Matched # {} => heard[<<"builds">>] # Unasked)
      BY <2>1, <2>2 DEF AzureC05Inv, AzureC05Heard
    <3>2. AzureC05!Matched' = AzureC05!Matched
      BY <3>1, <2>10 DEF AzureC05Inv, AzureC05Heard, Got
    <3>3. heard[<<"builds">>] # Unasked => heard'[<<"builds">>] # Unasked
      BY <2>1, <2>2, <1>2
    <3> QED
      BY <3>1, <3>2, <3>3, <2>1, <2>9
  <2> QED
    BY <2>3, <2>4, <2>5, <2>6, <2>7, <2>8, <2>11, <2>12, <2>13, <2>14, <2>15 DEF AzureC05Heard
<1>6. status' = Undecided => AzureC05Honest'
  BY DEF AzureC05Honest, AzureC05!VerifiedIsTrue, AzureC05!PassWasTrue, AzureC05!FailIsAbsence,
     AzureC05!FailuresStayLocal, AzureC05!PanelsAgree, AzureC05!ChecksAgree, AzureC05!Is
<1> QED
  BY <1>2, <1>3, <1>5, <1>6 DEF AzureC05Inv

LEMMA AzureC05Init == AzureC05!Init => AzureC05Inv
<1> SUFFICES ASSUME AzureC05!Init PROVE AzureC05Inv
  OBVIOUS
<1>1. /\ world \in AzureC05!World /\ seen = {world} /\ status = Undecided
      /\ heard = [c \in AzureC05!Call |-> Unasked]
  BY DEF AzureC05!Init, AzureC05!InitWith
<1>2. AzureC05!TypeOK
  BY <1>1 DEF AzureC05!TypeOK, AzureC05!Typed
<1>3. AzureC05Heard
  BY <1>1 DEF AzureC05Heard, Outcomes, Got, AzureC05!Call
<1> QED
  BY <1>1, <1>2, <1>3, AzureC05Silent DEF AzureC05Inv

\* A step after which all answers are the same.
LEMMA AzureC05Same ==
  ASSUME AzureC05Heard, UNCHANGED <<world, heard, seen>>
  PROVE  AzureC05Heard'
<1>1. /\ AzureC05!Matched' = AzureC05!Matched
      /\ \A t \in Tool : AzureC05!HasFile(t)' <=> AzureC05!HasFile(t)
  BY AzureC05Stable
<1>2. AzureC05!BuildsOf(AzureC05!Matched)' = AzureC05!BuildsOf(AzureC05!Matched)
  BY <1>1 DEF AzureC05!BuildsOf
<1>3. AzureC05Inspected' = AzureC05Inspected
  BY <1>1 DEF AzureC05Inspected, Got
<1> QED
  BY <1>1, <1>2, <1>3 DEF AzureC05Heard, Got

LEMMA AzureC05Next == AzureC05Inv /\ [AzureC05!Next]_vars => AzureC05Inv'
<1> SUFFICES ASSUME AzureC05Inv, [AzureC05!Next]_vars PROVE AzureC05Inv'
  OBVIOUS
<1> USE DEF AzureC05!Call, AzureC05!Got, Got
<1>1. CASE AzureC05!ReadRepositories
  BY <1>1, AzureC05Reads DEF AzureC05!ReadRepositories
<1>2. CASE AzureC05!ListPipelines
  <2>1. AzureC05!Get(<<"pipelines">>, TRUE) /\ Got(<<"repositories">>)
    BY <1>2 DEF AzureC05!ListPipelines
  <2>2. /\ <<"pipelines">> \notin {<<"repositories">>, <<"releases">>, <<"builds">>, <<"setup">>}
        /\ \A t : <<"pipelines">> # <<"definition", t>> /\ <<"pipelines">> # <<"file", t>>
    OBVIOUS
  <2>3. <<"pipelines">> \in AzureC05!Call
    OBVIOUS
  <2> HIDE DEF AzureC05!Call, AzureC05!Got, Got
  <2> QED
    BY <2>1, <2>2, <2>3, AzureC05Reads
<1>3. ASSUME NEW t \in Tool, AzureC05!FetchDefinition(t)
      PROVE  AzureC05Inv'
  BY <1>3, AzureC05Reads DEF AzureC05!FetchDefinition
<1>4. ASSUME NEW t \in Tool, AzureC05!FetchFile(t)
      PROVE  AzureC05Inv'
  BY <1>4, AzureC05Reads DEF AzureC05!FetchFile
<1>5. AzureC05!Inspected /\ Got(<<"repositories">>) => AzureC05Inspected
  BY DEF AzureC05!Inspected, AzureC05!Asked, AzureC05Inspected
<1>6. CASE AzureC05!ListTags
  <2>1. AzureC05!Inspected /\ AzureC05!Get(<<"releases">>, world.history.releases)
    BY <1>6 DEF AzureC05!ListTags
  <2>2. AzureC05Inspected
    BY <2>1, <1>5 DEF AzureC05!Inspected, AzureC05Inv, AzureC05Heard
  <2> QED
    BY <2>1, <2>2, AzureC05Reads
<1>7. ASSUME NEW r \in Release, AzureC05!FetchAnnotation(r)
      PROVE  AzureC05Inv'
  BY <1>7, AzureC05Reads DEF AzureC05!FetchAnnotation
<1>8. ASSUME NEW r \in Release, AzureC05!FetchCommit(r)
      PROVE  AzureC05Inv'
  BY <1>8, AzureC05Reads DEF AzureC05!FetchCommit
<1>9. CASE AzureC05!FetchBuilds
  BY <1>9, AzureC05Reads DEF AzureC05!FetchBuilds
<1>10. CASE AzureC05!ReadSetup
  BY <1>10, AzureC05Reads DEF AzureC05!ReadSetup
<1>11. CASE AzureC05!GiveUp
  <2>1. status' = [c \in AzureC05!Check |-> NotCheckable] /\ UNCHANGED <<world, heard, seen>>
    BY <1>11 DEF AzureC05!GiveUp, AzureC05!Emit, AzureC05!AllNotCheckable, AzureC05!NotCheckable, NotCheckable
  <2>2. \A c \in AzureC05!Check : \A s : AzureC05!Is(c, s)' => s = NotCheckable
    BY <2>1 DEF AzureC05!Is
  <2>3. /\ "tool-configured" \in AzureC05!Check /\ "ran-per-release" \in AzureC05!Check
        /\ "cadence" \in AzureC05!Check /\ "default-setup" \in AzureC05!Check
    BY DEF AzureC05!Check
  <2>4. AzureC05!TypeOK' /\ AzureC05Heard'
    BY <2>1, AzureC05Same DEF AzureC05Inv, AzureC05!TypeOK, AzureC05!Typed, NotCheckable, AzureC05!NotCheckable
  \* Nothing is given up without a failure, if there is such a repository.
  <2>5. ~(world.found /\ \A c \in {<<"repositories">>, <<"pipelines">>, <<"releases">>} : heard[c] # Failed)
    BY <1>11 DEF AzureC05!GiveUp, AzureC05!Inspected, AzureC05Inv, AzureC05Heard, Outcomes
  <2>6. AzureC05!VerifiedIsTrue' /\ AzureC05!ChecksAgree'
    BY <2>2, <2>3 DEF AzureC05!VerifiedIsTrue, AzureC05!PassWasTrue,
       AzureC05!FailIsAbsence, AzureC05!ChecksAgree,
       Pass, Fail, Partial, NotCheckable, AzureC05!Pass, AzureC05!Fail, AzureC05!Partial, AzureC05!NotCheckable
  <2>7. AzureC05!FailuresStayLocal'
    BY <2>1, <2>5 DEF AzureC05!FailuresStayLocal
  <2>8. AzureC05!PanelsAgree'
    BY <2>1, <2>2, <2>3, <2>6 DEF AzureC05!PanelsAgree, AzureC05!Is,
       Pass, Fail, Partial, NotCheckable, AzureC05!Pass, AzureC05!Fail, AzureC05!Partial, AzureC05!NotCheckable
  <2> QED
    BY <2>4, <2>6, <2>7, <2>8 DEF AzureC05Inv, AzureC05Honest
<1>12. CASE AzureC05!Decide
  <2>1. UNCHANGED <<world, heard, seen>>
    BY <1>12 DEF AzureC05!Decide, AzureC05!Emit
  <2>2. AzureC05Ready
    BY <1>12 DEF AzureC05!Decide, AzureC05!Asked, AzureC05Ready, AzureC05Inv
  <2>3. status' \in [AzureC05!Check -> {Pass, Fail, Partial, NotCheckable}] /\ AzureC05Honest'
    BY <1>12, <2>2, AzureC05Decide
  <2>4. AzureC05!TypeOK'
    BY <2>1, <2>3 DEF AzureC05Inv, AzureC05!TypeOK, AzureC05!Typed, Pass, Fail, Partial, NotCheckable,
       AzureC05!Pass, AzureC05!Fail, AzureC05!Partial, AzureC05!NotCheckable
  <2> QED
    BY <2>1, <2>3, <2>4, AzureC05Same DEF AzureC05Inv
<1>13. CASE UNCHANGED vars
  <2>1. UNCHANGED <<world, heard, status, seen>>
    BY <1>13 DEF vars
  <2>2. /\ AzureC05!Skipped' = AzureC05!Skipped /\ AzureC05!Read' = AzureC05!Read
    BY <2>1, AzureC05Stable
  <2>3. /\ AzureC05!setup' = AzureC05!setup /\ AzureC05!Named' = AzureC05!Named
        /\ AzureC05!BuildsLost' = AzureC05!BuildsLost /\ AzureC05!date' = AzureC05!date
    BY <2>1 DEF AzureC05!setup, AzureC05!Named, AzureC05!BuildsLost, AzureC05!date
  <2>4. AzureC05!Scans(world)' = AzureC05!Scans(world)
    BY <2>1, <2>2 DEF AzureC05!Scans
  <2>5. \A c, s : AzureC05!Is(c, s)' <=> AzureC05!Is(c, s)
    BY <2>1 DEF AzureC05!Is
  <2>6. AzureC05!TypeOK' /\ AzureC05Heard'
    BY <2>1, AzureC05Same DEF AzureC05Inv, AzureC05!TypeOK, AzureC05!Typed
  <2>7. AzureC05!PassWasTrue' = AzureC05!PassWasTrue /\ AzureC05!FailIsAbsence' = AzureC05!FailIsAbsence
    BY <2>1, <2>3, <2>4, <2>5 DEF AzureC05!PassWasTrue, AzureC05!FailIsAbsence
  <2>8. AzureC05!FailuresStayLocal' = AzureC05!FailuresStayLocal
    BY <2>1, <2>2, <2>3, <2>5 DEF AzureC05!FailuresStayLocal
  <2>9. AzureC05!PanelsAgree' = AzureC05!PanelsAgree
    BY <2>1, <2>5 DEF AzureC05!PanelsAgree, AzureC05!ChecksAgree
  <2> QED
    BY <2>6, <2>7, <2>8, <2>9 DEF AzureC05Inv, AzureC05Honest, AzureC05!VerifiedIsTrue
<1> QED
  BY <1>1, <1>2, <1>3, <1>4, <1>6, <1>7, <1>8, <1>9, <1>10, <1>11, <1>12, <1>13 DEF AzureC05!Next

LEMMA GitLabC05Chosen ==
  ASSUME NEW R, NEW date, NEW S \in GitLabC05!Selections(R, date)
  PROVE  /\ S \subseteq GitLabC05!Recent(R, date)
         /\ S = {} => GitLabC05!Recent(R, date) = {}
<1>1. Lookback # 0 /\ GitLabC05!Cardinality({}) = 0
  BY HistoryAssumption, FS_EmptySet, SameCount
<1> QED
  BY <1>1 DEF GitLabC05!Selections

GitLabC05InWindow(jobs) == {j \in jobs : j.finished /\ j.at >= WindowStart}

(***************************************************************************)
(* The walk finds jobs of the window only, and, unless it is cut short,    *)
(* all of them, if they finished in the order of their ids: a job that     *)
(* ends it is then older than any of the window.                           *)
(***************************************************************************)
LEMMA GitLabC05Walked ==
  ASSUME NEW h \in JobHistory
  PROVE  /\ GitLabC05!Walk(h.jobs).runs \subseteq GitLabC05InWindow(h.jobs)
         /\ ~GitLabC05!Walk(h.jobs).truncated /\ GitLabC05!InOrder(h.jobs) =>
              GitLabC05InWindow(h.jobs) \subseteq GitLabC05!Walk(h.jobs).runs
         /\ GitLabC05!Walk(h.jobs).truncated => GitLabC05!Cardinality(h.jobs) >= MaxJobs
<1> DEFINE jobs == h.jobs
           Newer(j) == {k \in jobs : k.id > j.id}
<1>1. /\ \A j \in jobs : j.id \in Nat /\ j.at \in Nat /\ j.finished \in BOOLEAN
      /\ IsFiniteSet(jobs)
      /\ \A j, k \in jobs : j.id = k.id => j = k
      /\ MaxJobs \in Nat /\ WindowStart \in Nat
  BY JobAssumption, HistoryAssumption DEF GitLabC05!JobHistories, GitLabC05!Jobs
<1> HIDE DEF jobs
<1>2. \A j \in jobs : j \in GitLabC05!Reachable(jobs) <=> Cardinality(Newer(j)) < MaxJobs
  BY SameCount DEF GitLabC05!Reachable
<1> HIDE DEF Newer
<1>3. GitLabC05!Reachable(jobs) \subseteq jobs
  BY DEF GitLabC05!Reachable
<1>4. GitLabC05!Walk(jobs).runs \subseteq GitLabC05InWindow(jobs)
  <2>1. \A j \in GitLabC05!Walk(jobs).runs : j \in GitLabC05!Reachable(jobs) /\ j.finished /\ ~GitLabC05!Ends(j)
    BY <1>1, <1>3 DEF GitLabC05!Walk
  <2> QED
    BY <2>1, <1>1, <1>3 DEF GitLabC05!Ends, GitLabC05InWindow
<1>5. GitLabC05!Walk(jobs).truncated => GitLabC05!Cardinality(jobs) >= MaxJobs
  BY DEF GitLabC05!Walk
<1>6. ASSUME ~GitLabC05!Walk(jobs).truncated, GitLabC05!InOrder(jobs), NEW j \in GitLabC05InWindow(jobs)
      PROVE  j \in GitLabC05!Walk(jobs).runs
  <2>1. j \in jobs /\ j.finished /\ j.at >= WindowStart
    BY DEF GitLabC05InWindow
  <2>2. ASSUME NEW k \in jobs, k.id >= j.id
        PROVE  ~GitLabC05!Ends(k)
    <3>1. CASE k.id = j.id
      BY <3>1, <2>1, <2>2, <1>1 DEF GitLabC05!Ends
    <3>2. CASE k.id > j.id /\ k.finished
      <4>1. j.at <= k.at
        BY <3>2, <2>1, <2>2, <1>1, <1>6 DEF GitLabC05!InOrder
      <4> QED
        BY <4>1, <2>1, <2>2, <1>1 DEF GitLabC05!Ends
    <3> QED
      BY <3>1, <3>2, <2>1, <2>2, <1>1 DEF GitLabC05!Ends
  <2>3. \A k \in jobs : Newer(k) \subseteq jobs /\ IsFiniteSet(Newer(k)) /\ Cardinality(Newer(k)) \in Nat
    BY <1>1, FS_Subset, FS_CardinalityType DEF Newer
  <2>4. j \in GitLabC05!Reachable(jobs)
    <3>1. CASE Cardinality(jobs) < MaxJobs
      <4>1. Cardinality(Newer(j)) <= Cardinality(jobs) /\ Cardinality(jobs) \in Nat
        BY <2>1, <2>3, <1>1, FS_Subset, FS_CardinalityType
      <4> QED
        BY <4>1, <3>1, <2>1, <2>3, <1>1, <1>2
    <3>2. CASE \E k \in GitLabC05!Reachable(jobs) : GitLabC05!Ends(k)
      <4>1. PICK k \in GitLabC05!Reachable(jobs) : GitLabC05!Ends(k)
        BY <3>2
      <4>2. k \in jobs /\ k.id < j.id
        BY <4>1, <2>1, <2>2, <1>1, <1>3
      <4>3. Newer(j) \subseteq Newer(k)
        BY <4>2, <2>1, <1>1 DEF Newer
      <4>4. Cardinality(Newer(j)) <= Cardinality(Newer(k))
        BY <4>2, <4>3, <2>3, FS_Subset
      <4> QED
        BY <4>1, <4>2, <4>4, <2>1, <2>3, <1>1, <1>2
    <3>3. \/ ~(GitLabC05!Cardinality(jobs) >= MaxJobs)
          \/ \E k \in GitLabC05!Reachable(jobs) : GitLabC05!Ends(k)
      BY <1>6 DEF GitLabC05!Walk
    <3>4. Cardinality(jobs) \in Nat
      BY <1>1, FS_CardinalityType
    <3> QED
      BY <3>1, <3>2, <3>3, <3>4, <1>1, SameCount
  <2> QED
    BY <2>1, <2>2, <2>4, <1>3 DEF GitLabC05!Walk
<1> QED
  BY <1>4, <1>5, <1>6 DEF jobs

\* Nothing changes on GitLab during a collection, so that all answers are about one world.
GitLabC05Heard ==
  /\ seen = {world}
  /\ heard[<<"lint">>] \in Outcomes({world.config})
  /\ heard[<<"releases">>] \in Outcomes({world.history.releases})
  /\ heard[<<"jobs">>] \in Outcomes({GitLabC05!Walk(world.history.jobs)})
  /\ heard[<<"releases">>] # Unasked => heard[<<"lint">>] # Unasked
  /\ heard[<<"jobs">>] # Unasked => heard[<<"releases">>] # Unasked

GitLabC05Ready == GitLabC05!TypeOK /\ GitLabC05Heard /\ heard[<<"jobs">>] # Unasked

LEMMA GitLabC05Config ==
  ASSUME GitLabC05Ready
  PROVE  /\ ~GitLabC05!ConfigKnown => heard[<<"lint">>] = Failed \/ world.config = Unusable
         /\ GitLabC05!ConfigKnown => /\ GitLabC05!Matched = GitLabC05!Scanners(world)
                                     /\ world.config # Unusable
                                     /\ GitLabC05!config = world.config
         /\ GitLabC05!Matched \subseteq GitLabC05!Scanners(world)
         /\ GitLabC05!Strong <=> \E t \in GitLabC05!Matched : GitLabC05!config[t] = "strong"
<1>1. heard[<<"lint">>] \in {Failed, world.config} /\ heard[<<"lint">>] # Unasked
  BY DEF GitLabC05Ready, GitLabC05Heard, Outcomes
<1> QED
  BY <1>1 DEF GitLabC05!ConfigKnown, GitLabC05!Matched, GitLabC05!Scanners, GitLabC05!config, GitLabC05!Strong

LEMMA GitLabC05Runs ==
  ASSUME GitLabC05Ready, Got(<<"jobs">>)
  PROVE  /\ GitLabC05!runs \subseteq GitLabC05!Scans(world)
         /\ GitLabC05!ConfigKnown /\ ~GitLabC05!Truncated /\ GitLabC05!InOrder(world.history.jobs) =>
              GitLabC05!runs = GitLabC05!Scans(world)
         /\ GitLabC05!Truncated => GitLabC05!Cardinality(world.history.jobs) >= MaxJobs
<1>1. heard[<<"jobs">>] = GitLabC05!Walk(world.history.jobs)
  BY DEF GitLabC05Ready, GitLabC05Heard, Outcomes, Got
<1>2. world.history \in JobHistory
  BY DEF GitLabC05Ready, GitLabC05!TypeOK, GitLabC05!Typed, GitLabC05!World
<1>3. GitLabC05!Scans(world) =
        {j \in GitLabC05InWindow(world.history.jobs) : j.tool \in GitLabC05!Scanners(world) \/ j.report}
  BY DEF GitLabC05!Scans, GitLabC05InWindow
<1>4. GitLabC05!runs =
        {j \in GitLabC05!Walk(world.history.jobs).runs : j.tool \in GitLabC05!Matched \/ j.report}
  BY <1>1 DEF GitLabC05!runs
<1> QED
  BY <1>1, <1>2, <1>3, <1>4, GitLabC05Walked, GitLabC05Config DEF GitLabC05!Truncated

LEMMA GitLabC05ToolConfigured ==
  ASSUME GitLabC05Ready, NEW v, v = GitLabC05!ToolConfigured
  PROVE  /\ v \in {Pass, Fail, Partial, NotCheckable}
         /\ v = Pass => \E t \in GitLabC05!Scanners(world) : world.config[t] = "strong"
         /\ v = Partial => GitLabC05!Scanners(world) # {}
         /\ v = Fail => GitLabC05!Scanners(world) = {}
         /\ v = NotCheckable <=> ~GitLabC05!ConfigKnown
         /\ GitLabC05!ConfigKnown /\ GitLabC05!Matched # {} => v \in {Pass, Partial}
         /\ GitLabC05!ConfigKnown /\ GitLabC05!Strong => v = Pass
<1>1. "off" # Failed /\ "off" # "on"
  BY HistoryAssumption
<1>2. v = IF ~GitLabC05!ConfigKnown THEN NotCheckable
          ELSE IF GitLabC05!Strong THEN Pass
          ELSE IF GitLabC05!Matched # {} THEN Partial ELSE Fail
  BY <1>1 DEF GitLabC05!ToolConfigured, GitLabC05!ConfiguredVerdict, Pass, Fail, Partial, NotCheckable,
     GitLabC05!Pass, GitLabC05!Fail, GitLabC05!Partial, GitLabC05!NotCheckable
<1> QED
  BY <1>2, GitLabC05Config DEF Pass, Fail, Partial, NotCheckable

LEMMA GitLabC05CadenceMeans ==
  ASSUME GitLabC05Ready, NEW v, v = GitLabC05!Cadence
  PROVE  /\ v \in {Pass, Fail, Partial, NotCheckable}
         /\ v \in {Pass, Partial} => GitLabC05!Scans(world) # {}
         /\ v # NotCheckable => GitLabC05!ConfigKnown /\ GitLabC05!Matched # {}
         /\ v = Pass => GitLabC05!Strong
         /\ v = Fail /\ GitLabC05!InOrder(world.history.jobs) => GitLabC05!Scans(world) = {}
         /\ v = NotCheckable =>
              \/ \E c \in {<<"lint">>, <<"jobs">>} : heard[c] = Failed
              \/ GitLabC05!Scanners(world) = {}
              \/ GitLabC05!Cardinality(world.history.jobs) >= MaxJobs
<1> USE DEF Pass, Fail, Partial, NotCheckable,
            GitLabC05!Pass, GitLabC05!Fail, GitLabC05!Partial, GitLabC05!NotCheckable
<1>1. GitLabC05!Got(<<"jobs">>) <=> Got(<<"jobs">>)
  BY DEF GitLabC05!Got, Got
<1>2. ~Got(<<"jobs">>) => heard[<<"jobs">>] = Failed
  BY DEF GitLabC05Ready, Got
<1>3. v \in {Pass, Fail, Partial, NotCheckable}
  BY DEF GitLabC05!Cadence, GitLabC05!CadenceVerdict
<1>4. ASSUME v # NotCheckable
      PROVE  /\ GitLabC05!ConfigKnown /\ GitLabC05!Matched # {} /\ Got(<<"jobs">>) /\ ~GitLabC05!Truncated
             /\ v = Fail <=> GitLabC05!runs = {}
             /\ v = Pass => GitLabC05!Strong
  BY <1>1, <1>4 DEF GitLabC05!Cadence, GitLabC05!CadenceVerdict
<1>5. ASSUME v = NotCheckable
      PROVE  \/ \E c \in {<<"lint">>, <<"jobs">>} : heard[c] = Failed
             \/ GitLabC05!Scanners(world) = {}
             \/ GitLabC05!Cardinality(world.history.jobs) >= MaxJobs
  <2>1. ~GitLabC05!ConfigKnown \/ GitLabC05!Matched = {} \/ ~Got(<<"jobs">>)
        \/ (Got(<<"jobs">>) /\ GitLabC05!Truncated)
    BY <1>1, <1>5 DEF GitLabC05!Cadence, GitLabC05!CadenceVerdict
  <2>2. world.config = Unusable => GitLabC05!Scanners(world) = {}
    BY DEF GitLabC05!Scanners
  <2> QED
    BY <2>1, <2>2, <1>2, GitLabC05Config, GitLabC05Runs
<1> QED
  BY <1>3, <1>4, <1>5, GitLabC05Runs
-----------------------------------------------------------------------------
LEMMA GitLabC05RanPerRelease ==
  ASSUME GitLabC05Ready, NEW S \in GitLabC05!Selections(GitLabC05!Listed, GitLabC05!date),
         NEW v, v = GitLabC05!RanPerRelease(S)
  PROVE  /\ v \in {Pass, Fail, Partial, NotCheckable}
         /\ v = Pass =>
              \E T \in GitLabC05!Selections(world.history.releases, GitLabC05!date) :
                \A r \in T : \E j \in GitLabC05!Scans(world) : j.success /\ j.commit = r.commit
         /\ v = Fail /\ GitLabC05!InOrder(world.history.jobs) =>
              \E r \in GitLabC05!Recent(world.history.releases, GitLabC05!date) :
                \A j \in GitLabC05!Scans(world) : j.commit # r.commit
         /\ v # NotCheckable => GitLabC05!ConfigKnown
         /\ v = NotCheckable =>
              \/ \E c \in GitLabC05!Call : heard[c] = Failed
              \/ world.config = Unusable
              \/ GitLabC05!Recent(world.history.releases, GitLabC05!date) = {}
              \/ /\ GitLabC05!Cardinality(world.history.jobs) >= MaxJobs
                 /\ \E r \in GitLabC05!Recent(world.history.releases, GitLabC05!date) :
                      \A j \in GitLabC05!runs : j.commit # r.commit
<1> DEFINE covering == GitLabC05!CoveringByCommit(S)
<1>1. /\ DOMAIN covering = S
      /\ \A r \in S : covering[r] = {j \in GitLabC05!runs : j.commit = r.commit}
  BY DEF GitLabC05!CoveringByCommit
<1> HIDE DEF covering
<1>2. GitLabC05!Missing(covering) # {} => \E r \in S : \A j \in GitLabC05!runs : j.commit # r.commit
  BY <1>1 DEF GitLabC05!Missing
<1>3. GitLabC05!Missing(covering) = {} /\ GitLabC05!Unclean(covering) = {} =>
        \A r \in S : \E j \in GitLabC05!runs : j.success /\ j.commit = r.commit
  BY <1>1 DEF GitLabC05!Unclean
<1> USE DEF Pass, Fail, Partial, NotCheckable,
            GitLabC05!Pass, GitLabC05!Fail, GitLabC05!Partial, GitLabC05!NotCheckable
<1>4. /\ v \in {Pass, Fail, Partial, NotCheckable}
      /\ v # NotCheckable =>
           /\ GitLabC05!ConfigKnown /\ GitLabC05!Got(<<"releases">>) /\ GitLabC05!Got(<<"jobs">>)
           /\ ~(GitLabC05!Truncated /\ GitLabC05!Missing(covering) # {})
      /\ v = Pass => S # {} /\ GitLabC05!Missing(covering) = {} /\ GitLabC05!Unclean(covering) = {}
      /\ v = Fail => GitLabC05!Missing(covering) # {}
      /\ v = NotCheckable =>
           \/ ~GitLabC05!ConfigKnown \/ ~GitLabC05!Got(<<"releases">>) \/ ~GitLabC05!Got(<<"jobs">>)
           \/ /\ GitLabC05!ConfigKnown /\ GitLabC05!Got(<<"releases">>) /\ GitLabC05!Got(<<"jobs">>)
              /\ (GitLabC05!Truncated /\ GitLabC05!Missing(covering) # {}) \/ S = {}
  BY <1>1 DEF GitLabC05!RanPerRelease, GitLabC05!CoverageVerdict, covering
<1>5. \A c : GitLabC05!Got(c) <=> Got(c)
  BY DEF GitLabC05!Got, Got
<1>6. Got(<<"releases">>) => GitLabC05!Listed = world.history.releases
  BY <1>5 DEF GitLabC05Ready, GitLabC05Heard, Outcomes, GitLabC05!Listed, Got
<1>7. /\ ~Got(<<"releases">>) => heard[<<"releases">>] = Failed
      /\ ~Got(<<"jobs">>) => heard[<<"jobs">>] = Failed
      /\ {<<"lint">>, <<"releases">>, <<"jobs">>} \subseteq GitLabC05!Call
  BY DEF GitLabC05Ready, GitLabC05Heard, Got, GitLabC05!Call
<1>8. /\ S \subseteq GitLabC05!Recent(GitLabC05!Listed, GitLabC05!date)
      /\ S = {} => GitLabC05!Recent(GitLabC05!Listed, GitLabC05!date) = {}
  BY GitLabC05Chosen
<1>9. ASSUME v = Pass
      PROVE  \E T \in GitLabC05!Selections(world.history.releases, GitLabC05!date) :
               \A r \in T : \E j \in GitLabC05!Scans(world) : j.success /\ j.commit = r.commit
  <2>1. Got(<<"releases">>) /\ Got(<<"jobs">>)
    BY <1>4, <1>5, <1>9
  <2>2. \A r \in S : \E j \in GitLabC05!Scans(world) : j.success /\ j.commit = r.commit
    BY <2>1, <1>3, <1>4, <1>9, GitLabC05Runs
  <2> QED
    BY <2>1, <2>2, <1>6
<1>10. ASSUME v = Fail, GitLabC05!InOrder(world.history.jobs)
       PROVE  \E r \in GitLabC05!Recent(world.history.releases, GitLabC05!date) :
                \A j \in GitLabC05!Scans(world) : j.commit # r.commit
  <2>1. Got(<<"releases">>) /\ Got(<<"jobs">>) /\ GitLabC05!ConfigKnown /\ ~GitLabC05!Truncated
    BY <1>4, <1>5, <1>10
  <2>2. GitLabC05!runs = GitLabC05!Scans(world)
    BY <2>1, <1>10, GitLabC05Runs
  <2>3. GitLabC05!Missing(covering) # {}
    BY <1>4, <1>10
  <2> QED
    BY <2>1, <2>2, <2>3, <1>2, <1>6, <1>8
<1>11. ASSUME v = NotCheckable
       PROVE  \/ \E c \in GitLabC05!Call : heard[c] = Failed
              \/ world.config = Unusable
              \/ GitLabC05!Recent(world.history.releases, GitLabC05!date) = {}
              \/ /\ GitLabC05!Cardinality(world.history.jobs) >= MaxJobs
                 /\ \E r \in GitLabC05!Recent(world.history.releases, GitLabC05!date) :
                      \A j \in GitLabC05!runs : j.commit # r.commit
  <2>1. CASE ~GitLabC05!ConfigKnown
    BY <2>1, <1>7, GitLabC05Config
  <2>2. CASE ~Got(<<"releases">>) \/ ~Got(<<"jobs">>)
    BY <2>2, <1>7
  <2>3. CASE /\ Got(<<"releases">>) /\ Got(<<"jobs">>)
             /\ GitLabC05!Truncated /\ GitLabC05!Missing(covering) # {}
    BY <2>3, <1>2, <1>6, <1>8, GitLabC05Runs
  <2>4. CASE Got(<<"releases">>) /\ S = {}
    BY <2>4, <1>6, <1>8
  <2> QED
    BY <2>1, <2>2, <2>3, <2>4, <1>4, <1>5, <1>11
<1> QED
  BY <1>4, <1>9, <1>10, <1>11

GitLabC05Honest == GitLabC05!VerifiedIsTrue /\ GitLabC05!FailuresStayLocal /\ GitLabC05!PanelsAgree

LEMMA GitLabC05Decide ==
  ASSUME GitLabC05Ready, GitLabC05!Decide
  PROVE  GitLabC05Honest' /\ status' \in [GitLabC05!Check -> {Pass, Fail, Partial, NotCheckable}]
<1> DEFINE tc == GitLabC05!ToolConfigured
           ca == GitLabC05!Cadence
           rr(S) == GitLabC05!RanPerRelease(S)
<1>1. PICK S \in GitLabC05!Selections(GitLabC05!Listed, GitLabC05!date) :
             GitLabC05!Emit([c \in GitLabC05!Check |->
               CASE c = "tool-configured" -> tc
                 [] c = "ran-per-release" -> rr(S)
                 [] c = "cadence"         -> ca
                 [] c = "default-setup"   -> NotCheckable])
  BY DEF GitLabC05!Decide, NotCheckable, GitLabC05!NotCheckable
<1> DEFINE ra == rr(S)
<1> HIDE DEF tc, ca, rr, ra
<1>2. /\ DOMAIN status' = GitLabC05!Check
      /\ status'["tool-configured"] = tc /\ status'["ran-per-release"] = ra
      /\ status'["cadence"] = ca /\ status'["default-setup"] = NotCheckable
      /\ status' = [c \in GitLabC05!Check |-> status'[c]]
      /\ UNCHANGED <<world, heard, seen>>
  BY <1>1 DEF GitLabC05!Emit, GitLabC05!Check, ra
<1>3. GitLabC05!runs' = GitLabC05!runs
  BY <1>2 DEF GitLabC05!runs, GitLabC05!Matched, GitLabC05!ConfigKnown, GitLabC05!config
<1>4. \A s : /\ GitLabC05!Is("tool-configured", s)' <=> status' # Undecided /\ tc = s
             /\ GitLabC05!Is("ran-per-release", s)' <=> status' # Undecided /\ ra = s
             /\ GitLabC05!Is("cadence", s)' <=> status' # Undecided /\ ca = s
             /\ GitLabC05!Is("default-setup", s)' <=> status' # Undecided /\ NotCheckable = s
  BY <1>2 DEF GitLabC05!Is
<1> USE DEF Pass, Fail, Partial, NotCheckable,
            GitLabC05!Pass, GitLabC05!Fail, GitLabC05!Partial, GitLabC05!NotCheckable
<1>5. status' \in [GitLabC05!Check -> {Pass, Fail, Partial, NotCheckable}]
  <2>1. \A c \in GitLabC05!Check : status'[c] \in {Pass, Fail, Partial, NotCheckable}
    BY <1>2, GitLabC05ToolConfigured, GitLabC05CadenceMeans, GitLabC05RanPerRelease
    DEF GitLabC05!Check, tc, ca, ra, rr
  <2> QED
    BY <2>1, <1>2
<1>6. GitLabC05!PassWasTrue' /\ GitLabC05!FailIsAbsence'
  <2>1. /\ tc = Pass => \E t \in GitLabC05!Scanners(world) : world.config[t] = "strong"
        /\ tc = Partial => GitLabC05!Scanners(world) # {}
        /\ tc = Fail => GitLabC05!Scanners(world) = {}
    BY GitLabC05ToolConfigured DEF tc
  <2>2. /\ ra = Pass =>
              \E T \in GitLabC05!Selections(world.history.releases, GitLabC05!date) :
                \A r \in T : \E j \in GitLabC05!Scans(world) : j.success /\ j.commit = r.commit
        /\ ra = Fail /\ GitLabC05!InOrder(world.history.jobs) =>
              \E r \in GitLabC05!Recent(world.history.releases, GitLabC05!date) :
                \A j \in GitLabC05!Scans(world) : j.commit # r.commit
    BY GitLabC05RanPerRelease DEF ra, rr
  <2>3. /\ ca \in {Pass, Partial} => GitLabC05!Scans(world) # {}
        /\ ca = Fail /\ GitLabC05!InOrder(world.history.jobs) => GitLabC05!Scans(world) = {}
    BY GitLabC05CadenceMeans DEF ca
  <2> QED
    BY <2>1, <2>2, <2>3, <1>2, <1>4 DEF GitLabC05!PassWasTrue, GitLabC05!FailIsAbsence
<1>7. GitLabC05!FailuresStayLocal'
  <2>1. tc = NotCheckable => heard[<<"lint">>] \in {Failed, Unusable}
    <3>1. heard[<<"lint">>] # Unasked
      BY DEF GitLabC05Ready, GitLabC05Heard
    <3> QED
      BY <3>1, GitLabC05ToolConfigured DEF tc, GitLabC05!ConfigKnown
  <2>2. ca = NotCheckable =>
          \/ \E c \in {<<"lint">>, <<"jobs">>} : heard[c] = Failed
          \/ GitLabC05!Scanners(world) = {}
          \/ GitLabC05!Cardinality(world.history.jobs) >= MaxJobs
    BY GitLabC05CadenceMeans DEF ca
  <2>3. ra = NotCheckable =>
          \/ \E c \in GitLabC05!Call : heard[c] = Failed
          \/ world.config = Unusable
          \/ GitLabC05!Recent(world.history.releases, GitLabC05!date) = {}
          \/ /\ GitLabC05!Cardinality(world.history.jobs) >= MaxJobs
             /\ \E r \in GitLabC05!Recent(world.history.releases, GitLabC05!date) :
                  \A j \in GitLabC05!runs : j.commit # r.commit
    BY GitLabC05RanPerRelease DEF ra, rr
  <2> QED
    BY <2>1, <2>2, <2>3, <1>2, <1>3, <1>4 DEF GitLabC05!FailuresStayLocal
<1>8. GitLabC05!PanelsAgree'
  <2>1. ca \in {Pass, Partial, Fail} => tc \in {Pass, Partial}
    BY GitLabC05ToolConfigured, GitLabC05CadenceMeans DEF tc, ca
  <2>2. ca = Pass => tc = Pass
    BY GitLabC05ToolConfigured, GitLabC05CadenceMeans DEF tc, ca
  <2>3. tc = NotCheckable => ra = NotCheckable
    BY GitLabC05ToolConfigured, GitLabC05RanPerRelease DEF tc, ra, rr
  <2> QED
    BY <2>1, <2>2, <2>3, <1>4 DEF GitLabC05!PanelsAgree, GitLabC05!ChecksAgree
<1> QED
  BY <1>5, <1>6, <1>7, <1>8 DEF GitLabC05Honest, GitLabC05!VerifiedIsTrue

GitLabC05Inv == GitLabC05!TypeOK /\ GitLabC05Heard /\ GitLabC05Honest

LEMMA GitLabC05Silent == status = Undecided => GitLabC05Honest
BY DEF GitLabC05Honest, GitLabC05!VerifiedIsTrue, GitLabC05!PassWasTrue, GitLabC05!FailIsAbsence,
   GitLabC05!FailuresStayLocal, GitLabC05!PanelsAgree, GitLabC05!ChecksAgree, GitLabC05!Is

LEMMA GitLabC05Reads ==
  ASSUME GitLabC05Inv, NEW c \in GitLabC05!Call, NEW answer, GitLabC05!Get(c, answer),
         c = <<"lint">> => answer = world.config,
         c = <<"releases">> => answer = world.history.releases /\ heard[<<"lint">>] # Unasked,
         c = <<"jobs">> =>
           answer = GitLabC05!Walk(world.history.jobs) /\ heard[<<"releases">>] # Unasked
  PROVE  GitLabC05Inv'
<1>1. PICK a \in {answer, Failed} : heard' = [heard EXCEPT ![c] = a]
  BY DEF GitLabC05!Get
<1>2. heard[c] = Unasked /\ status = Undecided /\ UNCHANGED <<world, status, seen>>
  BY DEF GitLabC05!Get
<1>3. GitLabC05!TypeOK'
  BY <1>1, <1>2 DEF GitLabC05Inv, GitLabC05!TypeOK, GitLabC05!Typed
<1>4. DOMAIN heard = GitLabC05!Call /\ {<<"lint">>, <<"releases">>, <<"jobs">>} \subseteq GitLabC05!Call
  BY DEF GitLabC05Inv, GitLabC05!TypeOK, GitLabC05!Typed, GitLabC05!Call
<1>5. \A d \in GitLabC05!Call : heard'[d] = IF d = c THEN a ELSE heard[d]
  BY <1>1, <1>4
<1>6. GitLabC05Heard'
  <2>1. seen' = {world'} /\ world' = world
    BY <1>2 DEF GitLabC05Inv, GitLabC05Heard
  <2>2. heard'[<<"lint">>] \in Outcomes({world'.config})
    BY <2>1, <1>4, <1>5 DEF GitLabC05Inv, GitLabC05Heard, Outcomes
  <2>3. heard'[<<"releases">>] \in Outcomes({world'.history.releases})
    BY <2>1, <1>4, <1>5 DEF GitLabC05Inv, GitLabC05Heard, Outcomes
  <2>4. heard'[<<"jobs">>] \in Outcomes({GitLabC05!Walk(world'.history.jobs)})
    BY <2>1, <1>4, <1>5 DEF GitLabC05Inv, GitLabC05Heard, Outcomes
  <2>5. /\ heard'[<<"releases">>] # Unasked => heard'[<<"lint">>] # Unasked
        /\ heard'[<<"jobs">>] # Unasked => heard'[<<"releases">>] # Unasked
    BY <1>2, <1>4, <1>5 DEF GitLabC05Inv, GitLabC05Heard
  <2> QED
    BY <2>1, <2>2, <2>3, <2>4, <2>5 DEF GitLabC05Heard
<1>7. status' = Undecided => GitLabC05Honest'
  BY DEF GitLabC05Honest, GitLabC05!VerifiedIsTrue, GitLabC05!PassWasTrue, GitLabC05!FailIsAbsence,
     GitLabC05!FailuresStayLocal, GitLabC05!PanelsAgree, GitLabC05!ChecksAgree, GitLabC05!Is
<1> QED
  BY <1>2, <1>3, <1>6, <1>7 DEF GitLabC05Inv

LEMMA GitLabC05Init == GitLabC05!Init => GitLabC05Inv
<1> SUFFICES ASSUME GitLabC05!Init PROVE GitLabC05Inv
  OBVIOUS
<1>1. /\ world \in GitLabC05!World /\ seen = {world} /\ status = Undecided
      /\ heard = [c \in GitLabC05!Call |-> Unasked]
  BY DEF GitLabC05!Init, GitLabC05!InitWith
<1>2. GitLabC05!TypeOK
  BY <1>1 DEF GitLabC05!TypeOK, GitLabC05!Typed
<1>3. GitLabC05Heard
  BY <1>1 DEF GitLabC05Heard, Outcomes, GitLabC05!Call
<1> QED
  BY <1>1, <1>2, <1>3, GitLabC05Silent DEF GitLabC05Inv

LEMMA GitLabC05Next == GitLabC05Inv /\ [GitLabC05!Next]_vars => GitLabC05Inv'
<1> SUFFICES ASSUME GitLabC05Inv, [GitLabC05!Next]_vars PROVE GitLabC05Inv'
  OBVIOUS
<1>1. CASE GitLabC05!NewClient
  BY <1>1, GitLabC05Reads DEF GitLabC05!NewClient, GitLabC05!Call
<1>2. CASE GitLabC05!Lint
  BY <1>2, GitLabC05Reads DEF GitLabC05!Lint, GitLabC05!Call
<1>3. CASE GitLabC05!ListReleases
  BY <1>3, GitLabC05Reads DEF GitLabC05!ListReleases, GitLabC05!Call
<1>4. CASE GitLabC05!WalkJobs
  BY <1>4, GitLabC05Reads DEF GitLabC05!WalkJobs, GitLabC05!Call
<1>5. CASE GitLabC05!GiveUp
  <2>1. status' = [c \in GitLabC05!Check |-> NotCheckable] /\ UNCHANGED <<world, heard, seen>>
        /\ heard[<<"client">>] = Failed
    BY <1>5 DEF GitLabC05!GiveUp, GitLabC05!Emit, GitLabC05!AllNotCheckable, GitLabC05!NotCheckable, NotCheckable
  <2>2. \A c \in GitLabC05!Check : \A s : GitLabC05!Is(c, s)' => s = NotCheckable
    BY <2>1 DEF GitLabC05!Is
  <2>3. /\ "tool-configured" \in GitLabC05!Check /\ "ran-per-release" \in GitLabC05!Check
        /\ "cadence" \in GitLabC05!Check /\ "default-setup" \in GitLabC05!Check
    BY DEF GitLabC05!Check
  <2>4. GitLabC05!TypeOK' /\ GitLabC05Heard'
    BY <2>1 DEF GitLabC05Inv, GitLabC05Heard, GitLabC05!TypeOK, GitLabC05!Typed, NotCheckable,
       GitLabC05!NotCheckable
  <2>5. GitLabC05Honest'
    BY <2>1, <2>2, <2>3 DEF GitLabC05Honest, GitLabC05!VerifiedIsTrue, GitLabC05!PassWasTrue,
       GitLabC05!FailIsAbsence, GitLabC05!FailuresStayLocal, GitLabC05!PanelsAgree, GitLabC05!ChecksAgree,
       GitLabC05!Is, Pass, Fail, Partial, NotCheckable, GitLabC05!Pass, GitLabC05!Fail, GitLabC05!Partial,
       GitLabC05!NotCheckable
  <2> QED
    BY <2>4, <2>5 DEF GitLabC05Inv
<1>6. CASE GitLabC05!Decide
  <2>1. UNCHANGED <<world, heard, seen>>
    BY <1>6 DEF GitLabC05!Decide, GitLabC05!Emit
  <2>2. GitLabC05Ready
    BY <1>6 DEF GitLabC05!Decide, GitLabC05!Asked, GitLabC05Ready, GitLabC05Inv
  <2>3. status' \in [GitLabC05!Check -> {Pass, Fail, Partial, NotCheckable}] /\ GitLabC05Honest'
    BY <1>6, <2>2, GitLabC05Decide
  <2>4. GitLabC05!TypeOK' /\ GitLabC05Heard'
    BY <2>1, <2>3 DEF GitLabC05Inv, GitLabC05Heard, GitLabC05!TypeOK, GitLabC05!Typed, Pass, Fail, Partial,
       NotCheckable, GitLabC05!Pass, GitLabC05!Fail, GitLabC05!Partial, GitLabC05!NotCheckable
  <2> QED
    BY <2>3, <2>4 DEF GitLabC05Inv
<1>7. CASE UNCHANGED vars
  <2>1. UNCHANGED <<world, heard, status, seen>>
    BY <1>7 DEF vars
  <2>2. GitLabC05!runs' = GitLabC05!runs
    BY <2>1 DEF GitLabC05!runs, GitLabC05!Matched, GitLabC05!ConfigKnown, GitLabC05!config
  <2>3. \A c, s : GitLabC05!Is(c, s)' <=> GitLabC05!Is(c, s)
    BY <2>1 DEF GitLabC05!Is
  <2>4. GitLabC05!TypeOK' /\ GitLabC05Heard'
    BY <2>1 DEF GitLabC05Inv, GitLabC05Heard, GitLabC05!TypeOK, GitLabC05!Typed
  <2>5. GitLabC05!PassWasTrue' = GitLabC05!PassWasTrue /\ GitLabC05!FailIsAbsence' = GitLabC05!FailIsAbsence
    BY <2>1, <2>3 DEF GitLabC05!PassWasTrue, GitLabC05!FailIsAbsence
  <2>6. GitLabC05!FailuresStayLocal' = GitLabC05!FailuresStayLocal
    BY <2>1, <2>2, <2>3 DEF GitLabC05!FailuresStayLocal
  <2>7. GitLabC05!PanelsAgree' = GitLabC05!PanelsAgree
    BY <2>3 DEF GitLabC05!PanelsAgree, GitLabC05!ChecksAgree
  <2> QED
    BY <2>4, <2>5, <2>6, <2>7 DEF GitLabC05Inv, GitLabC05Honest, GitLabC05!VerifiedIsTrue
<1> QED
  BY <1>1, <1>2, <1>3, <1>4, <1>5, <1>6, <1>7 DEF GitLabC05!Next
-----------------------------------------------------------------------------
(***************************************************************************)
(* The rules of the default branch on the four platforms, and then all of  *)
(* the collectors together.                                                *)
(***************************************************************************)
GitHubHeard ==
  /\ heard["protection"] \in Outcomes({w.legacy : w \in seen})
  /\ heard["rules"] \in Outcomes({[r \in Ruleset |-> w.rules[r].on] : w \in seen})
  /\ \A r \in Ruleset : heard[r] \in Outcomes({w.rules[r].bypass : w \in seen})
  /\ Got("rules") => Got("protection")

\* What the answers in hand say was so, of the legacy protection in l and of the rules in w.
LEMMA GitHubSources ==
  ASSUME GitHubHeard, Got("rules")
  PROVE  \E l, w \in seen : /\ heard["protection"] = l.legacy
                            /\ heard["rules"] = [r \in Ruleset |-> w.rules[r].on]
BY DEF GitHubHeard, Got, Outcomes

\* Whatever stops members according to the answers did stop them.
LEMMA GitHubEffective ==
  ASSUME GitHubHeard, Got("rules"), NEW what, GitHub!Effective(what)
  PROVE  /\ \E w \in seen : GitHub!Stops(w, "member", what)
         /\ (GitHub!LegacyHas(what) /\ what = "review" => ~GitHub!legacy.excused) =>
              \E w \in seen : GitHub!Stops(w, "member", what) /\ GitHub!Stops(w, "excused", what)
<1>1. PICK l \in seen, w \in seen :
        /\ heard["protection"] = l.legacy
        /\ heard["rules"] = [r \in Ruleset |-> w.rules[r].on]
  BY GitHubSources
<1>2. CASE GitHub!LegacyHas(what)
  BY <1>1, <1>2 DEF GitHub!LegacyHas, GitHub!legacy, GitHub!Stops
<1>3. CASE GitHub!RulesHave(what)
  BY <1>1, <1>3 DEF GitHub!RulesHave, GitHub!Stops
<1> QED
  BY <1>2, <1>3 DEF GitHub!Effective

\* While nothing has changed, what stops members is what the answers tell of.
LEMMA GitHubComplete ==
  ASSUME GitHubHeard, Got("rules"), Quiet, NEW what, GitHub!Stops(world, "member", what)
  PROVE  GitHub!Effective(what)
<1>1. /\ heard["protection"] = world.legacy
      /\ heard["rules"] = [r \in Ruleset |-> world.rules[r].on]
  BY GitHubSources DEF Quiet
<1> QED
  BY <1>1 DEF GitHub!Effective, GitHub!LegacyHas, GitHub!legacy, GitHub!RulesHave, GitHub!Stops

LEMMA GitHubProtectionExists ==
  ASSUME GitHubHeard, Got("rules")
  PROVE  /\ GitHub!ProtectionExists \in {Pass, Fail}
         /\ GitHub!ProtectionExists = Pass => \E w \in seen : GitHub!Protected(w)
         /\ GitHub!ProtectionExists = Fail => \A a \in GitHub!Restriction : ~GitHub!Effective(a)
<1>1. PICK l \in seen, w \in seen :
        /\ heard["protection"] = l.legacy
        /\ heard["rules"] = [r \in Ruleset |-> w.rules[r].on]
  BY GitHubSources
<1>2. ASSUME GitHub!ProtectionExists = Pass
      PROVE  \E v \in seen : GitHub!Protected(v)
  BY <1>1, <1>2 DEF GitHub!ProtectionExists, GitHub!PassIf, GitHub!Pass, GitHub!Fail, GitHub!Tracked,
                    GitHub!Protected, GitHub!legacy, Pass
<1>3. ASSUME GitHub!ProtectionExists = Fail, NEW a \in GitHub!Restriction
      PROVE  ~GitHub!Effective(a)
  BY <1>3 DEF GitHub!ProtectionExists, GitHub!PassIf, GitHub!Pass, GitHub!Fail, GitHub!Tracked, Fail,
              GitHub!Restriction, GitHub!Effective, GitHub!LegacyHas, GitHub!RulesHave
<1> QED
  BY <1>2, <1>3 DEF GitHub!ProtectionExists, GitHub!PassIf, GitHub!Pass, GitHub!Fail, Pass, Fail

LEMMA GitHubAdminEnforced ==
  ASSUME GitHubHeard, Got("rules"), Quiet, \A r \in GitHub!Relevant : heard[r] # Unasked
  PROVE  /\ GitHub!AdminEnforced = Pass =>
              \A a \in GitHub!Restriction :
                GitHub!Stops(world, "member", a) => GitHub!Stops(world, "admin", a)
         /\ GitHub!AdminEnforced = Fail =>
              \/ world.legacy # NoLegacy /\ ~world.legacy.admins
              \/ \A a \in GitHub!Restriction : ~GitHub!Stops(world, "member", a)
<1>1. /\ heard["protection"] = world.legacy
      /\ heard["rules"] = [r \in Ruleset |-> world.rules[r].on]
  BY GitHubSources DEF Quiet
<1>2. \A r \in GitHub!Relevant : heard[r] = Failed \/ heard[r] = world.rules[r].bypass
  BY DEF GitHubHeard, Outcomes, Quiet, GitHub!Relevant
<1>3. \A r \in Ruleset, a \in GitHub!Restriction : a \in world.rules[r].on => r \in GitHub!Relevant
  BY <1>1 DEF GitHub!Relevant, GitHub!Restriction, GitHub!Tracked
<1>4. ASSUME GitHub!AdminEnforced = Pass, NEW a \in GitHub!Restriction, GitHub!Stops(world, "member", a)
      PROVE  GitHub!Stops(world, "admin", a)
  <2>1. /\ \A r \in GitHub!Relevant : heard[r] # Failed
        /\ GitHub!AdminsBound
        /\ GitHub!Bypass = {}
    BY <1>4 DEF GitHub!AdminEnforced, GitHub!Pass, GitHub!Partial, GitHub!Fail, GitHub!NotCheckable, Pass
  <2>2. CASE world.legacy # NoLegacy /\ a \in world.legacy.on
    BY <2>1, <2>2, <1>1 DEF GitHub!AdminsBound, GitHub!LegacyEnforcesAdmins, GitHub!legacy, GitHub!Stops
  <2>3. ASSUME NEW r \in Ruleset, a \in world.rules[r].on
        PROVE  world.rules[r].bypass = {}
    BY <2>1, <2>3, <1>2, <1>3 DEF GitHub!Bypass
  <2> QED
    BY <1>4, <2>2, <2>3 DEF GitHub!Stops
<1>5. ASSUME GitHub!AdminEnforced = Fail, ~(world.legacy # NoLegacy /\ ~world.legacy.admins),
             NEW a \in GitHub!Restriction
      PROVE  ~GitHub!Stops(world, "member", a)
  <2>1. ~GitHub!AdminsBound /\ "always" \notin GitHub!Bypass
    BY <1>5 DEF GitHub!AdminEnforced, GitHub!Pass, GitHub!Partial, GitHub!Fail, GitHub!NotCheckable, Fail
  <2>2. GitHub!Relevant = {} /\ world.legacy = NoLegacy
    BY <2>1, <1>5, <1>1 DEF GitHub!AdminsBound, GitHub!LegacyEnforcesAdmins, GitHub!legacy
  <2> QED
    BY <2>2, <1>3 DEF GitHub!Stops
<1> QED
  BY <1>4, <1>5

\* What the verdicts on the four restrictions mean.
LEMMA GitHubVerdicts ==
  ASSUME NEW c \in DOMAIN GitHub!Subject
  PROVE  /\ GitHub!Verdict(c) = Pass =>
              /\ GitHub!Effective(GitHub!Subject[c])
              /\ GitHub!LegacyHas(GitHub!Subject[c]) /\ GitHub!Subject[c] = "review"
                   => ~GitHub!legacy.excused
         /\ GitHub!Verdict(c) = Fail => ~GitHub!Effective(GitHub!Subject[c])
         /\ GitHub!Verdict(c) = Partial => GitHub!Effective(GitHub!Subject[c])
         /\ GitHub!Verdict(c) \in {Pass, Fail, Partial}
<1> USE DEF Pass, Fail, Partial, GitHub!Pass, GitHub!Fail, GitHub!Partial
<1>1. c \in {"required-reviews", "required-status-checks", "force-push-blocked", "deletion-blocked"}
  BY DEF GitHub!Subject, GitHub!Check
<1>2. CASE c = "required-reviews"
  <2>1. GitHub!Subject[c] = "review" /\ GitHub!Verdict(c) = GitHub!RequiredReviews
    BY <1>2 DEF GitHub!Subject, GitHub!Check, GitHub!Verdict
  <2> QED
    BY <2>1, <1>2 DEF GitHub!RequiredReviews, GitHub!PassIf, GitHub!Effective
<1>3. CASE c # "required-reviews"
  <2>1. GitHub!Subject[c] # "review" /\ GitHub!Verdict(c) = GitHub!PassIf(GitHub!Effective(GitHub!Subject[c]))
    BY <1>1, <1>3 DEF GitHub!Subject, GitHub!Check, GitHub!Verdict
  <2> QED
    BY <2>1 DEF GitHub!PassIf
<1> QED
  BY <1>2, <1>3

LEMMA GitHubDecide ==
  ASSUME GitHub!TypeOK, GitHubHeard, GitHub!Decide
  PROVE  /\ GitHub!VerifiedIsTrue'
         /\ GitHub!FailuresStayLocal'
         /\ status' \in [GitHub!Check -> {Pass, Fail, Partial, NotCheckable}]
<1>1. /\ status' = [c \in GitHub!Check |-> GitHub!Verdict(c)]
      /\ UNCHANGED <<world, heard, seen>>
      /\ Got("rules")
      /\ \A r \in GitHub!Relevant : heard[r] # Unasked
  BY DEF GitHub!Decide, GitHub!Emit, GitHub!Got, Got
<1>2. /\ DOMAIN GitHub!Subject \subseteq GitHub!Check
      /\ "required-reviews" \in DOMAIN GitHub!Subject
      /\ GitHub!Subject["required-reviews"] = "review"
      /\ "protection-exists" \in GitHub!Check /\ "admin-enforced" \in GitHub!Check
      /\ GitHub!Check = DOMAIN GitHub!Subject \cup {"protection-exists", "admin-enforced"}
  BY DEF GitHub!Subject, GitHub!Check
<1>3. \A c \in GitHub!Check : \A s : GitHub!Is(c, s)' => GitHub!Verdict(c) = s
  BY <1>1 DEF GitHub!Is
<1>4. /\ GitHub!Verdict("protection-exists") = GitHub!ProtectionExists
      /\ GitHub!Verdict("admin-enforced") = GitHub!AdminEnforced
  BY DEF GitHub!Verdict
<1>5. GitHub!PassWasTrue'
  <2>1. ASSUME NEW c \in DOMAIN GitHub!Subject, GitHub!Verdict(c) = Pass
        PROVE  \E w \in seen : \A who \in {"member", "excused"} : GitHub!Stops(w, who, GitHub!Subject[c])
    BY <2>1, <1>1, GitHubVerdicts, GitHubEffective
  <2>2. ASSUME GitHub!Verdict("required-reviews") = Partial
        PROVE  \E w \in seen : GitHub!Stops(w, "member", "review")
    BY <2>2, <1>1, <1>2, GitHubVerdicts, GitHubEffective
  <2>3. ASSUME GitHub!ProtectionExists = Pass
        PROVE  \E w \in seen : GitHub!Protected(w)
    BY <2>3, <1>1, GitHubProtectionExists
  <2> QED
    BY <2>1, <2>2, <2>3, <1>1, <1>2, <1>3, <1>4
    DEF GitHub!PassWasTrue, Pass, GitHub!Pass, Partial, GitHub!Partial
<1>6. GitHub!StillTrue'
  <2> SUFFICES ASSUME Quiet PROVE GitHub!StillTrue'
    BY <1>1 DEF GitHub!StillTrue, GitHub!Quiet, Quiet
  <2>1. ASSUME NEW c \in DOMAIN GitHub!Subject, GitHub!Verdict(c) = Fail
        PROVE  ~GitHub!Stops(world, "member", GitHub!Subject[c])
    BY <2>1, <1>1, GitHubVerdicts, GitHubComplete
  <2>2. ASSUME GitHub!ProtectionExists = Fail, NEW a \in GitHub!Restriction
        PROVE  ~GitHub!Stops(world, "member", a)
    BY <2>2, <1>1, GitHubProtectionExists, GitHubComplete
  <2>3. GitHub!AdminEnforced = Pass =>
          \A a \in GitHub!Restriction :
            GitHub!Stops(world, "member", a) => GitHub!Stops(world, "admin", a)
    BY <1>1, GitHubAdminEnforced
  <2>4. GitHub!AdminEnforced = Fail =>
          \/ world.legacy # NoLegacy /\ ~world.legacy.admins
          \/ \A a \in GitHub!Restriction : ~GitHub!Stops(world, "member", a)
    BY <1>1, GitHubAdminEnforced
  <2> QED
    BY <2>1, <2>2, <2>3, <2>4, <1>1, <1>2, <1>3, <1>4
    DEF GitHub!StillTrue, Pass, GitHub!Pass, Fail, GitHub!Fail
<1>7. GitHub!AdminEnforced \in {Pass, Fail, Partial, NotCheckable}
  BY DEF GitHub!AdminEnforced, Pass, Fail, Partial, NotCheckable,
         GitHub!Pass, GitHub!Fail, GitHub!Partial, GitHub!NotCheckable
<1>8. GitHub!AdminEnforced = NotCheckable => \E r \in GitHub!Relevant : heard[r] = Failed
  BY DEF GitHub!AdminEnforced, NotCheckable,
         GitHub!Pass, GitHub!Fail, GitHub!Partial, GitHub!NotCheckable
<1>9. GitHub!ProtectionExists \in {Pass, Fail}
  BY <1>1, GitHubProtectionExists
<1>10. status' \in [GitHub!Check -> {Pass, Fail, Partial, NotCheckable}]
  <2>1. \A c \in GitHub!Check : GitHub!Verdict(c) \in {Pass, Fail, Partial, NotCheckable}
    BY <1>2, <1>4, <1>7, <1>9, GitHubVerdicts
  <2> QED
    BY <2>1, <1>1
<1>11. GitHub!FailuresStayLocal'
  <2>1. \A c \in GitHub!Check \ {"admin-enforced"} : GitHub!Verdict(c) # NotCheckable
    BY <1>2, <1>4, <1>9, GitHubVerdicts DEF Pass, Fail, Partial, NotCheckable
  <2>2. GitHub!Relevant \subseteq GitHub!Call
    BY DEF GitHub!Relevant, GitHub!Call
  <2> QED
    BY <2>1, <2>2, <1>1, <1>2, <1>3, <1>4, <1>8
    DEF GitHub!FailuresStayLocal, NotCheckable, GitHub!NotCheckable
<1> QED
  BY <1>5, <1>6, <1>10, <1>11 DEF GitHub!VerifiedIsTrue

GitHubInv ==
  /\ GitHub!TypeOK
  /\ GitHubHeard
  /\ GitHub!VerifiedIsTrue
  /\ GitHub!FailuresStayLocal

\* Nothing is claimed until there are statuses.
LEMMA GitHubSilent ==
  status = Undecided => GitHub!VerifiedIsTrue /\ GitHub!FailuresStayLocal
BY DEF GitHub!VerifiedIsTrue, GitHub!PassWasTrue, GitHub!StillTrue, GitHub!FailuresStayLocal, GitHub!Is

LEMMA GitHubReads ==
  ASSUME GitHubInv, NEW c \in GitHub!Call, NEW answer, GitHub!Get(c, answer),
         c = "protection" => answer = world.legacy,
         c = "rules" => answer = [r \in Ruleset |-> world.rules[r].on] /\ Got("protection"),
         c \in Ruleset => answer = world.rules[c].bypass
  PROVE  GitHubInv'
<1>1. PICK a \in {answer, Failed} : heard' = [heard EXCEPT ![c] = a]
  BY DEF GitHub!Get
<1>2. heard[c] = Unasked /\ status = Undecided /\ UNCHANGED <<world, status, seen>>
  BY DEF GitHub!Get
<1>3. GitHub!TypeOK'
  BY <1>1, <1>2 DEF GitHubInv, GitHub!TypeOK, GitHub!Typed
<1>4. world \in seen /\ DOMAIN heard = GitHub!Call
  BY DEF GitHubInv, GitHub!TypeOK, GitHub!Typed
<1>5. GitHubHeard'
  <2> USE DEF GitHub!Call, GitHubInv, GitHubHeard, Outcomes
  <2>1. heard'["protection"] \in Outcomes({w.legacy : w \in seen})
    BY <1>1, <1>4
  <2>2. heard'["rules"] \in Outcomes({[r \in Ruleset |-> w.rules[r].on] : w \in seen})
    BY <1>1, <1>4
  <2>3. ASSUME NEW r \in Ruleset
        PROVE  heard'[r] \in Outcomes({w.rules[r].bypass : w \in seen})
    BY <1>1, <1>4
  <2>4. Got("rules")' => Got("protection")'
    BY <1>1, <1>2, <1>4 DEF Got
  <2> QED
    BY <2>1, <2>2, <2>3, <2>4, <1>2
<1> QED
  BY <1>2, <1>3, <1>5, GitHubSilent DEF GitHubInv, GitHub!VerifiedIsTrue, GitHub!PassWasTrue,
     GitHub!StillTrue, GitHub!FailuresStayLocal, GitHub!Is

LEMMA GitHubInit == GitHub!Init => GitHubInv
<1> SUFFICES ASSUME GitHub!Init PROVE GitHubInv
  OBVIOUS
<1>1. /\ world \in GitHub!World /\ seen = {world} /\ status = Undecided
      /\ heard = [c \in GitHub!Call |-> Unasked]
  BY DEF GitHub!Init, GitHub!InitWith
<1>2. GitHub!TypeOK
  BY <1>1 DEF GitHub!TypeOK, GitHub!Typed
<1>3. GitHubHeard
  BY <1>1 DEF GitHubHeard, Outcomes, Got, GitHub!Call
<1> QED
  BY <1>1, <1>2, <1>3, GitHubSilent DEF GitHubInv

LEMMA GitHubNext == GitHubInv /\ [GitHub!Next]_vars => GitHubInv'
<1> SUFFICES ASSUME GitHubInv, [GitHub!Next]_vars PROVE GitHubInv'
  OBVIOUS
<1> USE GitHubAssumption
<1>1. CASE GitHub!ReadRepository
  BY <1>1, GitHubReads DEF GitHub!ReadRepository, GitHub!Call
<1>2. CASE GitHub!ReadProtection
  BY <1>2, GitHubReads DEF GitHub!ReadProtection, GitHub!Call
<1>3. CASE GitHub!ReadRules
  BY <1>3, GitHubReads DEF GitHub!ReadRules, GitHub!Call, GitHub!Got, Got
<1>4. ASSUME NEW r \in Ruleset, GitHub!ReadRuleset(r)
      PROVE  GitHubInv'
  BY <1>4, GitHubReads DEF GitHub!ReadRuleset, GitHub!Call
<1>5. CASE GitHub!GiveUp
  <2>1. status' = [c \in GitHub!Check |-> NotCheckable] /\ UNCHANGED <<world, heard, seen>>
    BY <1>5 DEF GitHub!GiveUp, GitHub!Emit, GitHub!AllNotCheckable, GitHub!NotCheckable, NotCheckable
  <2>2. \A c \in GitHub!Check : \A s : GitHub!Is(c, s)' => s = NotCheckable
    BY <2>1 DEF GitHub!Is
  <2>3. DOMAIN GitHub!Subject \subseteq GitHub!Check /\ "required-reviews" \in GitHub!Check
        /\ "protection-exists" \in GitHub!Check /\ "admin-enforced" \in GitHub!Check
    BY DEF GitHub!Subject, GitHub!Check
  <2>4. GitHub!TypeOK' /\ GitHubHeard'
    BY <2>1 DEF GitHubInv, GitHub!TypeOK, GitHub!Typed, GitHubHeard, Got, NotCheckable, GitHub!NotCheckable
  <2>5. GitHub!VerifiedIsTrue'
    BY <2>2, <2>3 DEF GitHub!VerifiedIsTrue, GitHub!PassWasTrue, GitHub!StillTrue, NotCheckable,
       GitHub!Pass, GitHub!Fail, GitHub!Partial
  <2>6. GitHub!FailuresStayLocal'
    BY <2>1, <1>5 DEF GitHub!GiveUp, GitHub!FailuresStayLocal, GitHub!Call
  <2> QED
    BY <2>4, <2>5, <2>6 DEF GitHubInv
<1>6. CASE GitHub!Decide
  <2>1. status' \in [GitHub!Check -> {Pass, Fail, Partial, NotCheckable}] /\ UNCHANGED <<world, heard, seen>>
    BY <1>6, GitHubDecide DEF GitHubInv, GitHub!Decide, GitHub!Emit
  <2>2. GitHub!TypeOK' /\ GitHubHeard'
    BY <2>1 DEF GitHubInv, GitHub!TypeOK, GitHub!Typed, GitHubHeard, Got, Pass, Fail, Partial, NotCheckable,
       GitHub!Pass, GitHub!Fail, GitHub!Partial, GitHub!NotCheckable
  <2> QED
    BY <2>2, <1>6, GitHubDecide DEF GitHubInv
<1>7. CASE GitHub!Edit
  <2>1. PICK w : /\ w \in {[world EXCEPT !.legacy = l] : l \in GitHub!Legacy \cup {NoLegacy}}
                           \cup {[world EXCEPT !.rules[r] = s] : r \in Ruleset, s \in GitHub!Rules}
                 /\ world' = w /\ seen' = seen \cup {w}
    BY <1>7 DEF GitHub!Edit, GitHub!Change
  <2>2. status = Undecided /\ UNCHANGED <<heard, status>>
    BY <1>7 DEF GitHub!Edit, GitHub!Change
  <2>3. w \in GitHub!World
    BY <2>1 DEF GitHubInv, GitHub!TypeOK, GitHub!Typed, GitHub!World
  <2>4. GitHub!TypeOK'
    BY <2>1, <2>2, <2>3 DEF GitHubInv, GitHub!TypeOK, GitHub!Typed
  <2>5. GitHubHeard'
    BY <2>1, <2>2 DEF GitHubInv, GitHubHeard, Outcomes, Got
  <2> QED
    BY <2>2, <2>4, <2>5 DEF GitHubInv, GitHub!VerifiedIsTrue, GitHub!PassWasTrue,
       GitHub!StillTrue, GitHub!FailuresStayLocal, GitHub!Is
<1>8. CASE UNCHANGED vars
  BY <1>8 DEF vars, GitHubInv, GitHub!TypeOK, GitHub!Typed, GitHubHeard, Got, GitHub!VerifiedIsTrue,
     GitHub!PassWasTrue, GitHub!StillTrue, GitHub!FailuresStayLocal, GitHub!Is, GitHub!Quiet
<1> QED
  BY <1>1, <1>2, <1>3, <1>4, <1>5, <1>6, <1>7, <1>8 DEF GitHub!Next
-----------------------------------------------------------------------------
AzureHeard ==
  /\ heard["repositories"] \in Outcomes({w.branch : w \in seen})
  /\ heard["policies"] \in Outcomes({w.policies : w \in seen})

AzureInv ==
  /\ Azure!TypeOK
  /\ AzureHeard
  /\ Azure!VerifiedIsTrue
  /\ Azure!FailuresStayLocal

LEMMA AzureMatching ==
  ASSUME NEW w \in Azure!World, NEW b \in Branch
  PROVE  Azure!MatchingPolicies(w.policies, b) = {p \in w.policies : Azure!Covers(p, b)}
<1>1. \A p \in w.policies : p.scope \subseteq Azure!Scope
  BY AzureAssumption DEF Azure!World, Azure!Policies
<1>2. ASSUME NEW s \in Azure!Scope
      PROVE  Azure!RefNameMatches(s, b) <=>
               CASE s.matchKind = "DefaultBranch" -> TRUE
                 [] s.matchKind = "Prefix"        -> b \in s.begins
                 [] s.matchKind = "Exact"         -> b = s.equals
  BY DEF Azure!Scope, Azure!RefNameMatches
<1>3. \A s \in Azure!Scope : s.repository # "other" <=> s.repository \in {"this", "any"}
  BY DEF Azure!Scope
<1>4. ASSUME NEW p \in w.policies
      PROVE  Azure!PolicyScopeMatches(p.scope, b) <=>
               \E s \in p.scope :
                 /\ s.repository \in {"this", "any"}
                 /\ CASE s.matchKind = "DefaultBranch" -> TRUE
                      [] s.matchKind = "Prefix"        -> b \in s.begins
                      [] s.matchKind = "Exact"         -> b = s.equals
  BY <1>1, <1>2, <1>3 DEF Azure!PolicyScopeMatches
<1> QED
  BY <1>4 DEF Azure!MatchingPolicies, Azure!Covers

LEMMA AzureDecide ==
  ASSUME Azure!TypeOK, AzureHeard, Azure!Decide
  PROVE  /\ Azure!VerifiedIsTrue'
         /\ Azure!FailuresStayLocal'
         /\ status' \in [Azure!Check -> {Pass, Fail, Partial, NotCheckable}]
<1> USE DEF Pass, Fail, Partial, NotCheckable,
            Azure!Pass, Azure!Fail, Azure!Partial, Azure!NotCheckable
<1>1. /\ status' = [c \in Azure!Check |-> Azure!Verdict(c)]
      /\ UNCHANGED <<world, heard, seen>>
      /\ Got("policies")
      /\ heard["repositories"] \in Branch
  BY DEF Azure!Decide, Azure!Emit, Azure!Got, Got
<1>2. PICK v \in seen, w \in seen : heard["repositories"] = v.branch /\ heard["policies"] = w.policies
  BY <1>1, AzureAssumption DEF AzureHeard, Outcomes, Got
<1>3. Azure!Matching = {p \in w.policies : Azure!Covers(p, v.branch)}
  BY <1>1, <1>2, AzureMatching DEF Azure!Matching, Azure!TypeOK, Azure!Typed
<1>4. Quiet => v = world /\ w = world
  BY DEF Quiet
<1>5. \A c \in Azure!Check : \A s : Azure!Is(c, s)' => Azure!Verdict(c) = s
  BY <1>1 DEF Azure!Is
<1>6. /\ Azure!Answers \subseteq Azure!Check /\ "protection-exists" \in Azure!Check
      /\ Azure!Subject["required-reviews"] = "review"
      /\ Azure!Subject["required-status-checks"] = "checks"
  BY DEF Azure!Answers, Azure!Check, Azure!Subject
<1>7. ASSUME NEW c \in Azure!Answers
      PROVE  /\ Azure!Verdict(c) \in {Pass, Partial, Fail}
             /\ Azure!Verdict(c) = Pass <=> Azure!Stops(w, v.branch, Azure!Subject[c])
             /\ Azure!Verdict(c) = Fail <=> ~Azure!Wanted(w, v.branch, Azure!Subject[c])
  <2>1. CASE c = "required-reviews"
    <3>1. Azure!Verdict(c) = Azure!RequiredReviews
      BY <2>1 DEF Azure!Verdict
    <3> QED
      BY <3>1, <2>1, <1>3, <1>6 DEF Azure!RequiredReviews, Azure!Stops, Azure!Wanted, Azure!Asks
  <2>2. CASE c = "required-status-checks"
    <3>1. Azure!Verdict(c) = Azure!RequiredStatusChecks
      BY <2>2 DEF Azure!Verdict
    <3> QED
      BY <3>1, <2>2, <1>3, <1>6 DEF Azure!RequiredStatusChecks, Azure!Stops, Azure!Wanted, Azure!Asks
  <2> QED
    BY <2>1, <2>2 DEF Azure!Answers
<1>8. /\ Azure!Verdict("protection-exists") \in {Pass, Fail}
      /\ Azure!Verdict("protection-exists") = Pass => \E p \in w.policies : Azure!Covers(p, v.branch)
      /\ Azure!Verdict("protection-exists") = Fail =>
           \A c \in Azure!Answers : ~Azure!Wanted(w, v.branch, Azure!Subject[c])
  <2>1. Azure!Verdict("protection-exists") = Azure!ProtectionExists
    BY DEF Azure!Verdict
  <2> QED
    BY <2>1, <1>3, <1>6 DEF Azure!ProtectionExists, Azure!PassIf, Azure!Wanted, Azure!Asks, Azure!Answers
<1>9. Azure!VerifiedIsTrue'
  <2>1. \A c \in Azure!Answers :
          /\ Azure!Is(c, Azure!Pass)' => \E x, y \in seen : Azure!Stops(y, x.branch, Azure!Subject[c])
          /\ Azure!Is(c, Azure!Partial)' => \E x, y \in seen : Azure!Wanted(y, x.branch, Azure!Subject[c])
          /\ Quiet /\ Azure!Is(c, Azure!Partial)' => ~Azure!Stops(world, world.branch, Azure!Subject[c])
          /\ Quiet /\ Azure!Is(c, Azure!Fail)' => ~Azure!Wanted(world, world.branch, Azure!Subject[c])
    BY <1>4, <1>5, <1>6, <1>7
  <2>2. /\ Azure!Is("protection-exists", Azure!Pass)' =>
             \E x, y \in seen : \E p \in y.policies : Azure!Covers(p, x.branch)
        /\ Quiet /\ Azure!Is("protection-exists", Azure!Fail)' =>
             \A c \in Azure!Answers : ~Azure!Wanted(world, world.branch, Azure!Subject[c])
    BY <1>4, <1>5, <1>6, <1>8
  <2> QED
    BY <2>1, <2>2, <1>1 DEF Azure!VerifiedIsTrue, Quiet, Azure!Quiet
<1>10. \A c \in Azure!Check : Azure!Verdict(c) \in {Pass, Fail, Partial, NotCheckable}
  <2> SUFFICES ASSUME NEW c \in Azure!Check
               PROVE  Azure!Verdict(c) \in {Pass, Fail, Partial, NotCheckable}
    OBVIOUS
  <2>1. CASE c \in Azure!Answers \cup {"protection-exists"}
    BY <2>1, <1>7, <1>8
  <2>2. CASE c \notin Azure!Answers \cup {"protection-exists"}
    BY <2>2 DEF Azure!Verdict, Azure!Answers
  <2> QED
    BY <2>1, <2>2
<1>11. Azure!FailuresStayLocal'
  <2>1. \A c \in Azure!PolicyDriven : c \in Azure!Check /\ Azure!Verdict(c) # NotCheckable
    BY <1>6, <1>7, <1>8 DEF Azure!PolicyDriven, Azure!Answers
  <2> QED
    BY <2>1, <1>5 DEF Azure!FailuresStayLocal
<1> QED
  BY <1>1, <1>9, <1>10, <1>11

LEMMA AzureInit == Azure!Init => AzureInv
BY DEF Azure!Init, Azure!InitWith, AzureInv, Azure!TypeOK, Azure!Typed, AzureHeard, Outcomes,
   Azure!Call, Azure!VerifiedIsTrue, Azure!FailuresStayLocal, Azure!Is

LEMMA AzureReads ==
  ASSUME AzureInv, NEW c \in Azure!Call, NEW answer, Azure!Get(c, answer),
         c = "repositories" => answer = world.branch,
         c = "policies" => answer = world.policies
  PROVE  AzureInv'
<1>1. PICK a \in {answer, Failed} : heard' = [heard EXCEPT ![c] = a]
  BY DEF Azure!Get
<1>2. heard[c] = Unasked /\ status = Undecided /\ UNCHANGED <<world, status, seen>>
  BY DEF Azure!Get
<1>3. Azure!TypeOK'
  BY <1>1, <1>2 DEF AzureInv, Azure!TypeOK, Azure!Typed
<1>4. AzureHeard'
  BY <1>1, <1>2 DEF AzureInv, AzureHeard, Outcomes, Azure!TypeOK, Azure!Typed, Azure!Call
<1> QED
  BY <1>2, <1>3, <1>4 DEF AzureInv, Azure!VerifiedIsTrue, Azure!FailuresStayLocal, Azure!Is

LEMMA AzureNext == AzureInv /\ [Azure!Next]_vars => AzureInv'
<1> SUFFICES ASSUME AzureInv, [Azure!Next]_vars PROVE AzureInv'
  OBVIOUS
<1>1. CASE Azure!ReadRepositories
  BY <1>1, AzureReads DEF Azure!ReadRepositories, Azure!Call
<1>2. CASE Azure!ReadPolicies
  BY <1>2, AzureReads DEF Azure!ReadPolicies, Azure!Call
<1>3. CASE Azure!GiveUp
  <2>1. status' = [c \in Azure!Check |-> Azure!NotCheckable] /\ UNCHANGED <<world, heard, seen>>
    BY <1>3 DEF Azure!GiveUp, Azure!Emit, Azure!AllNotCheckable
  <2>2. /\ Azure!Answers \cup {"protection-exists"} \subseteq Azure!Check
        /\ \A c \in Azure!Check : \A s : Azure!Is(c, s)' => s = Azure!NotCheckable
    BY <2>1 DEF Azure!Is, Azure!Check, Azure!Answers
  <2>3. Azure!TypeOK' /\ AzureHeard'
    BY <2>1 DEF AzureInv, Azure!TypeOK, Azure!Typed, AzureHeard
  <2>4. Azure!VerifiedIsTrue'
    BY <2>2 DEF Azure!VerifiedIsTrue, Azure!Pass, Azure!Fail, Azure!Partial, Azure!NotCheckable
  <2>5. Azure!FailuresStayLocal'
    BY <2>1, <1>3 DEF Azure!GiveUp, Azure!FailuresStayLocal
  <2> QED
    BY <2>3, <2>4, <2>5 DEF AzureInv
<1>4. CASE Azure!Decide
  <2>1. UNCHANGED <<world, heard, seen>>
    BY <1>4 DEF Azure!Decide, Azure!Emit
  <2>2. Azure!TypeOK' /\ AzureHeard'
    BY <2>1, <1>4, AzureDecide DEF AzureInv, Azure!TypeOK, Azure!Typed, AzureHeard,
       Pass, Fail, Partial, NotCheckable, Azure!Pass, Azure!Fail, Azure!Partial, Azure!NotCheckable
  <2> QED
    BY <2>2, <1>4, AzureDecide DEF AzureInv
<1>5. CASE Azure!Edit
  <2>1. PICK w : /\ w \in {[world EXCEPT !.branch = b] : b \in Branch}
                           \cup {[world EXCEPT !.policies = @ \cup {p}] : p \in Policy}
                           \cup {[world EXCEPT !.policies = @ \ {p}] : p \in Policy}
                 /\ world' = w /\ seen' = seen \cup {w}
    BY <1>5 DEF Azure!Edit, Azure!Change
  <2>2. status = Undecided /\ UNCHANGED <<heard, status>>
    BY <1>5 DEF Azure!Edit, Azure!Change
  <2>3. w \in Azure!World
    BY <2>1 DEF AzureInv, Azure!TypeOK, Azure!Typed, Azure!World
  <2>4. Azure!TypeOK' /\ AzureHeard'
    BY <2>1, <2>2, <2>3 DEF AzureInv, Azure!TypeOK, Azure!Typed, AzureHeard, Outcomes
  <2> QED
    BY <2>2, <2>4 DEF AzureInv, Azure!VerifiedIsTrue, Azure!FailuresStayLocal, Azure!Is
<1>6. CASE UNCHANGED vars
  BY <1>6 DEF vars, AzureInv, Azure!TypeOK, Azure!Typed, AzureHeard, Azure!VerifiedIsTrue,
     Azure!FailuresStayLocal, Azure!Is, Azure!Quiet
<1> QED
  BY <1>1, <1>2, <1>3, <1>4, <1>5, <1>6 DEF Azure!Next
-----------------------------------------------------------------------------
GitLabHeard ==
  /\ heard["project"] \in
       Outcomes({[branch |-> w.branch, pipelines |-> w.pipelines] : w \in seen})
  /\ heard["protected_branches"] \in Outcomes({w.rules : w \in seen})
  /\ Got("protected_branches") => Got("project")

GitLabInv ==
  /\ GitLab!TypeOK
  /\ GitLabHeard
  /\ GitLab!VerifiedIsTrue
  /\ GitLab!FailuresStayLocal

\* The one check that rests on the project alone, whatever else was answered.
LEMMA GitLabStatusChecks ==
  ASSUME GitLab!TypeOK, GitLabHeard, Got("project")
  PROVE  /\ GitLab!RequiredStatusChecks \in {Pass, Partial, Fail}
         /\ GitLab!RequiredStatusChecks = Pass => \E w \in seen : w.pipelines = "required"
         /\ GitLab!RequiredStatusChecks = Fail => \E w \in seen : w.pipelines = "optional"
<1> USE DEF Pass, Fail, Partial, GitLab!Pass, GitLab!Fail, GitLab!Partial
<1>1. PICK w \in seen : heard["project"] = [branch |-> w.branch, pipelines |-> w.pipelines]
  BY DEF GitLabHeard, Outcomes, Got
<1>2. w.pipelines \in {"optional", "skippable", "required"}
  BY DEF GitLab!TypeOK, GitLab!Typed, GitLab!World
<1> QED
  BY <1>1, <1>2 DEF GitLab!RequiredStatusChecks

LEMMA GitLabDecide ==
  ASSUME GitLab!TypeOK, GitLabHeard, GitLab!Decide
  PROVE  /\ GitLab!VerifiedIsTrue'
         /\ GitLab!FailuresStayLocal'
         /\ status' \in [GitLab!Check -> {Pass, Fail, Partial, NotCheckable}]
<1> USE DEF Pass, Fail, Partial, NotCheckable,
            GitLab!Pass, GitLab!Fail, GitLab!Partial, GitLab!NotCheckable
<1>1. /\ status' = [c \in GitLab!Check |-> GitLab!Verdict(c)]
      /\ UNCHANGED <<world, heard, seen>>
      /\ Got("protected_branches") /\ Got("project")
  BY DEF GitLab!Decide, GitLab!Emit, GitLab!Got, Got, GitLabHeard
<1>2. PICK v \in seen, w \in seen :
        heard["project"].branch = v.branch /\ heard["protected_branches"] = w.rules
  BY <1>1 DEF GitLabHeard, Outcomes, Got
<1>3. GitLab!Matched = GitLab!On(w, v.branch)
  BY <1>2 DEF GitLab!Matched, GitLab!On
<1>4. \A r \in GitLab!Matched : r.allowForcePush \in BOOLEAN
  BY <1>3, GitLabAssumption DEF GitLab!On, GitLab!TypeOK, GitLab!Typed, GitLab!World, GitLab!Rules
<1>5. /\ GitLab!Verdict("protection-exists") = GitLab!ProtectionExists
      /\ GitLab!Verdict("required-reviews") = GitLab!RequiredReviews
      /\ GitLab!Verdict("required-status-checks") = GitLab!RequiredStatusChecks
      /\ GitLab!Verdict("force-push-blocked") = GitLab!ForcePush
      /\ GitLab!Verdict("deletion-blocked") = GitLab!DeletionBlocked
      /\ GitLab!Verdict("admin-enforced") = NotCheckable
  BY DEF GitLab!Verdict
<1>6. /\ GitLab!ProtectionExists \in {Pass, Fail}
      /\ GitLab!ProtectionExists = Pass <=> GitLab!On(w, v.branch) # {}
      /\ GitLab!ForcePush \in {Pass, Fail}
      /\ GitLab!ForcePush = Pass <=> GitLab!ForcePushStopped(w, v.branch)
      /\ GitLab!DeletionBlocked \in {Fail, Partial}
      /\ GitLab!DeletionBlocked = Fail <=> GitLab!On(w, v.branch) = {}
      /\ GitLab!RequiredReviews \in {Partial, NotCheckable}
  BY <1>3, <1>4 DEF GitLab!ProtectionExists, GitLab!ForcePush, GitLab!DeletionBlocked, GitLab!RequiredReviews,
     GitLab!PassIf, GitLab!MergeMatchingRules, GitLab!ForcePushStopped
<1>7. \A c \in GitLab!Check : \A s : GitLab!Is(c, s)' => GitLab!Verdict(c) = s
  BY <1>1 DEF GitLab!Is
<1>8. GitLab!Check = {"protection-exists", "required-reviews", "required-status-checks",
                      "force-push-blocked", "deletion-blocked", "admin-enforced"}
  BY DEF GitLab!Check
<1>9. GitLab!VerifiedIsTrue'
  <2>1. /\ GitLab!Is("protection-exists", Pass)' => \E x, y \in seen : GitLab!On(y, x.branch) # {}
        /\ GitLab!Is("force-push-blocked", Pass)' => \E x, y \in seen : GitLab!ForcePushStopped(y, x.branch)
        /\ GitLab!Is("force-push-blocked", Fail)' => \E x, y \in seen : ~GitLab!ForcePushStopped(y, x.branch)
    BY <1>5, <1>6, <1>7, <1>8
  <2>2. \A c \in {"protection-exists", "deletion-blocked"} :
          GitLab!Is(c, Fail)' => \E x, y \in seen : GitLab!On(y, x.branch) = {}
    BY <1>5, <1>6, <1>7, <1>8
  <2>3. /\ GitLab!Is("required-status-checks", Pass)' => \E y \in seen : y.pipelines = "required"
        /\ GitLab!Is("required-status-checks", Fail)' => \E y \in seen : y.pipelines = "optional"
    BY <1>1, <1>5, <1>7, <1>8, GitLabStatusChecks
  <2>4. /\ \A c \in {"deletion-blocked", "required-reviews", "admin-enforced"} : ~GitLab!Is(c, Pass)'
        /\ ~GitLab!Is("required-reviews", Fail)'
    BY <1>5, <1>6, <1>7, <1>8
  <2> QED
    BY <2>1, <2>2, <2>3, <2>4, <1>1 DEF GitLab!VerifiedIsTrue
<1>10. \A c \in GitLab!Check : GitLab!Verdict(c) \in {Pass, Fail, Partial, NotCheckable}
  BY <1>1, <1>5, <1>6, <1>8, GitLabStatusChecks
<1>11. GitLab!FailuresStayLocal'
  <2>1. ~GitLab!Is("required-status-checks", NotCheckable)'
    BY <1>1, <1>5, <1>7, <1>8, GitLabStatusChecks
  <2>2. \A c \in {"protection-exists", "force-push-blocked", "deletion-blocked"} : ~GitLab!Is(c, NotCheckable)'
    BY <1>5, <1>6, <1>7, <1>8
  <2> QED
    BY <2>1, <2>2 DEF GitLab!FailuresStayLocal
<1> QED
  BY <1>1, <1>9, <1>10, <1>11

LEMMA GitLabInit == GitLab!Init => GitLabInv
BY DEF GitLab!Init, GitLab!InitWith, GitLabInv, GitLab!TypeOK, GitLab!Typed, GitLabHeard, Outcomes, Got,
   GitLab!Call, GitLab!VerifiedIsTrue, GitLab!FailuresStayLocal, GitLab!Is

LEMMA GitLabReads ==
  ASSUME GitLabInv, NEW c \in GitLab!Call, NEW answer, GitLab!Get(c, answer),
         c = "project" => answer = [branch |-> world.branch, pipelines |-> world.pipelines],
         c = "protected_branches" => answer = world.rules /\ Got("project")
  PROVE  GitLabInv'
<1>1. PICK a \in {answer, Failed} : heard' = [heard EXCEPT ![c] = a]
  BY DEF GitLab!Get
<1>2. heard[c] = Unasked /\ status = Undecided /\ UNCHANGED <<world, status, seen>>
  BY DEF GitLab!Get
<1>3. GitLab!TypeOK'
  BY <1>1, <1>2 DEF GitLabInv, GitLab!TypeOK, GitLab!Typed
<1>4. GitLabHeard'
  BY <1>1, <1>2 DEF GitLabInv, GitLabHeard, Outcomes, Got, GitLab!TypeOK, GitLab!Typed, GitLab!Call
<1> QED
  BY <1>2, <1>3, <1>4 DEF GitLabInv, GitLab!VerifiedIsTrue, GitLab!FailuresStayLocal, GitLab!Is

LEMMA GitLabNext == GitLabInv /\ [GitLab!Next]_vars => GitLabInv'
<1> SUFFICES ASSUME GitLabInv, [GitLab!Next]_vars PROVE GitLabInv'
  OBVIOUS
<1> USE DEF Pass, Fail, Partial, NotCheckable,
            GitLab!Pass, GitLab!Fail, GitLab!Partial, GitLab!NotCheckable
<1>1. CASE GitLab!ReadProject
  BY <1>1, GitLabReads DEF GitLab!ReadProject, GitLab!Call
<1>2. CASE GitLab!ReadProtectedBranches
  BY <1>2, GitLabReads DEF GitLab!ReadProtectedBranches, GitLab!Call, GitLab!Got, Got
<1>3. CASE GitLab!ReadApprovals
  BY <1>3, GitLabReads DEF GitLab!ReadApprovals, GitLab!Call
<1>4. CASE GitLab!NoProject
  <2>1. status' = [c \in GitLab!Check |-> NotCheckable] /\ UNCHANGED <<world, heard, seen>>
    BY <1>4 DEF GitLab!NoProject, GitLab!Emit, GitLab!AllNotCheckable
  <2>2. \A c \in GitLab!Check : \A s : GitLab!Is(c, s)' => s = NotCheckable
    BY <2>1 DEF GitLab!Is
  <2>3. GitLab!TypeOK' /\ GitLabHeard'
    BY <2>1 DEF GitLabInv, GitLab!TypeOK, GitLab!Typed, GitLabHeard, Got
  <2>4. GitLab!VerifiedIsTrue'
    BY <2>2 DEF GitLab!VerifiedIsTrue, GitLab!Check
  <2>5. GitLab!FailuresStayLocal'
    BY <2>1, <1>4 DEF GitLab!NoProject, GitLab!FailuresStayLocal
  <2> QED
    BY <2>3, <2>4, <2>5 DEF GitLabInv
<1>5. CASE GitLab!ResultsWithoutBranchData
  <2>1. /\ Got("project") /\ UNCHANGED <<world, heard, seen>>
        /\ heard["project"].branch = NoBranch \/ heard["protected_branches"] = Failed
        /\ status' = [GitLab!AllNotCheckable EXCEPT !["required-status-checks"] = GitLab!RequiredStatusChecks]
    BY <1>5 DEF GitLab!ResultsWithoutBranchData, GitLab!Emit, GitLab!Got, Got
  <2>2. /\ GitLab!RequiredStatusChecks \in {Pass, Partial, Fail}
        /\ GitLab!RequiredStatusChecks = Pass => \E w \in seen : w.pipelines = "required"
        /\ GitLab!RequiredStatusChecks = Fail => \E w \in seen : w.pipelines = "optional"
    BY <2>1, GitLabStatusChecks DEF GitLabInv
  <2>3. /\ GitLab!Is("required-status-checks", Pass)' => GitLab!RequiredStatusChecks = Pass
        /\ GitLab!Is("required-status-checks", Fail)' => GitLab!RequiredStatusChecks = Fail
        /\ GitLab!Is("required-status-checks", NotCheckable)' => GitLab!RequiredStatusChecks = NotCheckable
        /\ \A c \in GitLab!Check \ {"required-status-checks"} :
              ~GitLab!Is(c, Pass)' /\ ~GitLab!Is(c, Fail)' /\ ~GitLab!Is(c, Partial)'
    BY <2>1 DEF GitLab!Is, GitLab!AllNotCheckable, GitLab!Check
  <2>4. GitLab!TypeOK' /\ GitLabHeard'
    BY <2>1, <2>2 DEF GitLabInv, GitLab!TypeOK, GitLab!Typed, GitLabHeard, Got, GitLab!AllNotCheckable
  <2>5. GitLab!VerifiedIsTrue'
    BY <2>1, <2>2, <2>3 DEF GitLab!VerifiedIsTrue, GitLab!Check
  <2>6. GitLab!FailuresStayLocal'
    BY <2>1, <2>2, <2>3 DEF GitLab!FailuresStayLocal
  <2> QED
    BY <2>4, <2>5, <2>6 DEF GitLabInv
<1>6. CASE GitLab!Decide
  <2>1. UNCHANGED <<world, heard, seen>>
    BY <1>6 DEF GitLab!Decide, GitLab!Emit
  <2>2. GitLab!TypeOK' /\ GitLabHeard'
    BY <2>1, <1>6, GitLabDecide DEF GitLabInv, GitLab!TypeOK, GitLab!Typed, GitLabHeard, Got
  <2> QED
    BY <2>2, <1>6, GitLabDecide DEF GitLabInv
<1>7. CASE GitLab!Edit
  <2>1. PICK w : /\ w \in {[world EXCEPT !.branch = b] : b \in Branch}
                           \cup {[world EXCEPT !.rules = @ \cup {r}] : r \in Rule}
                           \cup {[world EXCEPT !.rules = @ \ {r}] : r \in Rule}
                           \cup {[world EXCEPT !.pipelines = p] : p \in {"optional", "skippable", "required"}}
                 /\ world' = w /\ seen' = seen \cup {w}
    BY <1>7 DEF GitLab!Edit, GitLab!Change
  <2>2. status = Undecided /\ UNCHANGED <<heard, status>>
    BY <1>7 DEF GitLab!Edit, GitLab!Change
  <2>3. w \in GitLab!World
    BY <2>1 DEF GitLabInv, GitLab!TypeOK, GitLab!Typed, GitLab!World
  <2>4. GitLab!TypeOK' /\ GitLabHeard'
    BY <2>1, <2>2, <2>3 DEF GitLabInv, GitLab!TypeOK, GitLab!Typed, GitLabHeard, Outcomes, Got
  <2> QED
    BY <2>2, <2>4 DEF GitLabInv, GitLab!VerifiedIsTrue, GitLab!FailuresStayLocal, GitLab!Is
<1>8. CASE UNCHANGED vars
  BY <1>8 DEF vars, GitLabInv, GitLab!TypeOK, GitLab!Typed, GitLabHeard, Got, GitLab!VerifiedIsTrue,
     GitLab!FailuresStayLocal, GitLab!Is
<1> QED
  BY <1>1, <1>2, <1>3, <1>4, <1>5, <1>6, <1>7, <1>8 DEF GitLab!Next
-----------------------------------------------------------------------------
GogsInv == Gogs!TypeOK /\ Gogs!VerifiedIsTrue

LEMMA GogsInit == Gogs!Init => GogsInv
BY DEF Gogs!Init, Gogs!InitWith, GogsInv, Gogs!TypeOK, Gogs!Typed, Gogs!VerifiedIsTrue, Gogs!Is

LEMMA GogsNext == GogsInv /\ [Gogs!Next]_vars => GogsInv'
<1> SUFFICES ASSUME GogsInv, [Gogs!Next]_vars PROVE GogsInv'
  OBVIOUS
<1>1. ASSUME NEW c \in Gogs!Call, NEW answer, Gogs!Get(c, answer)
      PROVE  GogsInv'
  BY <1>1 DEF Gogs!Get, GogsInv, Gogs!TypeOK, Gogs!Typed, Gogs!VerifiedIsTrue, Gogs!Is
<1>2. ASSUME Gogs!Emit(Gogs!AllNotCheckable)
      PROVE  GogsInv'
  BY <1>2 DEF Gogs!Emit, Gogs!AllNotCheckable, GogsInv, Gogs!TypeOK, Gogs!Typed, Gogs!VerifiedIsTrue, Gogs!Is,
     Gogs!Pass, Gogs!Fail, Gogs!Partial, Gogs!NotCheckable
<1>3. CASE Gogs!Edit
  <2>1. PICK w : /\ w \in {[world EXCEPT !.protected = ~@], [world EXCEPT !.empty = FALSE]}
                 /\ world' = w /\ seen' = seen \cup {w}
    BY <1>3 DEF Gogs!Edit, Gogs!Change
  <2>2. status = Undecided /\ UNCHANGED <<heard, status>>
    BY <1>3 DEF Gogs!Edit, Gogs!Change
  <2>3. w \in Gogs!World
    BY <2>1 DEF GogsInv, Gogs!TypeOK, Gogs!Typed, Gogs!World
  <2> QED
    BY <2>1, <2>2, <2>3 DEF GogsInv, Gogs!TypeOK, Gogs!Typed, Gogs!VerifiedIsTrue, Gogs!Is
<1>4. CASE UNCHANGED vars
  BY <1>4 DEF vars, GogsInv, Gogs!TypeOK, Gogs!Typed, Gogs!VerifiedIsTrue, Gogs!Is
<1> QED
  BY <1>1, <1>2, <1>3, <1>4 DEF Gogs!Next, Gogs!FetchRepo, Gogs!FetchBranches, Gogs!FetchCollaborators,
     Gogs!PlatformLimitation, Gogs!GiveUp, Gogs!Call
-----------------------------------------------------------------------------
Inv ==
  \/ collector = "github/repoprotection" /\ GitHubInv
  \/ collector = "azuredevops/repoprotection" /\ AzureInv
  \/ collector = "gitlab/repoprotection" /\ GitLabInv
  \/ collector = "gogs/repoprotection" /\ GogsInv
  \/ collector = "github/sasthistory" /\ GitHubC05Inv
  \/ collector = "azuredevops/sasthistory" /\ AzureC05Inv
  \/ collector = "gitlab/sasthistory" /\ GitLabC05Inv

LEMMA Honest == Inv => TypeOK /\ VerifiedIsTrue /\ FailuresStayLocal /\ PanelsAgree
<1> SUFFICES ASSUME Inv PROVE TypeOK /\ VerifiedIsTrue /\ FailuresStayLocal /\ PanelsAgree
  OBVIOUS
<1>1. TypeOK
  BY DEF Inv, TypeOK, GitHubInv, AzureInv, GitLabInv, GogsInv, GitHubC05Inv, AzureC05Inv, GitLabC05Inv
<1>2. VerifiedIsTrue
  BY DEF Inv, VerifiedIsTrue, GitHubInv, AzureInv, GitLabInv, GogsInv, GitHubC05Inv, AzureC05Inv,
     GitLabC05Inv, GitHubC05Honest, AzureC05Honest, GitLabC05Honest
<1>3. FailuresStayLocal
  BY DEF Inv, FailuresStayLocal, GitHubInv, AzureInv, GitLabInv, GitHubC05Inv, AzureC05Inv,
     GitLabC05Inv, GitHubC05Honest, AzureC05Honest, GitLabC05Honest
<1>4. PanelsAgree
  BY DEF Inv, PanelsAgree, GitHubC05Inv, AzureC05Inv, GitLabC05Inv, GitHubC05Honest, AzureC05Honest,
     GitLabC05Honest
<1> QED
  BY <1>1, <1>2, <1>3, <1>4

LEMMA Inductive == Spec => []Inv
<1>1. Init => Inv
  BY GitHubInit, AzureInit, GitLabInit, GogsInit, GitHubC05Init, AzureC05Init, GitLabC05Init DEF Init, Inv
<1>2. Inv /\ [Next]_<<vars, collector>> => Inv'
  <2> SUFFICES ASSUME Inv, [Next]_<<vars, collector>> PROVE Inv'
    OBVIOUS
  <2>1. UNCHANGED collector
    BY DEF Next
  <2>2. /\ collector = "github/repoprotection" => [GitHub!Next]_vars
        /\ collector = "azuredevops/repoprotection" => [Azure!Next]_vars
        /\ collector = "gitlab/repoprotection" => [GitLab!Next]_vars
        /\ collector = "gogs/repoprotection" => [Gogs!Next]_vars
        /\ collector = "github/sasthistory" => [GitHubC05!Next]_vars
        /\ collector = "azuredevops/sasthistory" => [AzureC05!Next]_vars
        /\ collector = "gitlab/sasthistory" => [GitLabC05!Next]_vars
    BY DEF Next
  <2> QED
    BY <2>1, <2>2, GitHubNext, AzureNext, GitLabNext, GogsNext, GitHubC05Next, AzureC05Next, GitLabC05Next
    DEF Inv
<1> QED
  BY <1>1, <1>2, PTL DEF Spec

(***************************************************************************)
(* All statuses together or none, and the settings are among those that    *)
(* were seen.                                                              *)
(***************************************************************************)
THEOREM TypeCorrect == Spec => []TypeOK
BY Inductive, Honest, PTL

(***************************************************************************)
(* No collector of branch protection or of scanner history claims what was *)
(* not so, whatever the settings, the past, the failures and the changes   *)
(* in between.                                                             *)
(***************************************************************************)
THEOREM StatusesAreHonest == Spec => []VerifiedIsTrue
BY Inductive, Honest, PTL

(***************************************************************************)
(* No check is given up for a failure of a call it does not need.          *)
(***************************************************************************)
THEOREM OnlyWhatFailedIsLost == Spec => []FailuresStayLocal
BY Inductive, Honest, PTL

(***************************************************************************)
(* The four checks of scanner history never contradict one another about   *)
(* one repository, whichever of their calls failed.                        *)
(***************************************************************************)
THEOREM NoPanelContradictsAnother == Spec => []PanelsAgree
BY Inductive, Honest, PTL
=============================================================================
