# attestward: models, checks and proofs

`attestward` scans the engineering estate of one organisation (GitHub, Azure
DevOps, GitLab or Gogs), turns what the platform's API says into check results,
rolls them up to the tasks of NIST SP 800-218, and writes an *evidence pack*
that is hashed, optionally signed, and later verified, reported on and diffed.
The value of a pack is that it never claims more than was observed. The models
here are about the places where it could: concurrency, cancellation, partial
failure, retries, and files replaced one at a time.

## 1. Inventory of the system

| part | state | operations | interacts with |
|---|---|---|---|
| scan configuration (`cmd/attestward/scanconfig.go`, `scan.go`, `internal/collect/github/hostconfig.go`) | none; a file, flags and the environment | merge, validate, choose the host and the token | the preflight call and the listing |
| repository resolution (`cmd/attestward/scanrepos*.go`) | none | list page by page, filter, name | the platform's API, then orchestration |
| scan orchestration (`cmd/attestward/scan.go`: `runScan`, `runCollectors`) | context, semaphore, WaitGroup, one outcome slot per collector, the result rows | fan out, join, cancellation check, assemble | calls every collector in its own goroutine |
| repository pool (`internal/collect/github/pool.go`: `ForEachRepo`) | same shape, one slot per repository | fan out, join | called inside a collector's goroutine, same context |
| collectors (`internal/collect/<platform>/<name>`) | none kept between scans; a per-call cache in some | `Collect(ctx, scope)`: API calls, decisions, one result per check and repository | transports |
| transports (`internal/collect/<platform>/{client,transport,ratelimit,retry}.go`) | one provenance log and one pending delay (Azure DevOps) per client; a collector makes a client per repository, so no two goroutines share one | send, retry, back off, paginate, record | the platform's API |
| registries (`internal/collect/registry.go`) | maps filled by `init` | register, look up | collectors, reports |
| mappings and rollup (`internal/mapping`) | none (embedded YAML) | load, cross-check, roll up results by precedence | results, answers file |
| pack files (`cmd/attestward/scan.go`, `internal/integrity`) | `evidence.json`, its SHA-256 sidecar, its signature bundle | write atomically, write sidecar, sign, verify | `verify`, `report`, `diff` |
| comparison (`internal/packdiff`, `cmd/attestward/diff.go`) | none | index, classify, exit code | two packs |
| report (`internal/report`, `cmd/attestward/report.go`) | none | verify, number the findings, render report.md, report.html and poam.md | one pack, the mapping files of the build that renders |

Hard behaviours: two levels of goroutine pools under one cancellable context;
a select with several ready cases; results that may be partial because calls
failed; retry loops stacked on one another, with a log kept below them; three files of one pack replaced one after the
other, without a lock, by processes that may crash or overlap; readers that
read a file twice; a listing cut into numbered pages of an account that people
go on working in; decisions merged from several API answers, any of which may
be missing, about settings somebody may be changing meanwhile; and documents
rendered by another build than the one that scanned.

What makes each part correct, and where it is checked:

| part | it is correct when | module |
|---|---|---|
| orchestration, repository pool | the limit holds; nothing is lost or left running at the join; at most one function starts after a cancellation; no pack holds a trace of a cancellation; every scan ends | `FanOut`, `WorkerPools`, `ScanRun` |
| transports | requests per call are bounded; only transient answers are asked for again; a result's provenance accounts for every answer its collector was handed; a cancelled call ends | `ApiCalls` |
| rollup | status of a task or cluster follows from the raw results of its checks, in whatever order they come; a further result never makes anything cleaner; the exit code and the rollup agree; no invalid status is written | `EvidenceRollup` |
| pack files | no half-written evidence is ever read; OK is said of genuine bytes only; a scan that runs undisturbed replaces evidence and hash, and with `--sign` the signature, whatever it found; report and diff use what was verified | `PackFiles` |
| comparison | every change is in exactly one list; the two directions mirror; along a chain of releases no decline goes unlisted, as long as a baseline is found; the baseline is the newest uploaded pack | `PackDiff` |
| collectors | a verified-pass is true, a verified-fail is an observed violation, a failed call verifies nothing and costs no check that does without it | `Collectors` for branch protection (C02) and SAST history (C05) |
| collectors of the other themes (C01, C03, C04, C06 to C10) | every status is one that the rubric published with its check allows under the settings there were, whichever calls failed, or one of a few departures that are named | `Surveys` |
| run histories (`runhistory`, `pipelinehistory`, `cihistory` and the SAST collectors over them) | "ran for every release" is true of every release looked at; an absence is claimed only of what was seen whole; the four checks do not contradict one another | `GitHubSast`, `AzureSast`, `GitLabSast` |
| scan configuration | only what was chosen counts: a flag hides what the file says, another platform's environment has no effect | `ScanCommand` |
| repository resolution | a repository is missed only if another was deleted during the listing, repeated only if one was created; a broken listing is no scan, never a shorter one | `ScanCommand` |
| report | what the documents show adds up to what they say, agrees with the roll-up unless a banner names the changed file, and the two documents number a finding alike | `Report` |

## 2. How the models correspond to the code

Every definition that stands for code is in the `map` of `PROJECT.json` with
the file, the lines and the symbol it translates. In every module a
definition whose name extends another's (`ExitTwice`, `JoinWithoutWait`), under
a comment "A mutant of ...", is a plausible bug: it is used by no other
definition, and substituted for the original it makes a property fail.

**`FanOut`** states what the two pools promise: every item is decided exactly
once, by a result of its function or as skipped, nothing is skipped before the
cancellation, and the pool is closed when all are decided. **`WorkerPools`** is
`runCollectors` (`cmd/attestward/scan.go`) and `ForEachRepo`
(`internal/collect/github/pool.go`), the same algorithm twice, as a family of
pools under one context. `pc[p]` is the launcher (in the loop at `check`, at
the `select`, parked there, in `wg.Wait`, done), `worker[p][i]` a goroutine
(function running, result stored, place released, exited), `sem` the number of
tokens in the channel, `wg` the counter. A `select` with both cases ready may
take either; a receive from the full channel hands its place to the parked
launcher, as the runtime does (`ReleaseHandover`); `Cancel` wakes every parked
launcher. `ImplementsFanOut` is the refinement to `FanOut`. **`ScanRun`**
extends it with `runScan`: preflight, the pool of collectors, in whose workers
the fanning-out GitHub collectors open pools of their own, the one look at the
context after the join, and the rows of the pack. `soiled` is history: calls
whose function returned with the context done. **`ScanCommand`** extends that
with what `runScanCmd` does before: `Configure` merges the file, the flags and
the environment (`Settings`, `Valid`, `Host`); `CheckAccount` is the preflight
call of GitHub; `StartListing`, one action per page and platform (`GitHubPage`,
`GitLabPage`, `GogsList`), `NameProjects` and `Filter` are `resolveRepos`. A
listing is a sequence that the server cuts into pages by number when it is asked,
so that a repository created or deleted between two requests (`Move`) shifts the
rest; a GitLab server may announce a page it has already sent, a Gogs server may
page although it is asked not to (`Lies`). `HandOver` gives the scope to the
collectors and forgets the rest, so that the pools run once, not once for each
set of settings. The repositories under the pools are those of the instance:
their number is a constant there.

**`ApiCalls`** is the `http.RoundTripper` chain of each platform: what is
retried (`Transient`, `Retry`, `ResendLimited` for GitLab's two layers), where
a wait can be interrupted (`Pause`), where a response is logged (`Recorded`),
what the caller is handed, the pending delay of Azure DevOps, and the copy of
`Provenance()` into the results. A goroutine (`Thread`) works through `units`
(a repository under one collector), each with a client of its own.

**`PackFiles`** has one action per system call that a scan makes on
`evidence.json`, its sidecar and its bundle (create temp, write, rename,
truncate sidecar, write sidecar, sign, write bundle), a crash and an error at
each, hand edits, and readers (`verify`, `report`, `report --force`, `diff`)
with one action per file they open. Contents are named by who produced them:
a scan, `Edited`, `Torn`. cosign is external: a bundle is the bytes it signs.
`signs` is chosen by every scan that starts; `found` is history: the bundle and
the temp files that were there when a scan started with nobody else about. What
such a scan leaves is `UndisturbedScanReplaces`: its own evidence and hash, and
with `--sign` its own signature. It does not repair everything: without `--sign`
the bundle it found stays, and then `verify` can call the pack tampered; the temp
files of scans killed earlier stay in any case.

**`EvidenceRollup`** goes from the collector outcomes to the pack: `Collected`
and `CollectorFailed` flatten them, `Attest` appends the self-attested results
and sorts, `ReduceNext` is one turn of BuildRollup's loop over the results,
`BuildRollup` the two loops above it, then the exit code, the schema check and
the write. Statuses are the five of `internal/model` plus what else a collector
might leave in the field (`Emitted`). **`Report`** extends it with the documents
made of a written pack. A document is a function of the pack and of the build that
renders it, so its variable is the build: which of the four mapping files have
changed since the scan. `Findings` and `PoamID` are how gaps are ordered and
numbered, `GapTable` and `ClusterView` what report.md shows, `Groups` and
`ClusterSummary` what poam.md does, `MappingVersionMismatch` the banner.

**`PackDiff`** is `Compare` with its refusals and seven lists over packs that
are functions from keys to statuses, and the pipeline that scans, fetches the
baseline, diffs and attaches the new pack release after release. The baseline is
looked for among the newest `Window` releases only (50 in
`hack/fetch-drift-baseline.sh`); `since` counts the releases without a pack after
the one that has the baseline. When it is not found among them (`BaselineFound`),
`SkipDiff` passes over the comparison, the job is green, and the chain of
comparisons begins anew with the pack then attached: `NoSilentDecline` speaks of
one such chain, and says nothing of what declined across the gap.

**The collectors.** `Observation` is what they have in common: read-only calls,
each answered truthfully or `Failed`, an administrator who may change the
settings between two calls (`Change`), and one `Emit` of all the statuses.
`BranchChecks` names the six checks of C02.repo-protection.
**`GitHubProtection`**, **`AzureProtection`**, **`GitLabProtection`** and
**`GogsProtection`** each give the settings of a repository (`World`), the calls
in the order of the code with the early returns (`Read...`, `GiveUp`), and the
decisions as operators named for the functions that take them. At the end each
says, independently of the code, what the platform lets happen under given
settings (`Stops`, `Covers`, `On`): the statuses are held against that.
**`RunHistory`** is what the scanner-history collectors (C05) share: which
releases are looked at (`Selections`; equal dates come in any order, as
`sort.Slice` leaves them), which runs count for a release (`Covering`: its own
commit, or the default branch in the window it ends), and the verdicts as far as
the platforms agree on them. **`GitHubSast`**, **`AzureSast`** and
**`GitLabSast`** add the calls of each platform and where its verdicts differ:
workflow files that cannot be read (`Skipped`), runs lost for one workflow
(`RunsLost`), tags that cannot be resolved or dated (`Dropped`), the default
setup of CodeQL, whose runs GitHub shows and Azure DevOps does not, and GitLab's
bounded walk backwards through the jobs (`Walk`), which ends at the first job
from before the window or at its bound. What a scan claims of runs is held
against the history in the `World` (`AllScanned`, `SomeUnscanned`, `Scans`).

**`Collectors`** puts the seven side by side, one of them in each behaviour, since
collectors share nothing but the context (`ScanRun`) and a client each
(`ApiCalls`); a further collector is one more instance.

**The other themes.** `Survey` is what these collectors share beyond
`Observation`: at most `MaxFailures` calls fail, a verdict per release is rolled
up, a tool is recognised or only suspected. A module stands for one check theme:
**`OrgSecurity`** (C01), **`EnvSeparation`** (C03), **`SecretsHygiene`** (C04),
**`ActionsSecurity`** (C08), **`AuditLogging`** (C09) and **`Disclosure`** (C10)
have a part for each platform; C06 is **`GitHubSca`**, **`AzureSca`** and
**`GitLabSca`**, the latter two extending the SAST modules, whose calls the code
repeats; C07 is **`Provenance`** for GitHub and GitLab, and **`AzureProvenance`**.
Each part has the settings there can be (`Worlds`), the calls in the order and
under the conditions of the code (`Call`, `Read...`), what becomes of each answer
and each failure, and `Decide`. Apart from the decisions, and in terms of the
settings and of which calls were lost, not of what `Decide` made of them, `Rubric`
says which statuses the table of conditions published with a check
(`checkRubrics`, and the reference made of it) allows. Where the code does not keep
to that table, `Rubric` is not widened: a second operator, `Deviates`, names each
departure, and section 5 lists them. **`Surveys`** puts the 25 parts side by side,
one in each behaviour. `RubricOrDeviation` says that there are no further
departures, `VerdictsAreWhole` that three collectors have none, which is not so.

How much of a status survives a change made during the collection differs. A
verified-pass of a single restriction was true of the settings of some moment
(`PassWasTrue`): no combination of answers of different moments can add up to a
restriction that never was. A verified-fail on GitHub, and `admin-enforced`,
merge answers of several calls: they are true if nothing was changed
(`Quiet`), and a change in between can make either wrong. On GitLab even the
failures survive, because each rests on one listing.

## 3. The runs

| run | instance | what it shows |
|---|---|---|
| `scan_run` | the command called with settings near a plain one; accounts of up to 5 repositories, 2 to a page, 2 moves; 3 collectors, 2 at once, 2 of them fan out over 2 repositories, 1 at once | only what was chosen decides, a listing is faithful; bound, barrier, cancellation rule, single decision, refinement of `FanOut`, in every interleaving of launchers, workers and a cancellation; no pack after an interruption, every collector accounted for, no goroutine left, every command ends |
| `pack_files` | 2 scans, each with or without `--sign`, one reader, crashes, errors, edits | all file properties with the scans overlapping or one after the other; what an undisturbed scan replaces of what it found, and what it leaves |
| `pack_silent` (violation) | one scan, one report, one edit | `report` can render edited bytes without a banner: it reads the file before the check reads it again |
| `rollup` | 2 collectors, one of which reports a repository given twice, 1 question, 4 tasks, 2 clusters, all statuses and an unset one; 3 builds that render | everything above the collectors agrees with the results, and the documents with the pack |
| `rollup_empty` (violation) | the same | a task without results is left out and the cluster above can be cleaner than the documentation allows |
| `pack_chain` | 1 check, 2 scopes, all statuses, any number of releases, of which the newest 3 are searched | comparison and chain, and gaps in it that are short enough or not |
| `collectors` | branch protection on four platforms: one ruleset, legacy protection, reviews and unnamed checks; 8 policies; 4 overlapping rules. Scanner history on three: 2 workflows or pipelines, 6 releases in 11 pasts, 7 jobs in any combination, 2 releases looked at, a walk of 2 jobs. One change of settings; any calls failing | the statuses are true of the settings there were; a failed call costs only what rests on it; the checks of one collector agree |
| `surveys` | 25 collectors over one repository or organisation each, settings near a plain one; 2 failed calls | each status is one its check's published rubric allows, or a departure that is named |
| `api_calls` | one goroutine, 2 units of 2 and 1 calls, 1 retry, four platforms | retries, provenance, termination |
| `api_stop` (violation) | GitHub, 2 goroutines | a secondary limit does not stop the others |
| `collectors_skip` (violation) | as `collectors` | Azure DevOps: a pipeline whose definition could not be fetched is taken for another repository's, and `tool-configured` is verified-fail all the same |
| `surveys_whole` (violation) | as `surveys` | GitHub: `token-permissions` is verified-fail when no workflow that could be read declares permissions, although one that could not be read does |

The violation runs are the disagreements between code and documentation met
while modelling; each has its line and its quotation under `findings`.

**Why the bounds are enough.** Each run contains at least two of whatever
interacts. `scan_run` has one collector more than places (so that the launcher
parks and is handed a place), and two of them have a repository pool open at
once, each with two repositories and a single place, beside one that does not
fan out. In `pack_files` each of two scans may sign or not, so that an unsigned one
meets the bundle of a signed one; one reader is as good as many because
readers change nothing. The settings the command is
called with differ from a plain scan of a platform in two fields, each in the
file, on the command line or both, or in one field and the environment: what the
merge, the validation and the choice of the host tell apart is one field against
another. Accounts span no page to three; two moves can shift a boundary twice;
`MaxPages` = 2 (100 in the code) makes the cap bite. In `rollup` the first collector
reports one check for two repositories in the wrong order, one of them twice, as
`--repos a,a` does; a check is listed under several tasks and one under none, and
clusters share a task. Of the builds that render, one changed nothing, one the file
whose change the banner must name and moves a check, one the form and moves a
task; packs may lack the version of one file (those of early builds do). `pack_chain` has one check since the
comparison treats the checks one by one; what is between two checks, sorting,
is not modelled. `Window` = 3 (50 in the script) leaves room for one release without
a pack that the search gets past and for two that it does not. `api_calls` sets the retry limits (5, 5, 3 and 3 in the code)
to 1: the second time round a loop is the same as the fifth. Its goroutine makes
a second call with the same client (counts start again, a pending delay is slept
off) and then starts over with a fresh one; goroutines share nothing but the
context, so a second one, which the theorems cover, adds nothing but states. `collectors` has
one kind of restriction (`review`, the one with exemptions) since the others are
merged alike, and one kind of rule that is not tracked as one (`unnamed`); one
ruleset beside the legacy protection makes two regimes; the policies differ
from a plain one in one thing each, so that a scope, a flag or a number that
was mixed up shows; `MaxWorlds` allows one change, which can come between any
two calls.

In `surveys` every setting of small themes is a start; of larger ones those that
differ from a plain one in one respect, or in respects that bear on one another
(`Near`). Two failed calls are enough for what a first failure hides from a
second; nothing changes during a collection, as what is claimed there is what
the rubric says of settings that stood still.

The pasts of the scanner history hold what the decisions tell apart: a release
from before the window, one more than is looked at, two of one date, one whose
name is not a release's, one whose commit is older than the window; runs on and
off the default branch, failed, too old, and of the default setup itself. On
GitLab every set of the seven jobs is a past, among them one created before
another and finished after it, one unfinished, and one that left a report under
a name no longer configured; `MaxJobs` = 2 stands for 20 pages of 100 and cuts
most of them short. History does not change during a scan: the administrator
only turns the default setup on or off, on GitHub, where two calls tell of it.
Where a theorem exists it covers all sizes, and any number of changes.

**What is assumed of the platforms** in `collectors`: an answer is what the
settings are at that moment; the legacy endpoint answers 404 exactly if there is
no legacy protection; a listing is complete (GitHub's rules are asked for without
page options, so that of more rules than fit one page the rest are not seen:
`hazards`); a paged listing is whole or has failed. What a scanner's signature
matches in a file is given with the file (`Evidence`). Dates are those the
platform reports. What names a pattern covers, a wildcard on GitLab or a `refName` on
Azure DevOps, is given with the rule, not matched character by character.

**What is assumed of the servers** in `scan_run`: within one account the order of
a listing does not change but by what is created and deleted (where a new
repository goes is left open); page n holds what is in its places of that order
when it is asked for; GitHub announces a next page only if there is more. go-github's loop has no cap of its own, so that a server
that announced pages for ever would keep a GitHub scan from ending;
GitLab's client has one, and refuses a page that does not come later.

**Fairness.** `FairScanSpec` gives weak fairness to each goroutine: the Go
scheduler runs a runnable goroutine, and a function called by a pool returns
(the retry loops under it are bounded, which is `CallsEnd`). It never assumes
that a scan is cancelled. `Fairness` of `ScanCommand` adds that the calls for the
scope return, with an answer or an error; people may move repositories at any
time, which ends nothing and is not assumed to stop, but `MaxMoves` bounds it. `FairSpec` of `ApiCalls` assumes only that goroutines
run and that `net/http` returns from a request whose context is done. That the
platform answers, or its connection fails, is not something the code
guarantees (the clients set no timeout, `azuredevops/client.go:141-143`), so it
is the antecedent `Environment` of `CallsEnd`; `CancelEndsCalls` does without.
A receive by a parked launcher is part of the release that hands it the place:
no separate fairness is needed, and none is strong.

## 4. The proofs

Each `...Proofs` module holds the theorems of the module it extends, for every
value of the constants under the assumptions named there: `PoolAssumption`
(sizes are natural numbers, limits positive, the two markers are no results),
`ScanAssumption` (each fanning-out collector has a pool of its own, and there
are no others), `CallsAssumption` (natural numbers, the four platforms; `UnitsAssumption`, a
positive number of calls per unit, is not needed),
`FilesAssumption` (the markers are no scans), `RollupAssumption` (ranks are
natural numbers, the five statuses can occur), `DiffAssumption` (`None` is no
pack), and for the collectors `GitHubAssumption`, `AzureAssumption`,
`GitLabAssumption` and `PipelineAssumption` (rules and pipelines are of the
kinds the code knows, identifiers and markers are distinct), `HistoryAssumption`
(at least one release is looked at) and `JobAssumption` (ids of jobs are unique,
and a project has finitely many). The command may be called with anything of the
shape of a file, flags and an environment (`Callable`); for its listings,
`ListingAssumption` (a page holds at least one repository, and the names within an
account differ), and for the documents `ReportAssumption` (a later mapping lists
the same tasks and clusters). For
`Surveys`, `SettingsAssumption` (a collector meets settings of its own kind),
`PagesAssumption` (pages are numbered from one), `DepthAssumption`, `MarkersAssumption`
(no answer looks like a call that was not made or failed), and the same of pasts, pipelines
and jobs as above. Otherwise no finiteness of scans, readers,
threads, results, releases or runs is assumed.

- **`WorkerPoolsProofs`**: `PoolsInv` counts. The semaphore count is the number
  of workers between start and release, `wg` the number not yet exited, and
  items split at the launcher's index into decided and untouched ones; a launch
  after the cancellation leaves a mark at the index where it happened
  (`Late`). `LimitRespected` alone is not inductive: nothing in it links the
  count to the goroutines. The refinement follows step by step from the split.
- **`ScanRunProofs`**: on top of `PoolsInv`, `Nested` (a repository pool is
  open only inside its collector's running worker, and closed once that worker
  has stored) and `CleanPack` (past the check of the context, if it was not
  done, nothing is skipped or soiled; rows come after that). `RowsCollected` says
  that the rows of a pack are what the outcomes contribute, as nothing changes an
  outcome any more; with a bijection between a collector's repositories and its
  rows this gives `EveryCollectorAccounted`. `CommandStepsAreScanSteps` lifts all
  of it to the command, and `SettingsKept`, which follows the settings from the
  call to their use, gives `SettingsDecide` by two lemmas about the merge.
  `ListingIsFaithful` compares counts at the end of a listing and says nothing
  before; `ListingIInv` therefore keeps a `Tally` at every page boundary: of the
  repositories that stood from the first page on, those neither in hand nor still
  coming are no more than were deleted, and those in hand twice, or in hand and
  still coming, no more than were created. Inserting and removing at any place
  move at most one repository across the boundary (`InsertKeepsTally`,
  `RemoveKeepsTally`), reading a page moves none (`PageKeepsTally`).
- **`ApiCallsProofs`**: `Counted` and `Between` bound the requests of a
  goroutine by what its layers have counted; `InStep` says of the current
  client, and `Copied` of the finished ones, that the log accounts for what was
  handed out, with the answers of the retries under way added.
- **`PackFilesProofs`**: `TempFollowsPlace` (what a temp file holds is known
  from where its scan is), `Whole`, `HashesRecorded` (a sidecar that matches was
  written by the scan whose bytes it hashes), `SoleInPlace` and `QuietReads`
  (while no file has changed, what a reader has read is what is there).
- **`EvidenceRollupProofs`**: `Rollup` picks the worst of a set
  (`Worst`), so the worst of worsts over a union is the worst of the union;
  `Reduced` says that after reading n results `statusByCheck` is that worst for
  the first n. Of the documents: `BeforeIsOrder` (two findings never tie), from
  which the numbers are those from 1 on, each given once (`NumbersGivenOnce`);
  the counts of the report are cardinalities of a partition of the results
  (`CountsAddUp`); two builds that agree on the mappings number alike
  (`IDsAgree`).
- **`PackDiffProofs`**: `Follows` relates two packs when every decline between
  them has been alarmed or noted as unsettled; it is transitive along the chain
  (`ChainFollows`, `LinkFollows`), which is what makes `NoSilentDecline` hold
  over any number of releases, as long as none of them passes over the comparison.

- **`CollectorsProofs`**: nothing moves once there are statuses and nothing is
  claimed before, so the invariant only has to carry where the answers in hand
  come from (`GitHubHeard`, `AzureHeard`, `GitLabHeard`): each is right of some
  settings in `seen`, which are the present ones while `Quiet`. The honesty of
  the statuses alone is not inductive, as before `Decide` it says nothing about
  the answers. `GitHubEffective` and `GitHubComplete` are the two halves of the
  merge of the regimes: what it finds did stop members, and it misses nothing.
  For the scanner history it is the same argument, one invariant per platform
  (`GitHubC05Heard`, `AzureC05Heard`, `GitLabC05Heard`): what was heard
  of workflows, tags and runs is what the history holds, and default setup was so
  at some moment in `seen`. On top of it (`...Coverage`, `...Runs`): a release
  covered by the runs in hand is covered in the past, so a pass stands whatever
  was lost; one that is missing is missing in the past unless an answer was lost;
  and on GitLab a walk that was not cut short has seen every job finished in the
  window, provided jobs finished in the order of their ids (`GitLabC05Walked`).
  `NoPanelContradictsAnother` follows from the same lemmas.

- **`SurveysProofs`**: `Inv` is one invariant per collector, 25 in all (`GitHubC01Inv`
  to `GogsC10Inv`), each of the same three parts. `RubricOrDeviation` alone is not inductive, as it
  says nothing before `Decide`; what carries it is `...Heard`: every answer in hand is
  the one the settings give, and a call that depends on another was made on the right
  answer to it (the page after a full page, the detail of a policy that was listed,
  the attestation of a digest that was found). `...Reads` extends it by one answer,
  `...Verdicts` goes from the answers to the rubric, check by check, and `...Same` says
  that what a rubric speaks of does not move once there are statuses. `...Goes` puts
  the three together for a step, `...Starts` for the initial states, and `Inductive`
  for the 25. The lemmas worth knowing by themselves:
  unless a page was lost, the environments read are all there are (in
  `GitHubC03Verdicts`); a release covered by the runs in hand is covered in the past, and
  one that is missing is missing in the past unless an answer was lost or the listing was
  cut short (`GitHubC06Coverage`, `AzureC06Coverage`, `GitLabC06Walked`); what a sum over
  releases says of each (`C07Rolled`); of the places where a policy may be, the first that
  is not absent decides, and nothing after it is asked (`Search`).
  The proof corrected the model once: what `C08` must account for (`Whole` in
  `ActionsSecurity`) includes a reusable workflow of the same repository whose file on
  the default branch could not be read, as it is judged at the commit it is called
  at; the settings now include such a pair (`Pair` in `MCSurveys`).

Two theorems state what no run checks by itself, because other properties of the
runs imply it: `InvalidIsRefused` (no pack with an invalid status is written) and
`SortedToTheEnd`.

Model-checked only: the liveness properties (`ScanEnds`, `CallsEnd`,
`CancelEndsCalls`), which TLAPS cannot do with fairness, and the violation
runs. Every invariant and every action property of a passing run is proved.

## 5. Not modelled

Parts of the system:

- the registries of collectors and checks: maps filled by `init` before `main`
  runs, read only afterwards, with a panic on a name given twice;
- the mapping loader and its cross-checks: embedded files, validated once; what
  a mapping says is a constant of `EvidenceRollup` and `Report`;
- matching of signatures in files and of names against patterns: what a scanner's
  signature finds is given with the file (`Evidence`), what a rule covers with
  the rule. These are functions on strings, outside what the models tell apart;
- the check reference, the documentation generators and the template of answers
  that `attest init` writes: one-shot text from constants;
- the tables of checks that a platform answers with `unsupported` whatever is
  there: constants, no decisions.

Inside what is modelled:

- reasons, facts, links, the platform stamp and the scrubbing of a result; the
  text of a delta; templates, escaping, scope labels and the pairing of answers
  in the rendered documents; the number of approvals, the names of checks and of
  people;
- the continuation tokens of Azure DevOps (`azuredevops/client.go`): a paged
  listing there is whole or has failed, and its cap on pages is a failure;
- the refusal of methods other than GET, authentication, redirects; how long a
  wait is. Removing the temp file after an error is assumed to succeed;
- Gogs beyond branch protection, the listing and C10: its other checks are of the
  `unsupported` kind;
- cosign, GitHub releases and the platforms themselves are external: they are
  modelled from how the code uses them.

Disagreements between code and documentation that the models show, without a run
that expects a violation for each; the properties state what the code does, and
say so:

- `--gitlab-url ""` does not override the file (`scanconfig.go:182` against
  `scan.go:102`): an exception in `SettingsDecide`;
- a GitLab group given by number, whose path could not be asked for, leaves names
  with the group's prefix in the scope (`scanrepos_gitlab.go:81-91`): an exception
  in `ListingIsFaithful`;
- a repository given twice makes two findings with one key, and the report's rows
  both name the later one (`report/context.go:182` against `findings.go:16`): an
  exception in `SameIDs`;
- a scan without `--sign` into the directory of a signed one leaves the old bundle
  (`scan.go:320`), so that `verify` finds it beside a pack that was never signed and
  says TAMPERED; `verify.go:56-57` has no bundle be present "when the pack was never
  signed", and `README.md:505` says that an unsigned pack verifies normally: the
  exception in the last conjunct of `UndisturbedScanReplaces`;
- `self-scan.yaml:257-260` says of a broken chain that "the read side catches the gap
  instead — loudly"; with no pack among the newest 50 releases
  `fetch-drift-baseline.sh:134-156` reports a first run, and the job is green
  (`SkipDiff`);
- `pool.go:8-11` calls the limit of repositories at once one of the whole scan;
  it is one of each collector, so with `--concurrency` n up to n times as many
  run (`LimitRespected` is per pool).

Of the published rubrics the code departs as follows. Each departure is a disjunct of
`Deviates` (`GitHubDeviates`, `AzureDeviates`) in the module of the theme, and
`RubricOrDeviation` admits it; `surveys_whole` exhibits the first.

- C08 on GitHub: `token-permissions` is verified-fail when no workflow that could be
  read declares permissions, while others could not be read (`checks.go:298`);
- C07 on GitHub: `signatures` is verified-fail when none of the first digests of a
  release is attested but a later one, beyond the cap of look-ups, is
  (`attestations.go:14`);
- C06 on Azure DevOps: `alerts-triaged` passes with an overdue critical alert whose
  date cannot be read, if another alert has a date (`alerts.go:174-177`);
- C06 and C07 on Azure DevOps: a pipeline whose definition could not be fetched is
  taken for another repository's, and `tool-configured`, `ran-per-release` and
  `workflow` are verified-fail as if there were none (`sasthistory.go:438` and its
  like; for C05 this is the run `collectors_skip`);
- C06 on GitHub and Azure DevOps: of releases of one date all but one are denied the
  runs before them, and `ran-per-release` is verified-fail though there were some;
- C06 on GitLab: the walk over the jobs stops at the first from before the window, and
  misses younger ones behind it when jobs did not finish in the order of their ids;
- C04 on GitHub: `security-defaults` counts a default the answer leaves out as off,
  unless all are left out, and does not judge a personal account; `dependabot-alerts`
  that are off on a server of one's own are not judged, for which the code gives its
  reason (`checks.go:138-152`) and the rubric has no words;
- C04 on Azure DevOps: a flag that is null is not judged in `scanning-enabled` and
  `advanced-security`, whose rubrics know no null.

Of a partial `ran-per-release` of C06 the rubric is stated as a necessary condition
only (a release was dropped, or some run there was counts); it does not say which
releases had which runs.

Narrower than the code, or wider than what can happen today:

- `Write` of `EvidenceRollup` writes the pack or refuses it; that the sidecar or the
  signature fails once the pack is there (`scan.go:309`, `scan.go:321`, exit code 1)
  is in `PackFiles` but not there, so `GapsReachTheTop` says nothing of the exit
  code then;
- `root.go:36` starts the commands with a context that nothing cancels, as no handler
  of signals is installed. `AtMostOneLateStart`, `CancelEndsCalls` and the rule that a
  cancelled scan leaves no pack are properties of the code that takes a context; from
  the command line no scan reaches them today;
- `ReportFollowsPack` assumes that a mapping file whose content changed carries another
  version.

## 6. Plan

Done: orchestration and the command around it, pack files, roll-up, report,
comparison, transports, branch protection on four platforms, and the other nine
themes on the platforms that have them; the proofs listed in section 4.

Left, in this order:

1. The walk over the continuation tokens of Azure DevOps, beside the page numbers.
2. Changes during a collection for the themes in `Surveys`, as in `Collectors`.
