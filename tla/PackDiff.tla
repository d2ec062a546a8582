------------------------------ MODULE PackDiff ------------------------------
(***************************************************************************)
(* Comparing two packs (Compare, internal/packdiff/packdiff.go, behind      *)
(* `attestward diff`) and the chain of comparisons a release pipeline makes with it    *)
(* (action.yml, .github/workflows/self-scan.yaml): every release is        *)
(* scanned, its pack is compared with the one attached to the last release *)
(* that has one, if that is among the newest Window releases, and is then  *)
(* attached itself, whatever the comparison said.                          *)
(*                                                                         *)
(* A result is its key, a Ref, and its status; reasons, versions and the   *)
(* repository list are context that does not change the classification.    *)
(***************************************************************************)
EXTENDS Integers, FiniteSets

CONSTANTS
  Ref,     \* keys of results: check ID, organisation and repository
  Scope,   \* organisation, platform and project of a pack
  Window,  \* how many releases fetch-drift-baseline.sh lists, the newest first
  None     \* no pack

Verified == {"verified-pass", "partial", "verified-fail"}
Status == Verified \cup {"not-checkable", "self-attested"}

\* ambiguous: some key occurs twice among the results.
Pack == [scope : Scope, ambiguous : BOOLEAN, of : UNION {[R -> Status] : R \in SUBSET Ref}]

ASSUME DiffAssumption == None \notin Pack /\ Window \in Nat

VARIABLES
  step,      \* what the pipeline does next for the release under way
  base,      \* the pack of the last release that has one
  since,     \* releases after that one without a pack, Window for any more
  cur,       \* the pack just scanned
  delta,     \* the last comparison, or None
  exit,      \* what `attestward diff` exited with
  first,     \* history: the first pack of the chain of comparisons
  alarmed,   \* history: the keys reported as regressions since
  unsettled  \* history: the keys a report said could not be followed

vars == <<step, base, since, cur, delta, exit, first, alarmed, unsettled>>
-----------------------------------------------------------------------------
\* A mutant of Regression: partial counts as good as a pass.
RegressionToFailOnly(from, to) == from \in {"verified-pass", "partial"} /\ to = "verified-fail"

Regression(from, to) ==
  \/ from = "verified-pass" /\ to \in {"verified-fail", "partial"}
  \/ from = "partial" /\ to = "verified-fail"

\* A mutant of Improvement: only a pass is one.
ImprovementToPassOnly(from, to) == from \in {"verified-fail", "partial"} /\ to = "verified-pass"

Improvement(from, to) ==
  \/ from = "verified-fail" /\ to \in {"verified-pass", "partial"}
  \/ from = "partial" /\ to = "verified-pass"

CoverageLoss(from, to) == from \in Verified /\ to = "not-checkable"
CoverageGain(from, to) == from = "not-checkable" /\ to \in Verified

(***************************************************************************)
(* Compare: refuses packs of different scopes and packs in which a key     *)
(* occurs twice; otherwise every key goes into the list of its change.     *)
(***************************************************************************)
Comparable(a, b) == a.scope = b.scope /\ ~a.ambiguous /\ ~b.ambiguous

\* A mutant of Compare: a transition of no named class is dropped.
CompareNamedOnly(a, b) ==
  LET changed == {r \in DOMAIN a.of \cap DOMAIN b.of : a.of[r] # b.of[r]}
      In(Class(_, _)) == {r \in changed : Class(a.of[r], b.of[r])}
  IN  [regressions |-> In(Regression), improvements |-> In(Improvement),
       coverageLoss |-> In(CoverageLoss), coverageGain |-> In(CoverageGain), other |-> {},
       added |-> DOMAIN b.of \ DOMAIN a.of, removed |-> DOMAIN a.of \ DOMAIN b.of]

Compare(a, b) ==
  LET both == DOMAIN a.of \cap DOMAIN b.of
      changed == {r \in both : a.of[r] # b.of[r]}
      In(Class(_, _)) == {r \in changed : Class(a.of[r], b.of[r])}
      named == In(Regression) \cup In(Improvement) \cup In(CoverageLoss) \cup In(CoverageGain)
  IN  [regressions  |-> In(Regression),
       improvements |-> In(Improvement),
       coverageLoss |-> In(CoverageLoss),
       coverageGain |-> In(CoverageGain),
       other        |-> changed \ named,
       added        |-> DOMAIN b.of \ DOMAIN a.of,
       removed      |-> DOMAIN a.of \ DOMAIN b.of]

Delta == [{"regressions", "improvements", "coverageLoss", "coverageGain",
           "other", "added", "removed"} -> SUBSET Ref]
-----------------------------------------------------------------------------
Init ==
  /\ step = "scan"
  /\ base = None /\ cur = None /\ delta = None /\ first = None
  /\ exit = 0
  /\ since = 0
  /\ alarmed = {} /\ unsettled = {}

\* The release under way is scanned.
Scan ==
  /\ step = "scan"
  /\ cur' \in Pack
  /\ step' = "diff"
  /\ UNCHANGED <<base, since, delta, exit, first, alarmed, unsettled>>

\* A release that ends without a pack of its own.
NoneAttached ==
  since' = IF base = None THEN 0 ELSE IF since < Window THEN since + 1 ELSE Window

(***************************************************************************)
(* The release leaves no pack: its scan failed, gh failed while looking    *)
(* for the baseline, or no run was fired for it.                           *)
(***************************************************************************)
NoPack ==
  /\ step = "scan"
  /\ exit' = 1
  /\ delta' = None
  /\ NoneAttached
  /\ UNCHANGED <<step, base, cur, first, alarmed, unsettled>>

(***************************************************************************)
(* The baseline is looked for among the newest Window releases, of which   *)
(* the one under way, still without its pack, is the first.                *)
(***************************************************************************)
BaselineFound == base # None /\ since + 2 <= Window

(***************************************************************************)
(* None of them has a pack.  The script calls that a first run, whether or *)
(* not an older release has one: drift mode is skipped, the job is green,  *)
(* and a new chain of comparisons begins with the pack to be attached.     *)
(***************************************************************************)
SkipDiff ==
  /\ step = "diff" /\ ~BaselineFound
  /\ exit' = 0
  /\ delta' = None
  /\ first' = None /\ alarmed' = {} /\ unsettled' = {}
  /\ step' = "attach"
  /\ UNCHANGED <<base, since, cur>>

\* What the reader of a delta learns about single keys.
Note(d) ==
  /\ alarmed' = alarmed \cup d.regressions
  /\ unsettled' = unsettled \cup d.coverageLoss \cup d.other \cup d.removed

\* A mutant of Diff: coverage losses are reported to nobody.
DiffLossless ==
  /\ step = "diff" /\ BaselineFound
  /\ Comparable(base, cur)
  /\ LET d == Compare(base, cur) IN
       /\ delta' = d
       /\ exit' = IF d.regressions # {} THEN 2 ELSE 0
       /\ Note([d EXCEPT !.coverageLoss = {}])
  /\ step' = "attach"
  /\ UNCHANGED <<base, since, cur, first>>

Diff ==
  /\ step = "diff" /\ BaselineFound
  /\ Comparable(base, cur)
  /\ LET d == Compare(base, cur) IN
       /\ delta' = d
       /\ exit' = IF d.regressions # {} THEN 2 ELSE 0
       /\ Note(d)
  /\ step' = "attach"
  /\ UNCHANGED <<base, since, cur, first>>

\* Compare refuses: the job fails, and nothing has been said about any key.
DiffRefused ==
  /\ step = "diff" /\ BaselineFound
  /\ ~Comparable(base, cur)
  /\ delta' = None
  /\ exit' = 1
  /\ unsettled' = Ref
  /\ step' = "attach"
  /\ UNCHANGED <<base, since, cur, first, alarmed>>

\* A mutant of Attach: only after a comparison without regressions.
AttachOnSuccess ==
  /\ step = "attach"
  /\ IF exit = 0
       THEN base' = cur /\ since' = 0 /\ first' = IF first = None THEN cur ELSE first
       ELSE NoneAttached /\ UNCHANGED <<base, first>>
  /\ step' = "scan"
  /\ UNCHANGED <<cur, delta, exit, alarmed, unsettled>>

\* attach-to-release runs always(): also after an alarm.
Attach ==
  /\ step = "attach"
  /\ base' = cur /\ since' = 0
  /\ first' = IF first = None THEN cur ELSE first
  /\ step' = "scan"
  /\ UNCHANGED <<cur, delta, exit, alarmed, unsettled>>

\* A mutant of UploadFails: a latest release without a pack hides the older ones.
UploadFailsChainLost ==
  /\ step = "attach"
  /\ exit' = 1
  /\ cur' = None /\ base' = None /\ since' = 0
  /\ step' = "scan"
  /\ UNCHANGED <<delta, first, alarmed, unsettled>>

(***************************************************************************)
(* The upload of the pack fails: the next release is compared with an      *)
(* older one, if it can still be found.                                    *)
(***************************************************************************)
UploadFails ==
  /\ step = "attach"
  /\ exit' = 1
  /\ cur' = None
  /\ NoneAttached
  /\ step' = "scan"
  /\ UNCHANGED <<base, delta, first, alarmed, unsettled>>

Next == Scan \/ NoPack \/ SkipDiff \/ Diff \/ DiffRefused \/ Attach \/ UploadFails

Spec == Init /\ [][Next]_vars
-----------------------------------------------------------------------------
TypeOK ==
  /\ step \in {"scan", "diff", "attach"}
  /\ base \in Pack \cup {None} /\ cur \in Pack \cup {None} /\ first \in Pack \cup {None}
  /\ delta \in Delta \cup {None}
  /\ exit \in {0, 1, 2}
  /\ alarmed \subseteq Ref /\ unsettled \subseteq Ref
  /\ since \in 0..Window
  /\ base = None => first = None /\ since = 0

(***************************************************************************)
(* A delta tells all and nothing twice: exactly the keys that are in one   *)
(* pack only or have another status are listed, each in one list.          *)
(***************************************************************************)
Listed == UNION {delta[l] : l \in DOMAIN delta}
AsOf(p, r) == IF r \in DOMAIN p.of THEN p.of[r] ELSE "absent"

DeltaIsAPartition ==
  step = "attach" /\ delta # None =>
    /\ Listed = {r \in Ref : AsOf(base, r) # AsOf(cur, r)}
    /\ \A k, l \in DOMAIN delta : k # l => delta[k] \cap delta[l] = {}

(***************************************************************************)
(* Read backwards, a delta says the opposite: what got worse from one pack *)
(* to the other got better from the other to the one.                      *)
(***************************************************************************)
DeltaMirrors ==
  step = "attach" /\ delta # None =>
    LET back == Compare(cur, base) IN
      /\ delta.regressions = back.improvements /\ delta.improvements = back.regressions
      /\ delta.coverageLoss = back.coverageGain /\ delta.coverageGain = back.coverageLoss
      /\ delta.other = back.other
      /\ delta.added = back.removed /\ delta.removed = back.added

(***************************************************************************)
(* Over any number of releases, with packs that could not be attached, not *)
(* be compared or not be had in between, as long as no comparison was      *)
(* skipped: a check that is worse than it was in the first pack of the     *)
(* chain was reported as a regression, or some report said that it could   *)
(* not be followed (it lost its verified status, moved to or from          *)
(* self-attested, went missing, or the packs could not be compared).  No   *)
(* decline goes by in steps too small to be seen.                          *)
(*                                                                         *)
(* The chain begins anew with every pack whose comparison was skipped      *)
(* (SkipDiff): after Window - 1 releases in a row without a pack the job   *)
(* is green and what declined meanwhile is listed nowhere.                 *)
(***************************************************************************)
NoSilentDecline ==
  \A r \in Ref :
    first # None /\ r \in DOMAIN first.of \cap DOMAIN base.of
      /\ Regression(first.of[r], base.of[r])
    => r \in alarmed \cup unsettled

(***************************************************************************)
(* An alarm does not freeze the baseline: when the next release is scanned *)
(* the last pack that could be uploaded is the one to compare with (as     *)
(* long as it can be found: BaselineFound).                                *)
(***************************************************************************)
BaselineFollows == step = "scan" /\ cur # None => base = cur
=============================================================================
