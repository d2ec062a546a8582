------------------------------- MODULE Report --------------------------------
(***************************************************************************)
(* What `attestward report` makes of the pack a scan has written: the      *)
(* clusters, the gaps and the rest of report.md and report.html, and the   *)
(* findings of poam.md (runReport, cmd/attestward/report.go, and           *)
(* internal/report).  A document is a function of the pack and of the      *)
(* build that renders it, which may be a later one than the build that     *)
(* scanned, with other mapping files; the two documents may come of        *)
(* different builds, as one can be rendered without the other, or the      *)
(* write of the second fails.                                              *)
(*                                                                         *)
(* What report says of hashes and --force is PackFiles' matter.  A result  *)
(* is named by its position in the pack.                                   *)
(***************************************************************************)
EXTENDS EvidenceRollup, FiniteSets

CONSTANTS
  ClusterOrder,                 \* the clusters, in the order of the form
  LaterChecks, LaterSSDFTasks,  \* Checks and SSDFTasks as of a later version
  Build                         \* the builds that render: which mapping files changed since the scan

File == {"ssdf", "cisa", "scanner-signatures", "self-attestation"}

\* A later mapping file lists tasks and clusters of the same names.
ASSUME ReportAssumption ==
  /\ ClusterOrder \in Seq(Cluster)
  /\ DOMAIN LaterChecks = Task /\ LaterSSDFTasks \in [Cluster -> SUBSET Task]
  /\ Build \subseteq SUBSET File

\* No such document yet; otherwise a document is the build that rendered it.
Unrendered == {"unrendered"}

VARIABLES
  recorded,      \* the mapping files whose version is in the pack
  report, plan   \* report.md or report.html, and poam.md

documents == <<recorded, report, plan>>
reportVars == <<vars, documents>>

\* Packs of builds before issue #255 lack one version.
ReportInit ==
  /\ Init
  /\ recorded \in {File, File \ {"scanner-signatures"}}
  /\ report = Unrendered /\ plan = Unrendered
-----------------------------------------------------------------------------
\* A mutant of MappingVersionMismatch: two files are not compared (before issue #264).
MappingVersionMismatchOfOne(changed) == changed \cap recorded \cap {"ssdf"}

\* A file whose version is not in the pack is not compared.
MappingVersionMismatch(changed) == changed \cap recorded

ChecksIn(changed) == IF "ssdf" \in changed THEN LaterChecks ELSE Checks
TasksIn(changed) == IF "cisa" \in changed THEN LaterSSDFTasks ELSE SSDFTasks

Gaps == {j \in DOMAIN results : results[j].status \in Gap}
CheckOf(j) == Check(results[j].key)

(***************************************************************************)
(* assignFindings: every gap is a finding, numbered by its first cluster,  *)
(* then by check and repository.                                           *)
(***************************************************************************)
TaskIDs(b, j) == {t \in Task : CheckOf(j) \in ChecksIn(b)[t]}
ClusterIDs(b, j) == {c \in Cluster : TasksIn(b)[c] \cap TaskIDs(b, j) # {}}

\* A mutant of GroupOrder: what belongs to no cluster comes first.
GroupOrderUnmappedFirst(b, j) ==
  LET places == {i \in DOMAIN ClusterOrder : ClusterOrder[i] \in ClusterIDs(b, j)}
  IN  IF places = {} THEN 0 ELSE CHOOSE i \in places : \A k \in places : i <= k

GroupOrder(b, j) ==
  LET places == {i \in DOMAIN ClusterOrder : ClusterOrder[i] \in ClusterIDs(b, j)}
  IN  IF places = {} THEN Len(ClusterOrder) + 1 ELSE CHOOSE i \in places : \A k \in places : i <= k

Before(b, i, j) ==
  \/ GroupOrder(b, i) < GroupOrder(b, j)
  \/ GroupOrder(b, i) = GroupOrder(b, j) /\ Rank[results[i].key] < Rank[results[j].key]
  \/ GroupOrder(b, i) = GroupOrder(b, j) /\ Rank[results[i].key] = Rank[results[j].key] /\ i < j

Number(b, j) == Cardinality({i \in Gaps : i = j \/ Before(b, i, j)})

Findings(b) ==
  LET number == [j \in Gaps |-> Number(b, j)]
  IN  [n \in 1..Cardinality(Gaps) |-> CHOOSE j \in Gaps : number[j] = n]

\* A mutant of PoamID: the repository is not part of the key.
PoamIDByCheck(findings, j) ==
  LET same == {n \in DOMAIN findings : CheckOf(findings[n]) = CheckOf(j)}
  IN  CHOOSE n \in same : \A m \in same : m <= n

\* The map from check and repository to finding: of two with the same key the last one stays.
PoamID(findings, j) ==
  LET same == {n \in DOMAIN findings : results[findings[n]].key = results[j].key}
  IN  CHOOSE n \in same : \A m \in same : m <= n
-----------------------------------------------------------------------------
(* report.md (buildContext). *)

StatusCounts == [s \in Valid |-> Cardinality({j \in DOMAIN results : results[j].status = s})]

GapTable(b) ==
  LET findings == Findings(b) IN {[result |-> j, poam |-> PoamID(findings, j)] : j \in Gaps}

\* A status of the pack's roll-up: none or one.
StatusIn(rollup, id) == IF id \in DOMAIN rollup THEN {rollup[id]} ELSE {}

TaskView(b, t) ==
  [status |-> StatusIn(tasks, t), shown |-> {j \in DOMAIN results : CheckOf(j) \in ChecksIn(b)[t]}]

ClusterView(b, c) ==
  [status |-> StatusIn(clusters, c), tasks |-> {TaskView(b, t) : t \in TasksIn(b)[c]}]
-----------------------------------------------------------------------------
(* poam.md (buildPOAMContext): a section for each cluster with findings, "Unmapped" last, *)
(* which lists the findings of these numbers, in their order.                             *)

Section == 1..(Len(ClusterOrder) + 1)
Groups(b) ==
  LET findings == Findings(b)
  IN  [i \in Section |-> {n \in DOMAIN findings : GroupOrder(b, findings[n]) = i}]

Counted(S, s) == Cardinality({j \in S : results[j].status = s})
ClusterSummary(b, i) ==
  LET S == {j \in Gaps : GroupOrder(b, j) = i}
  IN  [fail |-> Counted(S, "verified-fail"), partial |-> Counted(S, "partial")]

OutsideTool == {j \in DOMAIN results : results[j].status \in {"self-attested", "not-checkable"}}
-----------------------------------------------------------------------------
\* runReport with --format md (or html), by a build in which some files have changed.
RenderMarkdown(b) ==
  /\ phase = "written" /\ SchemaValid
  /\ report' = b
  /\ UNCHANGED <<vars, recorded, plan>>

RenderPOAM(b) ==
  /\ phase = "written" /\ SchemaValid
  /\ plan' = b
  /\ UNCHANGED <<vars, recorded, report>>

ReportNext ==
  \/ Next /\ UNCHANGED documents
  \/ \E b \in Build : RenderMarkdown(b) \/ RenderPOAM(b)

ReportSpec == ReportInit /\ [][ReportNext]_reportVars
-----------------------------------------------------------------------------
\* The banner says nothing of the two files a report is arranged by.
Unmoved(b) == MappingVersionMismatch(b) \cap {"ssdf", "cisa"} = {}

Statuses(S) == {results[j].status : j \in S}
Agrees(status, shown) ==
  /\ status = {} <=> shown = {}
  /\ \A s \in status : TruthTable(Statuses(shown))[s]

(***************************************************************************)
(* A reader who adds up what the report shows gets what it says: each      *)
(* result is counted once, and unless a banner names a mapping file as     *)
(* changed, the status of every task and of every cluster is what the      *)
(* results shown below it amount to, whichever build rendered it.          *)
(***************************************************************************)
ReportAddsUp(b) ==
  /\ LET n == StatusCounts IN
       /\ n["verified-fail"] + n["partial"] + n["not-checkable"] + n["self-attested"] + n["verified-pass"]
            = Len(results)
       /\ n["verified-fail"] + n["partial"] = Cardinality(GapTable(b))
  /\ Unmoved(b) =>
       \A c \in Cluster : LET view == ClusterView(b, c) IN
         /\ Agrees(view.status, UNION {t.shown : t \in view.tasks})
         /\ \A t \in view.tasks : Agrees(t.status, t.shown)

(***************************************************************************)
(* The plan lists every gap once, under its number in one section; the     *)
(* numbers go on from section to section, and the summary of each counts   *)
(* what it lists.  Without a banner, the clusters its findings name are    *)
(* those the roll-up shows a gap for.                                      *)
(***************************************************************************)
PlanAddsUp(b) ==
  LET findings == Findings(b)
      groups == Groups(b)
  IN  /\ \A j \in Gaps : \E n \in DOMAIN findings : \A m \in DOMAIN findings : findings[m] = j <=> m = n
      /\ UNION {groups[i] : i \in Section} = DOMAIN findings
      /\ \A i, k \in Section : i < k => \A m \in groups[i], n \in groups[k] : m < n
      /\ \A i \in Section :
           ClusterSummary(b, i).fail + ClusterSummary(b, i).partial = Cardinality(groups[i])
      /\ Len(findings) + Cardinality(OutsideTool) + StatusCounts["verified-pass"] = Len(results)
      /\ Unmoved(b) =>
           UNION {ClusterIDs(b, j) : j \in Gaps} = {c \in DOMAIN clusters : clusters[c] \in Gap}

(***************************************************************************)
(* "a finding's ID always agrees between the two documents for the same    *)
(* pack" (findings.go:16), if neither carries the banner: each row of the  *)
(* gaps table names a finding of its check and repository, and if no other *)
(* gap has both the same (a repository given twice), its own.              *)
(***************************************************************************)
Bannerless(b) == MappingVersionMismatch(b) = {}

SameIDs(r, p) ==
  LET findings == Findings(p) IN
    \A row \in GapTable(r) : LET found == findings[row.poam] IN
      /\ results[found].key = results[row.result].key
      /\ (\A j \in Gaps : results[j].key = results[row.result].key => j = row.result) => found = row.result

(***************************************************************************)
(* The documents, each and side by side, tell what the pack holds.         *)
(***************************************************************************)
ReportFollowsPack ==
  /\ report # Unrendered => ReportAddsUp(report)
  /\ plan # Unrendered => PlanAddsUp(plan)
  /\ report # Unrendered /\ plan # Unrendered /\ Bannerless(report) /\ Bannerless(plan) => SameIDs(report, plan)
=============================================================================
