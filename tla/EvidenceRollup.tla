--------------------------- MODULE EvidenceRollup ---------------------------
(***************************************************************************)
(* From what the collectors hand over to the pack that is written: the     *)
(* flattening of their results (runCollectors), the self-attestation       *)
(* answers appended to them (runScan), the roll-up check -> SSDF task ->   *)
(* CISA cluster (BuildRollup), the exit code (computeExitCode) and the     *)
(* schema check in front of the write (writeEvidencePack).                 *)
(*                                                                         *)
(* A result is reduced to its key, a pair of check and repository, and its *)
(* status.  Concurrency and cancellation are the business of ScanRun: here *)
(* the collectors have returned, and outcomes are read in their order.     *)
(***************************************************************************)
EXTENDS Integers, Sequences

CONSTANTS
  Key,           \* the keys results may have; key[1] is the check ID
  Rank,          \* Rank[k]: the place of key k by check ID, then by repository
  NumCollectors,
  Slots,         \* Slots[n]: the keys collector n reports on, in its own order
  Placeholder,   \* Placeholder[n]: the key of "collector failed": its own ID
  Questions,     \* the keys of the self-attestation questions, in file order
  Emitted,       \* the statuses a collector may put into a result
  Task, Checks,          \* Checks[t]: the check IDs listed under task t
  Cluster, SSDFTasks     \* SSDFTasks[c]: the tasks cluster c references

Precedence == <<"verified-fail", "partial", "not-checkable", "self-attested", "verified-pass">>
Valid == {Precedence[j] : j \in 1..5}

ASSUME RollupAssumption ==
  /\ Rank \in [Key -> Nat]
  /\ NumCollectors \in Nat \ {0}
  /\ Slots \in [1..NumCollectors -> Seq(Key)]
  /\ Placeholder \in [1..NumCollectors -> Key]
  /\ Questions \in Seq(Key)
  /\ Valid \subseteq Emitted
  /\ SSDFTasks \in [Cluster -> SUBSET Task]
  /\ DOMAIN Checks = Task

VARIABLES
  phase,          \* where runScan is
  next,           \* the next collector outcome, then the next result, to read
  results,        \* the results of the pack under construction
  statusByCheck,  \* BuildRollup's map; its domain is the checks seen so far
  tasks,          \* Rollup.Tasks: statuses of the tasks that have one
  clusters,       \* Rollup.Clusters
  exitCode        \* what the process will exit with

vars == <<phase, next, results, statusByCheck, tasks, clusters, exitCode>>

Result == [key : Key, status : Emitted]
Check(k) == k[1]
NoMap == [c \in {} |-> "not-checkable"]

Init ==
  /\ phase = "flattening"
  /\ next = 1
  /\ results = <<>>
  /\ statusByCheck = NoMap /\ tasks = NoMap /\ clusters = NoMap
  /\ exitCode = 0
-----------------------------------------------------------------------------
(***************************************************************************)
(* Rollup (internal/mapping/rollup.go): of the statuses present, those     *)
(* that are none of the five counted as not-checkable, the one that comes  *)
(* first in the precedence list.                                           *)
(***************************************************************************)
Normal(s) == IF s \in Valid THEN s ELSE "not-checkable"

Outranks(s, t) ==
  \E j, k \in 1..5 : j <= k /\ Precedence[j] = s /\ Precedence[k] = t

Rollup(S) ==
  LET present == {Normal(s) : s \in S}
  IN  IF S = {} THEN "not-checkable"
      ELSE CHOOSE s \in present : \A t \in present : Outranks(s, t)
-----------------------------------------------------------------------------
(***************************************************************************)
(* sort.SliceStable by check ID, then by repository: what it may return,   *)
(* stated as what it promises.                                             *)
(***************************************************************************)
InOrder(s) == \A i, j \in DOMAIN s : i < j => Rank[s[i].key] <= Rank[s[j].key]

Reordering(s) ==
  {p \in [DOMAIN s -> DOMAIN s] : \A i, j \in DOMAIN s : p[i] = p[j] => i = j}

StablySorted(s) ==
  {[i \in DOMAIN s |-> s[p[i]]] : p \in
     {q \in Reordering(s) : \A i, j \in DOMAIN s :
        i < j => \/ Rank[s[q[i]].key] < Rank[s[q[j]].key]
                 \/ Rank[s[q[i]].key] = Rank[s[q[j]].key] /\ q[i] < q[j]}}

(***************************************************************************)
(* The loop over outcomes in runCollectors, which ends with a sort.        *)
(***************************************************************************)
Append1(rows) ==
  /\ IF next = NumCollectors
       THEN /\ results' \in StablySorted(results \o rows)
            /\ phase' = "attesting"
       ELSE /\ results' = results \o rows
            /\ phase' = phase
  /\ next' = next + 1
  /\ UNCHANGED <<statusByCheck, tasks, clusters, exitCode>>

\* Collect returned its results: one for every key it reports on.
Collected ==
  /\ phase = "flattening"
  /\ \E st \in [DOMAIN Slots[next] -> Emitted] :
       Append1([k \in DOMAIN Slots[next] |-> [key |-> Slots[next][k], status |-> st[k]]])

\* A mutant of CollectorFailed: the placeholder has a status of its own.
CollectorFailedAsError ==
  /\ phase = "flattening"
  /\ Append1(<<[key |-> Placeholder[next], status |-> "error"]>>)

\* Collect returned an error: one placeholder, under the collector's own ID.
CollectorFailed ==
  /\ phase = "flattening"
  /\ Append1(<<[key |-> Placeholder[next], status |-> "not-checkable"]>>)

(***************************************************************************)
(* BuildSelfAttestedResults: one result for every question, self-attested  *)
(* if there is a non-blank answer; without an answers file there is none.  *)
(***************************************************************************)
SelfAttested(answered) ==
  [q \in DOMAIN Questions |->
     [key |-> Questions[q],
      status |-> IF q \in answered THEN "self-attested" ELSE "not-checkable"]]

\* A mutant of Attest: the results are not sorted again.
AttestUnsorted ==
  /\ phase = "attesting"
  /\ \E answered \in SUBSET DOMAIN Questions : results' = results \o SelfAttested(answered)
  /\ phase' = "reducing"
  /\ next' = 1
  /\ UNCHANGED <<statusByCheck, tasks, clusters, exitCode>>

Attest ==
  /\ phase = "attesting"
  /\ \E answered \in SUBSET DOMAIN Questions :
       results' \in StablySorted(results \o SelfAttested(answered))
  /\ phase' = "reducing"
  /\ next' = 1
  /\ UNCHANGED <<statusByCheck, tasks, clusters, exitCode>>

\* The answers file cannot be loaded: the scan ends there.
RejectAnswers ==
  /\ phase = "attesting"
  /\ phase' = "refused"
  /\ exitCode' = 1
  /\ UNCHANGED <<next, results, statusByCheck, tasks, clusters>>
-----------------------------------------------------------------------------
(***************************************************************************)
(* BuildRollup's first loop, one result at a time.  The first status of a  *)
(* check is stored as it is, the later ones are merged into it.            *)
(***************************************************************************)
\* A mutant of Merged: the last result of a check wins.
MergedLastWins(r) == r.status

Merged(r) ==
  IF Check(r.key) \in DOMAIN statusByCheck
    THEN Rollup({statusByCheck[Check(r.key)], r.status})
    ELSE r.status

ReduceNext ==
  /\ phase = "reducing"
  /\ next <= Len(results)
  /\ LET c == Check(results[next].key) IN
       statusByCheck' = [d \in DOMAIN statusByCheck \cup {c} |->
                           IF d = c THEN Merged(results[next]) ELSE statusByCheck[d]]
  /\ next' = next + 1
  /\ UNCHANGED <<phase, results, tasks, clusters, exitCode>>

(***************************************************************************)
(* The two other loops: children without a status do not contribute, and a *)
(* parent none of whose children contributes is left out.                  *)
(***************************************************************************)
\* A mutant of RollUp: a parent needs all its children.
RollUpComplete(Parent, Children, status) ==
  LET present(p) == {status[c] : c \in Children[p] \cap DOMAIN status}
  IN  [p \in {q \in Parent : Children[q] \subseteq DOMAIN status} |-> Rollup(present(p))]

RollUp(Parent, Children, status) ==
  LET present(p) == {status[c] : c \in Children[p] \cap DOMAIN status}
  IN  [p \in {q \in Parent : present(q) # {}} |-> Rollup(present(p))]

Gap == {"verified-fail", "partial"}

\* A mutant of BuildRollup: the exit code overlooks partial results.
BuildRollupExitOnFail ==
  /\ phase = "reducing"
  /\ next > Len(results)
  /\ tasks' = RollUp(Task, Checks, statusByCheck)
  /\ clusters' = RollUp(Cluster, SSDFTasks, tasks')
  /\ exitCode' = IF \E j \in DOMAIN results : results[j].status = "verified-fail" THEN 2 ELSE 0
  /\ phase' = "writing"
  /\ UNCHANGED <<next, results, statusByCheck>>

BuildRollup ==
  /\ phase = "reducing"
  /\ next > Len(results)
  /\ tasks' = RollUp(Task, Checks, statusByCheck)
  /\ clusters' = RollUp(Cluster, SSDFTasks, tasks')
  /\ exitCode' = IF \E j \in DOMAIN results : results[j].status \in Gap THEN 2 ELSE 0
  /\ phase' = "writing"
  /\ UNCHANGED <<next, results, statusByCheck>>

(***************************************************************************)
(* writeEvidencePack: a pack that breaks the schema is refused, exit 1.    *)
(***************************************************************************)
\* A mutant of SchemaValid: only the roll-up is looked at.
SchemaValidRollupOnly ==
  /\ \A t \in DOMAIN tasks : tasks[t] \in Valid
  /\ \A c \in DOMAIN clusters : clusters[c] \in Valid

SchemaValid ==
  /\ \A j \in DOMAIN results : results[j].status \in Valid
  /\ \A t \in DOMAIN tasks : tasks[t] \in Valid
  /\ \A c \in DOMAIN clusters : clusters[c] \in Valid

Write ==
  /\ phase = "writing"
  /\ IF SchemaValid
       THEN phase' = "written" /\ exitCode' = exitCode
       ELSE phase' = "refused" /\ exitCode' = 1
  /\ UNCHANGED <<next, results, statusByCheck, tasks, clusters>>

Next ==
  \/ Collected \/ CollectorFailed
  \/ Attest \/ RejectAnswers
  \/ ReduceNext \/ BuildRollup \/ Write

Spec == Init /\ [][Next]_vars
-----------------------------------------------------------------------------
TypeOK ==
  /\ phase \in {"flattening", "attesting", "reducing", "writing", "written", "refused"}
  /\ next \in Nat \ {0}
  /\ results \in Seq(Result)
  /\ statusByCheck \in [DOMAIN statusByCheck -> Emitted \cup Valid]
  /\ DOMAIN tasks \subseteq Task /\ tasks \in [DOMAIN tasks -> Valid]
  /\ DOMAIN clusters \subseteq Cluster /\ clusters \in [DOMAIN clusters -> Valid]
  /\ exitCode \in {0, 1, 2}

(***************************************************************************)
(* However the results of a check are spread over collectors, repositories *)
(* and positions, and whatever is not a status at all among them, the      *)
(* three levels of merging (first stored raw, then pairwise, then by task, *)
(* then by cluster) give the status that the truth table in the header of  *)
(* mappings/cisa-ssda-form.yaml gives to all the raw statuses below the    *)
(* parent at once; a parent is left out exactly when there are none.       *)
(***************************************************************************)
Raw(checks) == {results[j].status : j \in {i \in DOMAIN results : Check(results[i].key) \in checks}}
ChecksOf(c) == UNION {Checks[t] : t \in SSDFTasks[c]}

TruthTable(S) ==
  [s \in Valid |->
     CASE s = "verified-fail" -> s \in S
       [] s = "partial"       -> s \in S /\ "verified-fail" \notin S
       [] s = "not-checkable" -> S \cap Gap = {} /\ ~(S \subseteq {"self-attested", "verified-pass"})
       [] s = "self-attested" -> s \in S /\ S \subseteq {"self-attested", "verified-pass"}
       [] s = "verified-pass" -> S = {"verified-pass"}]

TasksAreFlat ==
  /\ DOMAIN tasks = {t \in Task : Raw(Checks[t]) # {}}
  /\ \A t \in DOMAIN tasks : TruthTable(Raw(Checks[t]))[tasks[t]]

ClustersAreFlat ==
  /\ DOMAIN clusters = {c \in Cluster : Raw(ChecksOf(c)) # {}}
  /\ \A c \in DOMAIN clusters : TruthTable(Raw(ChecksOf(c)))[clusters[c]]

RollupIsFlat == phase \in {"writing", "written"} => TasksAreFlat /\ ClustersAreFlat

(***************************************************************************)
(* A further result never makes the status of its check cleaner, and never *)
(* loses a check: what a bad first repository did to a check, no later     *)
(* good one undoes.                                                        *)
(***************************************************************************)
NeverCleaner ==
  [][\A c \in DOMAIN statusByCheck :
       /\ c \in DOMAIN statusByCheck'
       /\ Outranks(Normal(statusByCheck'[c]), Normal(statusByCheck[c]))]_vars

(***************************************************************************)
(* The exit code and the roll-up, computed from the same results by two    *)
(* unrelated loops, tell the same story: a pack that is written shows a    *)
(* gap at some cluster exactly when a gap was found in a check that some   *)
(* cluster covers, and then the process exits 2; it exits 2 only if there  *)
(* is a gap in the pack.                                                   *)
(***************************************************************************)
Covered == UNION {ChecksOf(c) : c \in Cluster}

GapsReachTheTop ==
  phase = "written" =>
    /\ (\E c \in DOMAIN clusters : clusters[c] \in Gap) <=> Raw(Covered) \cap Gap # {}
    /\ Raw(Covered) \cap Gap # {} => exitCode = 2
    /\ exitCode = 2 => \E j \in DOMAIN results : results[j].status \in Gap
    /\ exitCode # 1

(***************************************************************************)
(* A status that is none of the five is hidden by Rollup (it counts as not *)
(* checkable), so the roll-up alone would not show it; no pack with one is *)
(* ever written.                                                           *)
(***************************************************************************)
OnlyValidIsWritten ==
  phase = "written" => \A j \in DOMAIN results : results[j].status \in Valid

(***************************************************************************)
(* The results of the pack stay sorted although the self-attested ones are *)
(* appended after runCollectors has sorted its own.                        *)
(***************************************************************************)
PackIsSorted == phase \in {"reducing", "writing", "written"} => InOrder(results)

(***************************************************************************)
(* What the header of mappings/cisa-ssda-form.yaml says of a task without  *)
(* contributing results, it counts as not-checkable, so that no cluster    *)
(* above it is cleaner than that.  It is not so: see the README.           *)
(***************************************************************************)
NoEvidenceIsNotVerified ==
  phase = "written" =>
    \A c \in DOMAIN clusters :
      (\E t \in SSDFTasks[c] : Raw(Checks[t]) = {}) => Outranks(clusters[c], "not-checkable")
=============================================================================
