---------------------------- MODULE AzureProvenance ---------------------------
(***************************************************************************)
(* C07.provenance on Azure DevOps: two checks have evidence, pipelines     *)
(* that write provenance and builds of the commits that were released.     *)
(* Pipelines and tags are read as for C05.sast-history; builds of all      *)
(* pipelines are asked for, from some time before the oldest release       *)
(* looked at (internal/collect/azuredevops/provenance).                    *)
(***************************************************************************)
EXTENDS AzureSast, Survey

CONSTANT Grace \* commitLinkageBuildGraceWindow

Worlds == [found : BOOLEAN, pipeline : [Tool -> Pipeline], history : History]

Checks == {"tags-signed", "checksums", "signatures", "workflow", "commit-linkage"}

ProvCall == Call \ {<<"setup">>}

ProvInit == InitWith(Settings["azuredevops/provenance"], ProvCall)

\* The oldest of them has the same date whichever are chosen.
Oldest == CHOOSE d \in {date[r] : r \in Resolved} :
            \E S \in Selections(Resolved, date) : d \in {date[r] : r \in S} /\ \A r \in S : d <= date[r]

SearchStart == IF Oldest > Grace THEN Oldest - Grace ELSE 0

FetchAllBuilds ==
  /\ Got(<<"releases">>) /\ Dated /\ Recent(Resolved, date) # {}
  /\ Get(<<"builds">>, {x \in world.history.runs : x.at >= SearchStart})

Workflow == ToolVerdict(Matched, Strong, Skipped)

Unlinked(S) == {r \in S : \A x \in runs : x.commit # r.commit}

\* A mutant of CommitLinkage: what could not be dated is forgotten.
CommitLinkageOfDated(S) ==
  IF S = {} THEN NotCheckable
  ELSE IF BuildsLost THEN NotCheckable
  ELSE IF Unlinked(S) # {} THEN Fail
  ELSE Pass

CommitLinkage(S) ==
  IF S = {} THEN (IF Dropped # {} THEN Partial ELSE NotCheckable)
  ELSE IF BuildsLost THEN NotCheckable
  ELSE IF Unlinked(S) # {} THEN Fail
  ELSE IF Dropped # {} THEN Partial
  ELSE Pass

\* Azure DevOps verifies no tags and its releases ship no assets.
Fixed == NotCheckable

NoEvidence ==
  \/ Lost(<<"repositories">>) \/ Lost(<<"pipelines">>) \/ Lost(<<"releases">>)
  \/ Inspected /\ ~heard[<<"repositories">>]

ProvDecide ==
  \/ NoEvidence /\ Emit(Nothing(Checks))
  \/ /\ Got(<<"releases">>) /\ Dated
     /\ Recent(Resolved, date) # {} => Heard({<<"builds">>})
     /\ \E S \in Selections(Resolved, date) :
          Emit([c \in Checks |-> CASE c = "workflow"       -> Workflow
                                   [] c = "commit-linkage" -> CommitLinkage(S)
                                   [] OTHER                -> Fixed])

ProvNext ==
  /\ \/ ReadRepositories \/ ListPipelines \/ ListTags \/ FetchAllBuilds \/ ProvDecide
     \/ \E t \in Tool : FetchDefinition(t) \/ FetchFile(t)
     \/ \E r \in Release : FetchAnnotation(r) \/ FetchCommit(r)
  /\ FewFailures'

ProvSpec == ProvInit /\ [][ProvNext]_vars
-----------------------------------------------------------------------------
ProvTypeOK == SurveyTypeOK(Worlds, ProvCall, Checks)

Built(r) == \E x \in world.history.runs : x.commit = r.commit
BuiltLately(r) == \E x \in world.history.runs : x.commit = r.commit /\ x.at >= SearchStart

\* The pipelines of this repository that could not be read, and those that speak for no tool.
Unread == {t \in Tool : world.pipeline[t].repository = "this" /\ Lost(<<"definition", t>>)}
Vouched == {t \in Tool : world.pipeline[t].repository = "this" =>
                            t \notin Unread /\ Plain(world, t) /\ t \notin Scanners(world)}

\* The rubrics: what the project publishes of each status.
Rubric(c, s) ==
  \/ s = NotCheckable /\ (NoEvidence \/ c \in {"tags-signed", "checksums", "signatures"})
  \/ /\ c = "workflow"
     /\ \/ s = Pass /\ \E t \in Scanners(world) : world.pipeline[t].file = "strong"
        \/ s = Partial /\ Scanners(world) # {}
        \/ s = Fail /\ Tool \subseteq Vouched
        \/ s = NotCheckable /\ Skipped # {} /\ Scanners(world) \cap Read = {}
  \/ /\ c = "commit-linkage"
     /\ \/ s = Pass /\ Dropped = {} /\ \E S \in Selections(world.history.releases, date) : \A r \in S : Built(r)
        \/ s = Partial /\ Dropped # {}
                       /\ \E S \in Selections(Resolved, date) : \A r \in S : Built(r)
        \/ s = Fail /\ \E r \in Recent(world.history.releases, date) : ~BuiltLately(r)
        \/ s = NotCheckable /\ (BuildsLost \/ (Dropped = {} /\ Recent(world.history.releases, date) = {}))

(***************************************************************************)
(* Where the code departs from them: a definition that cannot be read has  *)
(* no repository, is taken for another one's, and is not missed.           *)
(***************************************************************************)
Deviates(c, s) == c = "workflow" /\ s = Fail /\ Unread # {} /\ Tool \ Unread \subseteq Vouched

Accounted(c, s) == Rubric(c, s) \/ Deviates(c, s)

AccountedFor == status # Undecided => \A c \in Checks : Accounted(c, status[c])
=============================================================================
