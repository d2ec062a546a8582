---------------------------- MODULE MCCollectors -----------------------------
(***************************************************************************)
(* The settings: on GitHub one ruleset besides the legacy protection; on   *)
(* Azure DevOps policies that differ in one thing each; on GitLab an exact *)
(* rule and patterns that overlap with it.                                 *)
(***************************************************************************)
EXTENDS Collectors

CONSTANTS main, dev, r1

Exact(b) == [repository |-> "this", matchKind |-> "Exact", equals |-> b, begins |-> {b}]
EveryDefault == [repository |-> "any", matchKind |-> "DefaultBranch", equals |-> NoBranch, begins |-> Branch]
Elsewhere == [repository |-> "other", matchKind |-> "Prefix", equals |-> NoBranch, begins |-> Branch]
StartsLikeDev == [repository |-> "any", matchKind |-> "Prefix", equals |-> NoBranch, begins |-> {dev}]

Reviewers == [type |-> "reviewers", enabled |-> TRUE, deleted |-> FALSE, blocking |-> TRUE,
              approvers |-> 1, creatorVotes |-> FALSE, scope |-> {Exact(main)}]
Build == [Reviewers EXCEPT !.type = "build", !.approvers = 0]

MCPolicy == {Reviewers,
  [Reviewers EXCEPT !.blocking = FALSE],
  [Reviewers EXCEPT !.creatorVotes = TRUE],
  [Reviewers EXCEPT !.deleted = TRUE],
  [Reviewers EXCEPT !.scope = {StartsLikeDev}],
  [Reviewers EXCEPT !.scope = {Elsewhere}, !.approvers = 2],
  [Build EXCEPT !.scope = {EveryDefault}],
  [Build EXCEPT !.blocking = FALSE, !.scope = {Elsewhere, Exact(main)}]}

MCRule == {[covers |-> {main}, allowForcePush |-> FALSE],
           [covers |-> {main, dev}, allowForcePush |-> TRUE],
           [covers |-> {main, dev}, allowForcePush |-> FALSE],
           [covers |-> {dev}, allowForcePush |-> TRUE]}

(***************************************************************************)
(* The pasts: the window opens at 2, two releases are looked at, and       *)
(* besides the two ordinary ones there is one from before the window, one  *)
(* too many, one of the same date as another, and one with a name that is  *)
(* not a release's.  The commit of v1 is older than the window.            *)
(***************************************************************************)
CONSTANTS t1, t2

v0 == [named |-> TRUE, commit |-> "a", at |-> 1, annotated |-> FALSE, committed |-> 1]
v1 == [named |-> TRUE, commit |-> "a", at |-> 3, annotated |-> TRUE, committed |-> 1]
v2 == [named |-> TRUE, commit |-> "b", at |-> 5, annotated |-> FALSE, committed |-> 5]
v2twin == [v2 EXCEPT !.commit = "c"]
v3 == [named |-> TRUE, commit |-> "c", at |-> 6, annotated |-> TRUE, committed |-> 6]
nightly == [v2 EXCEPT !.named = FALSE]

Ran(t, c, onTrunk, ok, when) == [tool |-> t, commit |-> c, trunk |-> onTrunk, success |-> ok, at |-> when]

Old == Ran(t1, "z", TRUE, TRUE, 1)
Early == Ran(t1, "z", TRUE, TRUE, 3)
Late == Ran(t2, "b", FALSE, TRUE, 5)
Broken == Ran(t1, "y", TRUE, FALSE, 4)
ByItself == Ran(CodeQL, "y", TRUE, TRUE, 4)

MCRelease == {v0, v1, v2, v2twin, v3, nightly}
MCRun == {Old, Early, Late, Broken, ByItself}

Past(releases, runs) == [releases |-> releases, runs |-> runs]
MCHistory == {Past({}, {Early}), Past({nightly}, {Late}),
  Past({v0, v2}, {Old}), Past({v0, v2}, {Late}),
  Past({v1, v2}, {Early, Late}), Past({v1, v2}, {Early, Broken}), Past({v1, v2}, {Early, ByItself}),
  Past({v1, v2}, {Broken}), Past({v1, v2, v3}, {Early, Broken}), Past({v2, v2twin}, {Early}),
  Past({v1}, {Late, ByItself})}

OwnYAML == [repository |-> "this", process |-> "yaml", file |-> "strong", template |-> FALSE]
MCPipeline == {OwnYAML, [OwnYAML EXCEPT !.file = "weak"], [OwnYAML EXCEPT !.file = "none"],
  [OwnYAML EXCEPT !.file = "none", !.template = TRUE], [OwnYAML EXCEPT !.process = "pathless"],
  [OwnYAML EXCEPT !.process = "classic"], [OwnYAML EXCEPT !.repository = "other"]}

\* GitLab: j1 was created before j0 and finished after it.
Done(i, t, c, ok, when) == [id |-> i, tool |-> t, commit |-> c, success |-> ok, finished |-> TRUE,
                            at |-> when, report |-> FALSE]
j0 == Done(2, t2, "z", TRUE, 1)
j1 == Done(1, t1, "a", TRUE, 3)
j2 == Done(3, t1, "b", TRUE, 4)
j3 == Done(4, t1, "b", FALSE, 4)
j4 == [Done(5, t2, "a", TRUE, 5) EXCEPT !.report = TRUE]
j5 == [Done(6, t1, "a", TRUE, 6) EXCEPT !.finished = FALSE]
j6 == Done(7, t2, "z", TRUE, 6)
MCJob == {j0, j1, j2, j3, j4, j5, j6}
MCJobHistory == [releases : {{}, {v1}, {v1, v2}, {v0, v2, v3}}, jobs : SUBSET MCJob]
=============================================================================
