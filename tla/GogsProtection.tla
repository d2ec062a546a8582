--------------------------- MODULE GogsProtection ----------------------------
(***************************************************************************)
(* C02.repo-protection on Gogs: the web interface can protect a branch but *)
(* no API tells of it, so no check is ever answered; what is read is only  *)
(* for the reason and the facts (internal/collect/gogs/repoprotection).    *)
(***************************************************************************)
EXTENDS BranchChecks

\* listed: the default branch is in the repository's own list of branches.
World == [empty : BOOLEAN, listed : BOOLEAN, protected : BOOLEAN]

Call == {"repository", "branches", "collaborators"}

Init == InitWith(World, Call)

FetchRepo == Get("repository", world.empty)

FetchBranches ==
  /\ Got("repository") /\ ~heard["repository"]
  /\ Get("branches", world.listed)

\* A failure only leaves a fact out.
FetchCollaborators ==
  /\ Got("branches") /\ heard["branches"]
  /\ Get("collaborators", TRUE)

\* A mutant of PlatformLimitation: what the API does not show is taken not to be.
PlatformLimitationAsAbsence ==
  /\ heard["collaborators"] # Unasked
  /\ Emit([c \in Check |-> Fail])

PlatformLimitation ==
  /\ heard["collaborators"] # Unasked
  /\ Emit(AllNotCheckable)

GiveUp ==
  /\ \/ Failed \in {heard["repository"], heard["branches"]}
     \/ heard["repository"] = TRUE
     \/ heard["branches"] = FALSE
  /\ Emit(AllNotCheckable)

Edit == Change({[world EXCEPT !.protected = ~@], [world EXCEPT !.empty = FALSE]})

Next ==
  \/ FetchRepo \/ FetchBranches \/ FetchCollaborators
  \/ PlatformLimitation \/ GiveUp \/ Edit

Spec == Init /\ [][Next]_vars
-----------------------------------------------------------------------------
TypeOK == Typed(World, Call)

\* Nothing is verified that was not so: here, nothing at all can be.
VerifiedIsTrue ==
  \A c \in Check :
    /\ Is(c, Pass) => \E w \in seen : w.protected
    /\ Is(c, Fail) => \E w \in seen : ~w.protected
=============================================================================
