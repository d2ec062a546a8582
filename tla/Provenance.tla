------------------------------ MODULE Provenance ------------------------------
\* C07.provenance on GitHub and GitLab: what comes with a release, and what it was built from.
EXTENDS RunHistory, Survey

CONSTANT MaxLookups \* maxAttestationLookupsPerRelease

(***************************************************************************)
(* C07.provenance on GitHub: are the tags of the recent releases signed,   *)
(* do the releases ship checksums and signatures, is there a tool that     *)
(* writes provenance, and did anything run on the commit that was          *)
(* released?  The releases are narrowed to the recent ones before their    *)
(* tags are resolved; attestations are looked up only for a release        *)
(* without a signature among its assets, and for a few of its digests      *)
(* (internal/collect/github/provenance).                                   *)
(***************************************************************************)

\* What a release ships; of its digests, in order, whether there is an attestation.
Assets == [checksum : BOOLEAN, signature : BOOLEAN, attested : UNION {[1..n -> BOOLEAN] : n \in 0..MaxLookups + 1}]

GitHubWorlds == [workflow : UNION {[T -> Evidence] : T \in SUBSET Tool}, releases : SUBSET Release,
                 asset : [Release -> Assets], verified : SUBSET Release, built : SUBSET STRING]

Checks == {"tags-signed", "checksums", "signatures", "workflow", "commit-linkage"}

GitHubCall == {<<"repository">>, <<"workflows">>, <<"releases">>}
   \cup {<<"file", t>> : t \in Tool} \cup ({"ref", "tag", "runs"} \X Release)
   \cup ({"attestation"} \X Release \X (1..MaxLookups))

GitHubInit == InitWith(Settings["github/provenance"], GitHubCall)

date == [r \in Release |-> r.at]

ReadRepository == Ask(<<"repository">>, TRUE)
ListWorkflows == Got(<<"repository">>) /\ Ask(<<"workflows">>, DOMAIN world.workflow)

Listed == heard[<<"workflows">>]

ReadFile(t) == Got(<<"workflows">>) /\ t \in Listed /\ Ask(<<"file", t>>, world.workflow[t])

\* FetchReleases and FilterReleasesInLookback: what is listed is narrowed at once.
GitHubListReleases ==
  /\ Got(<<"workflows">>) /\ Heard({<<"file", t>> : t \in Listed})
  /\ \E S \in Selections(world.releases, date) : Ask(<<"releases">>, S)

GitHubRecents == IF Got(<<"releases">>) THEN heard[<<"releases">>] ELSE {}

\* What is known of a tag from its reference: whether there is an annotation to fetch.
ReadRef(r) == r \in GitHubRecents /\ Ask(<<"ref", r>>, r.annotated)
ReadTag(r) == Got(<<"ref", r>>) /\ heard[<<"ref", r>>] /\ Ask(<<"tag", r>>, r \in world.verified)

Resolvable(r) == Got(<<"ref", r>>) /\ (heard[<<"ref", r>>] => Got(<<"tag", r>>))
TagRead(r) == Resolvable(r) \/ Lost(<<"ref", r>>) \/ Lost(<<"tag", r>>)

(***************************************************************************)
(* hasAnyAttestation: one digest after the other, up to the first that is  *)
(* attested or to the limit; the answer that failed is passed over.        *)
(***************************************************************************)
Digests(r) == {k \in 1..MaxLookups : k \in DOMAIN world.asset[r].attested}
Attested(r) == \E k \in 1..MaxLookups : Got(<<"attestation", r, k>>) /\ heard[<<"attestation", r, k>>]

LookUp(r, k) ==
  /\ r \in GitHubRecents /\ \A q \in GitHubRecents : TagRead(q)
  /\ ~world.asset[r].signature /\ k \in Digests(r) /\ ~Attested(r)
  /\ Heard({<<"attestation", r, i>> : i \in 1..k - 1})
  /\ Ask(<<"attestation", r, k>>, world.asset[r].attested[k])

LookedUp(r) == world.asset[r].signature \/ Attested(r) \/ Heard({<<"attestation", r, k>> : k \in Digests(r)})

ReadRuns(r) ==
  /\ r \in GitHubRecents /\ Resolvable(r)
  /\ \A q \in GitHubRecents : TagRead(q) /\ LookedUp(q)
  /\ Ask(<<"runs", r>>, r.commit \in world.built)
-----------------------------------------------------------------------------
Matched == {t \in Tool : Got(<<"file", t>>) /\ heard[<<"file", t>>] # "none"}
Strong == \E t \in Matched : heard[<<"file", t>>] = "strong"
Skipped == {t \in Tool : Lost(<<"file", t>>)}

Verdict(known, good) == IF ~known THEN "unresolved" ELSE IF good THEN "passed" ELSE "failed"

GitHubTagsSigned ==
  RollUp([r \in GitHubRecents |-> Verdict(Resolvable(r), heard[<<"ref", r>>] = TRUE /\ heard[<<"tag", r>>] = TRUE)])

GitHubChecksums == RollUp([r \in GitHubRecents |-> Verdict(TRUE, world.asset[r].checksum)])

Signed(r) == world.asset[r].signature \/ Attested(r)
LookupLost(r) == \E k \in 1..MaxLookups : Lost(<<"attestation", r, k>>)

\* A mutant of GitHubSignatures: a lookup that failed found nothing.
SignaturesWithoutErrors == RollUp([r \in GitHubRecents |-> Verdict(TRUE, Signed(r))])

GitHubSignatures == RollUp([r \in GitHubRecents |-> Verdict(Signed(r) \/ ~LookupLost(r), Signed(r))])

Workflow == ToolVerdict(Matched, Strong, Skipped)

CommitLinkage ==
  RollUp([r \in GitHubRecents |-> Verdict(Got(<<"runs", r>>), heard[<<"runs", r>>] = TRUE)])

GiveUp == Lost(<<"repository">>) \/ Lost(<<"workflows">>) \/ Lost(<<"releases">>)

GitHubDecide ==
  \/ GiveUp /\ Emit(Nothing(Checks))
  \/ /\ Got(<<"releases">>)
     /\ \A r \in GitHubRecents : TagRead(r) /\ LookedUp(r) /\ (Resolvable(r) => Heard({<<"runs", r>>}))
     /\ Emit([c \in Checks |->
          CASE c = "tags-signed"    -> GitHubTagsSigned
            [] c = "checksums"      -> GitHubChecksums
            [] c = "signatures"     -> GitHubSignatures
            [] c = "workflow"       -> Workflow
            [] c = "commit-linkage" -> CommitLinkage])

GitHubNext ==
  \/ ReadRepository \/ ListWorkflows \/ GitHubListReleases
  \/ \E t \in Tool : ReadFile(t)
  \/ \E r \in Release : ReadRef(r) \/ ReadTag(r) \/ ReadRuns(r) \/ \E k \in 1..MaxLookups : LookUp(r, k)
  \/ GitHubDecide

GitHubSpec == GitHubInit /\ [][GitHubNext]_vars
-----------------------------------------------------------------------------
GitHubTypeOK == SurveyTypeOK(GitHubWorlds, GitHubCall, Checks)

Tools == {t \in DOMAIN world.workflow : world.workflow[t] # "none"}

\* Some choice of recent releases makes it true.
Of(Claim(_)) == \E S \in Selections(world.releases, date) : S # {} /\ Claim(S)

Genuine(r) == r.annotated /\ r \in world.verified
AttestedAtAll(r) == \E k \in DOMAIN world.asset[r].attested : world.asset[r].attested[k]
Traceable(r) == r.commit \in world.built

NoRelease == Lost(<<"releases">>) \/ Recent(world.releases, date) = {}

\* The rubrics: what the project publishes of each status.
GitHubRubric(c, s) ==
  \/ s = NotCheckable /\ (GiveUp \/ (c # "workflow" /\ NoRelease))
  \/ /\ c = "tags-signed"
     /\ LET All(S) == \A r \in S : Genuine(r)
            Some(S) == \E r \in S : Resolvable(r) /\ ~Genuine(r)
            Rest(S) == \E r \in S : ~Resolvable(r) /\ \A q \in S : Resolvable(q) => Genuine(q)
        IN \/ s = Pass /\ Of(All)
           \/ s = Fail /\ Of(Some)
           \/ s = Partial /\ Of(Rest)
  \/ /\ c = "checksums"
     /\ LET All(S) == \A r \in S : world.asset[r].checksum
            Some(S) == \E r \in S : ~world.asset[r].checksum
        IN \/ s = Pass /\ Of(All)
           \/ s = Fail /\ Of(Some)
  \/ /\ c = "signatures"
     /\ LET All(S) == \A r \in S : world.asset[r].signature \/ AttestedAtAll(r)
            Some(S) == \E r \in S : ~world.asset[r].signature /\ ~AttestedAtAll(r) /\ ~LookupLost(r)
            Rest(S) == /\ \E r \in S : LookupLost(r)
                       /\ \A r \in S : LookupLost(r) \/ world.asset[r].signature \/ AttestedAtAll(r)
        IN \/ s = Pass /\ Of(All)
           \/ s = Fail /\ Of(Some)
           \/ s = Partial /\ Of(Rest)
  \/ /\ c = "workflow"
     /\ \/ s = Pass /\ \E t \in Tools : world.workflow[t] = "strong"
        \/ s = Partial /\ Tools # {}
        \/ s = Fail /\ Tools = {} /\ Skipped = {}
        \/ s = NotCheckable /\ Skipped # {} /\ Tools \subseteq Skipped
  \/ /\ c = "commit-linkage"
     /\ LET All(S) == \A r \in S : Traceable(r)
            Unknown(r) == Lost(<<"runs", r>>) \/ ~Resolvable(r)
            Some(S) == \E r \in S : Got(<<"runs", r>>) /\ ~Traceable(r)
            Rest(S) == (\E r \in S : Unknown(r)) /\ \A r \in S : Unknown(r) \/ Traceable(r)
        IN \/ s = Pass /\ Of(All)
           \/ s = Fail /\ Of(Some)
           \/ s = Partial /\ Of(Rest)

(***************************************************************************)
(* Where the code departs from them: a release whose first digests are not *)
(* attested fails, though a later one, which is never asked about, be.     *)
(***************************************************************************)
AttestedBeyond(r) ==
  /\ ~world.asset[r].signature /\ ~LookupLost(r)
  /\ \A k \in Digests(r) : ~world.asset[r].attested[k]
  /\ AttestedAtAll(r)

GitHubDeviates(c, s) ==
  LET Beyond(S) == \E r \in S : AttestedBeyond(r)
  IN c = "signatures" /\ s = Fail /\ Of(Beyond)

GitHubAccounted(c, s) == GitHubRubric(c, s) \/ GitHubDeviates(c, s)

GitHubRubricHolds == status # Undecided => \A c \in Checks : GitHubRubric(c, status[c])
GitHubAccountedFor == status # Undecided => \A c \in Checks : GitHubAccounted(c, status[c])
-----------------------------------------------------------------------------
(***************************************************************************)
(* C07.provenance on GitLab: the releases with their assets come in one    *)
(* listing, the signature of each recent tag by a call of its own, where   *)
(* "not found" means unsigned (internal/collect/gitlab/provenance).        *)
(***************************************************************************)

Shipped == [checksum : BOOLEAN, signature : BOOLEAN]

\* What GitLab says of the signature of a tag: nothing in it, or that there is none.
Signature == {"verified", "unverified", "blank", "404"}

GitLabWorlds == [releases : SUBSET Release, asset : [Release -> Shipped], signature : [Release -> Signature]]


GitLabCall == {<<"client">>, <<"releases">>} \cup ({"signature"} \X Release)

GitLabInit == InitWith(Settings["gitlab/provenance"], GitLabCall)


NewClient == Ask(<<"client">>, TRUE)

GitLabListReleases ==
  /\ Got(<<"client">>)
  /\ \E S \in Selections(world.releases, date) : Ask(<<"releases">>, S)

GitLabRecents == IF Got(<<"releases">>) THEN heard[<<"releases">>] ELSE {}

ReadSignature(r) == r \in GitLabRecents /\ Ask(<<"signature", r>>, world.signature[r])
-----------------------------------------------------------------------------
\* A mutant of GitLabTagsSigned: an answer without a status is one that is not "verified".
TagsSignedIfBlank ==
  RollUp([r \in GitLabRecents |-> CASE heard[<<"signature", r>>] = "verified" -> "passed"
                                    [] heard[<<"signature", r>>] = Failed     -> "unresolved"
                                    [] OTHER                                  -> "failed"])

GitLabTagsSigned ==
  RollUp([r \in GitLabRecents |-> CASE heard[<<"signature", r>>] = "verified"        -> "passed"
                                    [] heard[<<"signature", r>>] \in {"blank", Failed} -> "unresolved"
                                    [] OTHER                                         -> "failed"])

GitLabChecksums == RollUp([r \in GitLabRecents |-> IF world.asset[r].checksum THEN "passed" ELSE "failed"])
GitLabSignatures == RollUp([r \in GitLabRecents |-> IF world.asset[r].signature THEN "passed" ELSE "failed"])

\* A GitLab release names neither what built it nor with which tool.
Unlinked == NotCheckable

GitLabDecide ==
  \/ (Lost(<<"client">>) \/ Lost(<<"releases">>)) /\ Emit(Nothing(Checks))
  \/ /\ Got(<<"releases">>) /\ Heard({<<"signature", r>> : r \in GitLabRecents})
     /\ Emit([c \in Checks |->
          CASE c = "tags-signed" -> GitLabTagsSigned
            [] c = "checksums"   -> GitLabChecksums
            [] c = "signatures"  -> GitLabSignatures
            [] OTHER             -> Unlinked])

GitLabNext ==
  \/ NewClient \/ GitLabListReleases \/ GitLabDecide
  \/ \E r \in Release : ReadSignature(r)

GitLabSpec == GitLabInit /\ [][GitLabNext]_vars
-----------------------------------------------------------------------------
GitLabTypeOK == SurveyTypeOK(GitLabWorlds, GitLabCall, Checks)


GitLabRubric(c, s) ==
  \/ s = NotCheckable /\ \/ c \in {"workflow", "commit-linkage"}
                         \/ Lost(<<"client">>) \/ Lost(<<"releases">>) \/ Recent(world.releases, date) = {}
  \/ /\ c = "tags-signed"
     /\ LET All(S) == \A r \in S : world.signature[r] = "verified"
            Some(S) == \E r \in S : world.signature[r] \in {"unverified", "404"}
            Rest(S) == /\ \E r \in S : Lost(<<"signature", r>>) \/ world.signature[r] = "blank"
                       /\ \A r \in S : Got(<<"signature", r>>) => world.signature[r] \in {"verified", "blank"}
        IN \/ s = Pass /\ Of(All)
           \/ s = Fail /\ Of(Some)
           \/ s = Partial /\ Of(Rest)
  \/ /\ c \in {"checksums", "signatures"}
     /\ LET Has(r) == IF c = "checksums" THEN world.asset[r].checksum ELSE world.asset[r].signature
            All(S) == \A r \in S : Has(r)
            Some(S) == \E r \in S : ~Has(r)
        IN \/ s = Pass /\ Of(All)
           \/ s = Fail /\ Of(Some)

GitLabRubricHolds == status # Undecided => \A c \in Checks : GitLabRubric(c, status[c])
=============================================================================
