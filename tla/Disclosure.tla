------------------------------ MODULE Disclosure ------------------------------
(***************************************************************************)
(* C10.vdp: where a vulnerability may be reported.  A SECURITY.md is       *)
(* looked for in one place after another, up to the first that has one;    *)
(* what is no file is passed over, and any other answer ends the search    *)
(* (internal/collect/*/vdp).                                               *)
(***************************************************************************)
EXTENDS Survey

\* What is at a path: "mention" is a file that only refers to private reporting as GitHub has it.
Absent == {"none", "folder"}
Content == {"vague", "mention", "channel"}
At == Absent \cup {"unreadable"} \cup Content

Checks == {"security-md", "intake-channel", "private-reporting", "security-policy-org"}

\* What a search through these places, in order, comes upon.
FirstOf(at) ==
  IF \A p \in DOMAIN at : at[p] \in Absent THEN "none"
  ELSE at[CHOOSE p \in DOMAIN at : at[p] \notin Absent /\ \A q \in DOMAIN at : q < p => at[q] \in Absent]

Places(of, n) == {of} \X (1..n)
Answers(of, n) == [p \in 1..n |-> heard[<<of, p>>]]
Over(of, n) == \/ \E p \in 1..n : heard[<<of, p>>] \notin Absent \cup {Unasked}
               \/ \A p \in 1..n : heard[<<of, p>>] \in Absent

Try(of, p, there) ==
  /\ \A q \in 1..(p - 1) : heard[<<of, q>>] \in Absent
  /\ Ask(<<of, p>>, there)

\* A mutant of Resolves: a search that ended in an error found nothing.
ResolvesOrFails(found) == IF found \in Content THEN Pass ELSE Fail

Resolves(found) ==
  CASE found \in Content -> Pass
    [] found = "none"    -> Fail
    [] OTHER             -> NotCheckable

Advertises(found, signals) ==
  CASE found \in signals           -> Pass
    [] found \in Content \ signals -> Partial
    [] found = "none"              -> Fail
    [] OTHER                       -> NotCheckable

\* The rubric of the two checks on the file, given what there is and whether anything was lost.
OfFile(c, s, found, lost, signals) ==
  \/ s = NotCheckable /\ (lost \/ found = "unreadable")
  \/ c = "security-md" /\ s = Pass /\ found \in Content
  \/ s = Fail /\ found = "none"
  \/ /\ c = "intake-channel"
     /\ \/ s = Pass /\ found \in signals
        \/ s = Partial /\ found \in Content \ signals

AnyLost == \E c \in DOMAIN heard : Lost(c)
-----------------------------------------------------------------------------
(***************************************************************************)
(* On GitHub the repository has three places, and then the .github         *)
(* repository of the organisation the same three.                          *)
(***************************************************************************)
GitHubWorlds == [visible : BOOLEAN, own : [1..3 -> At], shared : BOOLEAN, org : [1..3 -> At],
                 reporting : {"on", "off", "gated"}]

GitHubCall == {<<"shared">>, <<"reporting">>}
                \cup Places("policy", 3) \cup Places("own", 3) \cup Places("org", 3)

GitHubInit == InitWith(Settings["github/vdp"], GitHubCall)

\* Of a repository that is not there or not to be seen, every path is absent.
Own(p) == IF world.visible THEN world.own[p] ELSE "none"
Org(p) == IF world.shared THEN world.org[p] ELSE "none"

FindShared == Ask(<<"shared">>, IF world.shared THEN "there" ELSE "absent")
TryPolicy(p) == heard[<<"shared">>] = "there" /\ Try("policy", p, Org(p))
PolicyKnown == heard[<<"shared">>] \in {Failed, "absent"} \/ Over("policy", 3)

TryOwn(p) == PolicyKnown /\ Try("own", p, Own(p))
TryOrg(p) == (\A q \in 1..3 : heard[<<"own", q>>] \in Absent) /\ Try("org", p, Org(p))
Searched == (\E q \in 1..3 : heard[<<"own", q>>] \notin Absent \cup {Unasked}) \/ Over("org", 3)

AskReporting == Searched /\ Ask(<<"reporting">>, world.reporting)

\* A mutant of Resolved: the organisation's file is not looked for.
ResolvedInRepo == FirstOf(Answers("own", 3))

Resolved ==
  LET own == FirstOf(Answers("own", 3))
  IN IF own = "none" THEN FirstOf(Answers("org", 3)) ELSE own

PrivateReporting ==
  CASE heard[<<"reporting">>] = "on"  -> Pass
    [] heard[<<"reporting">>] = "off" -> Fail
    [] OTHER                          -> NotCheckable

\* A mutant of PolicyOrg: without a .github repository there is no policy.
PolicyOrgOrFail ==
  IF heard[<<"shared">>] = Failed THEN NotCheckable
  ELSE IF heard[<<"shared">>] = "absent" THEN Fail
  ELSE Resolves(FirstOf(Answers("policy", 3)))

PolicyOrg ==
  IF heard[<<"shared">>] # "there" THEN NotCheckable ELSE Resolves(FirstOf(Answers("policy", 3)))

GitHubDecide ==
  /\ Heard({<<"reporting">>})
  /\ Emit([c \in Checks |->
       CASE c = "security-md"         -> Resolves(Resolved)
         [] c = "intake-channel"      -> Advertises(Resolved, {"mention", "channel"})
         [] c = "private-reporting"   -> PrivateReporting
         [] c = "security-policy-org" -> PolicyOrg])

GitHubNext ==
  \/ FindShared \/ AskReporting \/ GitHubDecide
  \/ \E p \in 1..3 : TryPolicy(p) \/ TryOwn(p) \/ TryOrg(p)

GitHubTypeOK == SurveyTypeOK(GitHubWorlds, GitHubCall, Checks)

GitHubRubric(c, s) ==
  LET own  == FirstOf([p \in 1..3 |-> Own(p)])
      org  == FirstOf([p \in 1..3 |-> Org(p)])
      lost == \E p \in 1..3 : Lost(<<"own", p>>) \/ Lost(<<"org", p>>)
  IN \/ /\ c \in {"security-md", "intake-channel"}
        /\ OfFile(c, s, IF own = "none" THEN org ELSE own, lost, {"mention", "channel"})
     \/ /\ c = "private-reporting"
        /\ \/ s = Pass /\ world.reporting = "on"
           \/ s = Fail /\ world.reporting = "off"
           \/ s = NotCheckable /\ (Lost(<<"reporting">>) \/ world.reporting = "gated")
     \/ /\ c = "security-policy-org"
        /\ \/ s = Pass /\ world.shared /\ org \in Content
           \/ s = Fail /\ world.shared /\ org = "none"
           \/ /\ s = NotCheckable
              /\ ~world.shared \/ org = "unreadable" \/ Lost(<<"shared">>) \/ \E p \in 1..3 : Lost(<<"policy", p>>)

GitHubRubricHolds == status # Undecided => \A c \in Checks : GitHubRubric(c, status[c])
-----------------------------------------------------------------------------
(***************************************************************************)
(* Elsewhere there is only the repository, nothing to report in private    *)
(* with, and no default of the organisation.  A collection may be          *)
(* cancelled before its turn comes (the call "turn").                      *)
(***************************************************************************)
Unsupported == {"private-reporting", "security-policy-org"}

Only(found) ==
  [c \in Checks |->
     CASE c = "security-md"    -> Resolves(found)
       [] c = "intake-channel" -> Advertises(found, {"channel"})
       [] c \in Unsupported    -> NotCheckable]

OnlyRubric(c, s, found) ==
  \/ c \in Unsupported /\ s = NotCheckable
  \/ c \notin Unsupported /\ OfFile(c, s, found, AnyLost, {"channel"})

\* On Azure DevOps an invisible repository and an absent file look the same.
AzureWorlds == [visible : BOOLEAN, own : [1..2 -> At]]
AzureCall == {<<"turn">>} \cup Places("own", 2)
AzureInit == InitWith(Settings["azuredevops/vdp"], AzureCall)

AzureTurn == Ask(<<"turn">>, TRUE)
AzureTry(p) == Got(<<"turn">>) /\ Try("own", p, Own(p))
AzureFound == IF Lost(<<"turn">>) THEN Failed ELSE FirstOf(Answers("own", 2))
AzureDecide == (Lost(<<"turn">>) \/ Over("own", 2)) /\ Emit(Only(AzureFound))

AzureNext == AzureTurn \/ AzureDecide \/ \E p \in 1..2 : AzureTry(p)
AzureTypeOK == SurveyTypeOK(AzureWorlds, AzureCall, Checks)

AzureRubric(c, s) == OnlyRubric(c, s, FirstOf([p \in 1..2 |-> Own(p)]))
AzureRubricHolds == status # Undecided => \A c \in Checks : AzureRubric(c, status[c])
-----------------------------------------------------------------------------
(***************************************************************************)
(* On GitLab the project is read first, for its default branch, so that an *)
(* invisible one is an error; the file API knows no folders.               *)
(***************************************************************************)
GitLabWorlds == [visible : BOOLEAN, own : [1..2 -> At \ {"folder"}]]
GitLabCall == {<<"client">>, <<"project">>} \cup Places("own", 2)
GitLabInit == InitWith(Settings["gitlab/vdp"], GitLabCall)

NewClient == Ask(<<"client">>, TRUE)
ReadProject == Got(<<"client">>) /\ Ask(<<"project">>, IF world.visible THEN "visible" ELSE "invisible")
GitLabTry(p) == heard[<<"project">>] = "visible" /\ Try("own", p, world.own[p])

ProjectLost == Lost(<<"client">>) \/ heard[<<"project">>] \in {Failed, "invisible"}
\* A mutant of GitLabFound: a project that is not there has no file.
GitLabFoundOrNone ==
  IF heard[<<"project">>] = "invisible" THEN "none"
  ELSE IF ProjectLost THEN Failed ELSE FirstOf(Answers("own", 2))

GitLabFound == IF ProjectLost THEN Failed ELSE FirstOf(Answers("own", 2))
GitLabDecide == (ProjectLost \/ Over("own", 2)) /\ Emit(Only(GitLabFound))

GitLabNext == NewClient \/ ReadProject \/ GitLabDecide \/ \E p \in 1..2 : GitLabTry(p)
GitLabTypeOK == SurveyTypeOK(GitLabWorlds, GitLabCall, Checks)

GitLabRubric(c, s) ==
  \/ ~world.visible /\ s = NotCheckable
  \/ world.visible /\ OnlyRubric(c, s, FirstOf(world.own))

GitLabRubricHolds == status # Undecided => \A c \in Checks : GitLabRubric(c, status[c])
-----------------------------------------------------------------------------
\* On Gogs there are the three places of GitHub, in the repository alone.
GogsWorlds == [visible : BOOLEAN, own : [1..3 -> At]]
GogsCall == {<<"turn">>, <<"client">>} \cup Places("own", 3)
GogsInit == InitWith(Settings["gogs/vdp"], GogsCall)

GogsTurn == Ask(<<"turn">>, TRUE)
GogsClient == Got(<<"turn">>) /\ Ask(<<"client">>, TRUE)
GogsTry(p) == Got(<<"client">>) /\ Try("own", p, Own(p))

NoTurn == Lost(<<"turn">>) \/ Lost(<<"client">>)
GogsFound == IF NoTurn THEN Failed ELSE FirstOf(Answers("own", 3))
GogsDecide == (NoTurn \/ Over("own", 3)) /\ Emit(Only(GogsFound))

GogsNext == GogsTurn \/ GogsClient \/ GogsDecide \/ \E p \in 1..3 : GogsTry(p)
GogsTypeOK == SurveyTypeOK(GogsWorlds, GogsCall, Checks)

GogsRubric(c, s) == OnlyRubric(c, s, FirstOf([p \in 1..3 |-> Own(p)]))
GogsRubricHolds == status # Undecided => \A c \in Checks : GogsRubric(c, status[c])
=============================================================================
