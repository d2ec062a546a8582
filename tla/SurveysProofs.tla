---------------------------- MODULE SurveysProofs -----------------------------
(***************************************************************************)
(* The statuses of the collectors of the other themes follow their         *)
(* rubrics, whatever the settings, the pages, the environments and the     *)
(* calls that fail.  The argument is the same for each: the answers in     *)
(* hand are the true ones, given in the order of the calls (...Heard), so  *)
(* that each verdict on them is one the rubric accounts for (...Verdicts); *)
(* a status once emitted stays, and so do the settings.                    *)
(***************************************************************************)
EXTENDS Surveys, FiniteSetTheorems, TLAPS

\* What a call may have been answered, or not, when these are the true answers.
Outcomes(answers) == {Unasked, Failed} \cup answers

Statuses == {Pass, Fail, Partial, NotCheckable}

\* The answer to one call: what was answered before stays.
LEMMA Answer ==
  ASSUME NEW c \in DOMAIN heard, NEW a, Get(c, a)
  PROVE  /\ heard[c] = Unasked /\ heard'[c] \in {a, Failed} /\ DOMAIN heard' = DOMAIN heard
         /\ \A d \in DOMAIN heard : heard'[d] = IF d = c THEN heard'[c] ELSE heard[d]
         /\ \A d \in DOMAIN heard : heard[d] # Unasked => heard'[d] = heard[d] /\ d # c
         /\ status = Undecided /\ UNCHANGED <<world, status, seen>>
BY DEF Get
-----------------------------------------------------------------------------
(* C01.org-security: on GitHub. *)
GitHubC01Page(p) == [anyone |-> world.without[p], last |-> p = world.last]
GitHubC01Order(p) ==
  /\ Got(<<"org">>)
  /\ \A q \in Pages : q < p => Got(<<"members", q>>) /\ ~heard[<<"members", q>>].last

GitHubC01Heard ==
  /\ heard[<<"org">>] \in Outcomes({world.org})
  /\ \A p \in Pages : heard[<<"members", p>>] \in Outcomes({GitHubC01Page(p)})
  /\ \A p \in Pages : heard[<<"members", p>>] # Unasked => GitHubC01Order(p)

GitHubC01Inv == C01!GitHubTypeOK /\ GitHubC01Heard /\ C01!GitHubRubricHolds

LEMMA GitHubC01Starts == C01!GitHubInit => GitHubC01Inv
BY SettingsAssumption DEF C01!GitHubInit, C01!InitWith, GitHubC01Inv, C01!GitHubTypeOK,
   C01!SurveyTypeOK, GitHubC01Heard, Outcomes, Got, C01!GitHubRubricHolds, C01!GitHubCall,
   GitHubC01Order, GitHubC01Page

LEMMA GitHubC01Same ==
  ASSUME UNCHANGED <<world, heard, seen>>
  PROVE  /\ GitHubC01Heard' <=> GitHubC01Heard
         /\ \A c, s : C01!GitHubRubric(c, s)' <=> C01!GitHubRubric(c, s)
<1>1. GitHubC01Heard' <=> GitHubC01Heard
  BY DEF GitHubC01Heard, Got, GitHubC01Order, GitHubC01Page
<1>2. \A c, s : C01!GitHubRubric(c, s)' <=> C01!GitHubRubric(c, s)
  BY DEF C01!GitHubRubric, C01!GitHubGiveUp, C01!Lost, C01!org, C01!MembersLost
<1> QED
  BY <1>1, <1>2

LEMMA GitHubC01Reads ==
  ASSUME GitHubC01Inv, NEW c \in C01!GitHubCall, NEW a, Get(c, a),
         c = <<"org">> => a = world.org,
         \A p \in Pages : c = <<"members", p>> => a = GitHubC01Page(p) /\ GitHubC01Order(p)
  PROVE  GitHubC01Inv'
<1>1. /\ DOMAIN heard = C01!GitHubCall /\ DOMAIN heard' = C01!GitHubCall
      /\ heard[c] = Unasked /\ heard'[c] \in {a, Failed}
      /\ \A d \in C01!GitHubCall : heard'[d] = IF d = c THEN heard'[c] ELSE heard[d]
      /\ \A d \in C01!GitHubCall : heard[d] # Unasked => heard'[d] = heard[d] /\ d # c
      /\ status = Undecided /\ UNCHANGED <<world, status, seen>>
  BY Answer DEF GitHubC01Inv, C01!GitHubTypeOK, C01!SurveyTypeOK
<1>2. C01!GitHubTypeOK' /\ C01!GitHubRubricHolds'
  BY <1>1 DEF GitHubC01Inv, C01!GitHubTypeOK, C01!SurveyTypeOK, C01!GitHubRubricHolds
<1>3. /\ <<"org">> \in C01!GitHubCall
      /\ \A p \in Pages : <<"members", p>> \in C01!GitHubCall
  BY DEF C01!GitHubCall
<1>4. heard'[<<"org">>] \in Outcomes({world.org})
  BY <1>1, <1>3 DEF GitHubC01Inv, GitHubC01Heard, Outcomes
<1>5. \A p \in Pages : heard'[<<"members", p>>] \in Outcomes({GitHubC01Page(p)})
  BY <1>1, <1>3 DEF GitHubC01Inv, GitHubC01Heard, Outcomes
<1>6. ASSUME NEW p \in Pages, heard'[<<"members", p>>] # Unasked
      PROVE  GitHubC01Order(p)'
  <2>1. GitHubC01Order(p)
    BY <1>1, <1>3, <1>6 DEF GitHubC01Inv, GitHubC01Heard
  <2>2. QED
    BY <1>1, <1>3, <2>1 DEF Got, GitHubC01Order, GitHubC01Page
<1>7. GitHubC01Heard'
  BY <1>1, <1>4, <1>5, <1>6 DEF GitHubC01Heard, GitHubC01Page, GitHubC01Order
<1> QED
  BY <1>2, <1>7 DEF GitHubC01Inv

LEMMA GitHubC01Verdicts ==
  ASSUME GitHubC01Inv, C01!GitHubDecide
  PROVE  /\ status' \in [C01!Checks -> Statuses] /\ UNCHANGED <<world, heard, seen>>
         /\ \A c \in C01!Checks : C01!GitHubRubric(c, status'[c])
<1> USE DEF Pass, Fail, Partial, NotCheckable, C01!Pass, C01!Fail, C01!Partial, C01!NotCheckable
<1> DEFINE emitted == [c \in C01!Checks |->
     CASE c = "2fa-required"              -> C01!GitHubTwoFactorRequired
       [] c = "default-repo-permission"   -> C01!GitHubDefaultRepoPermission
       [] c = "members-can-create-public" -> C01!GitHubMembersCanCreatePublic
       [] c = "members-without-2fa"       -> C01!GitHubMembersWithout2FA]
<1>1. \/ C01!GitHubGiveUp /\ status' = C01!Nothing(C01!Checks)
      \/ (C01!MembersLost \/ C01!MembersRead) /\ status' = emitted
  BY DEF C01!GitHubDecide, C01!Emit
<1>2. UNCHANGED <<world, heard, seen>>
  BY DEF C01!GitHubDecide, C01!Emit
<1>3. CASE C01!GitHubGiveUp /\ status' = C01!Nothing(C01!Checks)
  BY <1>2, <1>3 DEF C01!Nothing, C01!GitHubRubric, Statuses
<1>4. CASE (C01!MembersLost \/ C01!MembersRead) /\ status' = emitted
  <2>1. /\ status'["2fa-required"] = C01!GitHubTwoFactorRequired
        /\ status'["default-repo-permission"] = C01!GitHubDefaultRepoPermission
        /\ status'["members-can-create-public"] = C01!GitHubMembersCanCreatePublic
        /\ status'["members-without-2fa"] = C01!GitHubMembersWithout2FA
        /\ status' = [c \in C01!Checks |-> status'[c]]
    BY <1>4 DEF C01!Checks
  <2>2. C01!org = world.org /\ world.org \in C01!Orgs /\ world.last \in Pages
    <3>1. PICK p \in Pages : heard[<<"members", p>>] # Unasked
      BY <1>4, MarkersAssumption DEF C01!MembersLost, C01!MembersRead, C01!Lost, C01!Got
    <3>2. Got(<<"org">>)
      BY <3>1 DEF GitHubC01Inv, GitHubC01Heard, GitHubC01Order
    <3>3. C01!org = world.org
      BY <3>2 DEF GitHubC01Inv, GitHubC01Heard, Outcomes, Got, C01!org
    <3>4. world \in C01!GitHubWorlds
      BY DEF GitHubC01Inv, C01!GitHubTypeOK, C01!SurveyTypeOK
    <3>5. QED
      BY <3>3, <3>4 DEF C01!GitHubWorlds
  <2>3. \A p \in Pages : C01!Got(<<"members", p>>) =>
          /\ heard[<<"members", p>>].anyone = world.without[p] /\ heard[<<"members",
               p>>].last = (p = world.last)
          /\ \A q \in Pages : q < p => C01!Got(<<"members", q>>) /\ ~heard[<<"members", q>>].last
    <3> SUFFICES ASSUME NEW p \in Pages, C01!Got(<<"members", p>>)
        PROVE  /\ heard[<<"members", p>>].anyone = world.without[p]
               /\ heard[<<"members", p>>].last = (p = world.last)
               /\ \A q \in Pages : q < p => C01!Got(<<"members", q>>) /\ ~heard[<<"members", q>>].last
      OBVIOUS
    <3>1. heard[<<"members", p>>] \in Outcomes({GitHubC01Page(p)}) /\ GitHubC01Order(p)
      BY DEF GitHubC01Inv, GitHubC01Heard, C01!Got
    <3>2. heard[<<"members", p>>] = GitHubC01Page(p)
      BY <3>1 DEF Outcomes, C01!Got
    <3>3. QED
      BY <3>1, <3>2 DEF GitHubC01Page, GitHubC01Order, Got, C01!Got
  <2>4. Pages \subseteq Nat \ {0} /\ \A p \in Pages : 1..p \subseteq Pages
    BY PagesAssumption
  <2>5. C01!GitHubTwoFactorRequired \in Statuses /\ C01!GitHubRubric("2fa-required",
          C01!GitHubTwoFactorRequired)
    BY <2>2 DEF C01!GitHubRubric, C01!GitHubTwoFactorRequired, C01!Orgs, C01!Flag, Statuses
  <2>6. C01!GitHubDefaultRepoPermission \in Statuses /\ C01!GitHubRubric("default-repo-permission",
          C01!GitHubDefaultRepoPermission)
    BY <2>2 DEF C01!GitHubRubric, C01!GitHubDefaultRepoPermission, C01!Orgs, C01!Permission,
       C01!Absent, Statuses
  <2>7. C01!GitHubMembersCanCreatePublic \in Statuses /\ C01!GitHubRubric("members-can-create-public",
          C01!GitHubMembersCanCreatePublic)
    BY <2>2 DEF C01!GitHubRubric, C01!GitHubMembersCanCreatePublic, C01!Orgs, C01!Flag, Statuses
  <2>8. C01!GitHubMembersWithout2FA \in Statuses /\ C01!GitHubRubric("members-without-2fa",
          C01!GitHubMembersWithout2FA)
    <3>1. CASE C01!MembersLost
      BY <3>1 DEF C01!GitHubRubric, C01!GitHubMembersWithout2FA, Statuses
    <3>2. CASE ~C01!MembersLost
      <4>1. PICK p \in Pages : C01!Got(<<"members", p>>) /\ heard[<<"members", p>>].last
        BY <1>4, <3>2 DEF C01!MembersRead
      <4>2. p = world.last /\ p \in Nat
        BY <2>3, <2>4, <4>1
      <4>3. \A q \in Pages : q < p => C01!Got(<<"members", q>>) /\ ~heard[<<"members", q>>].last
        BY <2>3, <4>1
      <4>4. \A q \in Pages : q \in Nat /\ (q < p \/ q = p \/ p < q)
        BY <2>4, <4>2
      <4>5. \A q \in Pages : C01!Got(<<"members", q>>) => ~(p < q)
        BY <2>3, <4>1
      <4>7. \A q \in Pages : C01!Got(<<"members", q>>) <=> q < p \/ q = p
        BY <4>1, <4>3, <4>4, <4>5
      <4>8. \A q \in Pages : q \in 1..world.last <=> q < p \/ q = p
        BY <2>4, <4>2
      <4>9. (\E q \in Pages : C01!Got(<<"members", q>>) /\ heard[<<"members", q>>].anyone)
              <=> \E q \in 1..world.last : world.without[q]
        <5>1. 1..world.last \subseteq Pages
          BY <2>4, <4>2
        <5>2. \A q \in Pages : C01!Got(<<"members", q>>) => (heard[<<"members",
                q>>].anyone <=> world.without[q])
          BY <2>3
        <5>3. QED
          BY <4>7, <4>8, <5>1, <5>2
      <4> QED
        BY <3>2, <4>9 DEF C01!GitHubRubric, C01!GitHubMembersWithout2FA, Statuses
    <3>3. QED
      BY <3>1, <3>2
  <2> QED
    BY <1>2, <2>1, <2>5, <2>6, <2>7, <2>8 DEF C01!Checks
<1> QED
  BY <1>1, <1>3, <1>4

LEMMA GitHubC01Goes == GitHubC01Inv /\ [C01!GitHubNext]_vars => GitHubC01Inv'
<1> SUFFICES ASSUME GitHubC01Inv, [C01!GitHubNext]_vars PROVE GitHubC01Inv'
  OBVIOUS
<1>1. CASE C01!ReadOrg
  BY <1>1, GitHubC01Reads DEF C01!ReadOrg, C01!Ask, C01!Get, Get, C01!GitHubCall
<1>2. ASSUME NEW p \in Pages, C01!ListMembers(p) PROVE GitHubC01Inv'
  BY <1>2, GitHubC01Reads DEF C01!ListMembers, C01!Ask, C01!Get, Get, C01!GitHubCall, Got, C01!Got,
     GitHubC01Order, GitHubC01Page
<1>3. CASE C01!GitHubDecide
  BY <1>3, GitHubC01Verdicts, GitHubC01Same DEF GitHubC01Inv, C01!GitHubTypeOK, C01!SurveyTypeOK,
     C01!GitHubRubricHolds, Statuses, Pass, Fail, Partial, NotCheckable, C01!Pass, C01!Fail,
     C01!Partial, C01!NotCheckable
<1>4. CASE UNCHANGED vars
  BY <1>4, GitHubC01Same DEF vars, GitHubC01Inv, C01!GitHubTypeOK, C01!SurveyTypeOK,
     C01!GitHubRubricHolds
<1> QED
  BY <1>1, <1>2, <1>3, <1>4 DEF C01!GitHubNext
-----------------------------------------------------------------------------
(* C01.org-security: on Azure DevOps. *)
AzureC01Heard ==
  /\ heard[<<"users">>] \in Outcomes({world.users})
  /\ heard[<<"projects">>] \in Outcomes({world.projects})
  /\ heard[<<"projects">>] # Unasked => heard[<<"users">>] # Unasked

AzureC01Inv == C01!AzureTypeOK /\ AzureC01Heard /\ C01!AzureRubricHolds

LEMMA AzureC01Starts == C01!AzureInit => AzureC01Inv
BY SettingsAssumption DEF C01!AzureInit, C01!InitWith, AzureC01Inv, C01!AzureTypeOK,
   C01!SurveyTypeOK, AzureC01Heard, Outcomes, Got, C01!AzureRubricHolds, C01!AzureCall

LEMMA AzureC01Same ==
  ASSUME UNCHANGED <<world, heard, seen>>
  PROVE  /\ AzureC01Heard' <=> AzureC01Heard
         /\ \A c, s : C01!AzureRubric(c, s)' <=> C01!AzureRubric(c, s)
<1>1. AzureC01Heard' <=> AzureC01Heard
  BY DEF AzureC01Heard, Got
<1>2. \A c, s : C01!AzureRubric(c, s)' <=> C01!AzureRubric(c, s)
  BY DEF C01!AzureRubric, C01!People, C01!Lost
<1> QED
  BY <1>1, <1>2

LEMMA AzureC01Reads ==
  ASSUME AzureC01Inv, NEW c \in C01!AzureCall, NEW a, Get(c, a),
         c = <<"users">> => a = world.users,
         c = <<"projects">> => a = world.projects /\ heard[<<"users">>] # Unasked
  PROVE  AzureC01Inv'
<1>1. /\ DOMAIN heard = C01!AzureCall /\ DOMAIN heard' = C01!AzureCall
      /\ heard[c] = Unasked /\ heard'[c] \in {a, Failed}
      /\ \A d \in C01!AzureCall : heard'[d] = IF d = c THEN heard'[c] ELSE heard[d]
      /\ \A d \in C01!AzureCall : heard[d] # Unasked => heard'[d] = heard[d] /\ d # c
      /\ status = Undecided /\ UNCHANGED <<world, status, seen>>
  BY Answer DEF AzureC01Inv, C01!AzureTypeOK, C01!SurveyTypeOK
<1>2. C01!AzureTypeOK' /\ C01!AzureRubricHolds'
  BY <1>1 DEF AzureC01Inv, C01!AzureTypeOK, C01!SurveyTypeOK, C01!AzureRubricHolds
<1>3. /\ <<"users">> \in C01!AzureCall
      /\ <<"projects">> \in C01!AzureCall
  BY DEF C01!AzureCall
<1>4. heard'[<<"users">>] \in Outcomes({world.users})
  BY <1>1, <1>3 DEF AzureC01Inv, AzureC01Heard, Outcomes
<1>5. heard'[<<"projects">>] \in Outcomes({world.projects})
  BY <1>1, <1>3 DEF AzureC01Inv, AzureC01Heard, Outcomes
<1>6. ASSUME heard'[<<"projects">>] # Unasked
      PROVE  (heard[<<"users">>] # Unasked)'
  <2>1. heard[<<"users">>] # Unasked
    BY <1>1, <1>3, <1>6 DEF AzureC01Inv, AzureC01Heard
  <2>2. QED
    BY <1>1, <1>3, <2>1 DEF Got
<1>7. AzureC01Heard'
  BY <1>1, <1>4, <1>5, <1>6 DEF AzureC01Heard
<1> QED
  BY <1>2, <1>7 DEF AzureC01Inv

LEMMA AzureC01Verdicts ==
  ASSUME AzureC01Inv, C01!AzureDecide
  PROVE  /\ status' \in [C01!Checks -> Statuses] /\ UNCHANGED <<world, heard, seen>>
         /\ \A c \in C01!Checks : C01!AzureRubric(c, status'[c])
<1> USE DEF Pass, Fail, Partial, NotCheckable, C01!Pass, C01!Fail, C01!Partial, C01!NotCheckable
<1> DEFINE emitted == [c \in C01!Checks |->
     CASE c = "2fa-required"              -> C01!AzureTwoFactorRequired
       [] c = "members-without-2fa"       -> C01!AzureMembersWithout2FA
       [] c = "default-repo-permission"   -> C01!AzureDefaultRepoPermission
       [] c = "members-can-create-public" -> C01!AzureMembersCanCreatePublic]
<1>1. C01!Heard({<<"projects">>}) /\ status' = emitted
  BY DEF C01!AzureDecide, C01!Emit
<1>2. UNCHANGED <<world, heard, seen>>
  BY DEF C01!AzureDecide, C01!Emit
<1>3. QED
  <2>1. /\ status'["2fa-required"] = C01!AzureTwoFactorRequired
        /\ status'["members-without-2fa"] = C01!AzureMembersWithout2FA
        /\ status'["default-repo-permission"] = C01!AzureDefaultRepoPermission
        /\ status'["members-can-create-public"] = C01!AzureMembersCanCreatePublic
        /\ status' = [c \in C01!Checks |-> status'[c]]
    BY <1>1 DEF C01!Checks
  <2>2. heard[<<"users">>] \in {Failed, world.users} /\ heard[<<"projects">>] \in {Failed, world.projects}
    BY <1>1 DEF C01!Heard, AzureC01Inv, AzureC01Heard, Outcomes
  <2>3. world \in C01!AzureWorlds
    BY DEF AzureC01Inv, C01!AzureTypeOK, C01!SurveyTypeOK
  <2>4. C01!AzureTwoFactorRequired \in Statuses /\ C01!AzureRubric("2fa-required", C01!AzureTwoFactorRequired)
    <3>1. \A o : o \in C01!Origins(world.users) <=> C01!People(o)
      BY DEF C01!Origins, C01!People
    <3>2. \A o : C01!People(o) => o \in {"aad", "msa", "vsts", "other"}
      BY <2>3 DEF C01!People, C01!AzureWorlds, C01!Users
    <3>3. QED
      BY <2>2, <3>1 DEF C01!AzureRubric, C01!AzureTwoFactorRequired, C01!Lost, Statuses
  <2>5. C01!AzureMembersWithout2FA \in Statuses /\ C01!AzureRubric("members-without-2fa",
          C01!AzureMembersWithout2FA)
    BY <1>1, <2>2, <2>3 DEF C01!AzureRubric, C01!AzureMembersWithout2FA, Statuses
  <2>6. C01!AzureDefaultRepoPermission \in Statuses /\ C01!AzureRubric("default-repo-permission",
          C01!AzureDefaultRepoPermission)
    BY <1>1, <2>2, <2>3 DEF C01!AzureRubric, C01!AzureDefaultRepoPermission, Statuses
  <2>7. C01!AzureMembersCanCreatePublic \in Statuses /\ C01!AzureRubric("members-can-create-public",
          C01!AzureMembersCanCreatePublic)
    BY <2>2 DEF C01!AzureRubric, C01!AzureMembersCanCreatePublic, C01!Lost, Statuses
  <2> QED
    BY <1>2, <2>1, <2>4, <2>5, <2>6, <2>7 DEF C01!Checks

LEMMA AzureC01Goes == AzureC01Inv /\ [C01!AzureNext]_vars => AzureC01Inv'
<1> SUFFICES ASSUME AzureC01Inv, [C01!AzureNext]_vars PROVE AzureC01Inv'
  OBVIOUS
<1>1. CASE C01!ListUsers
  BY <1>1, AzureC01Reads DEF C01!ListUsers, C01!Ask, C01!Get, Get, C01!AzureCall
<1>2. CASE C01!ListProjects
  BY <1>2, AzureC01Reads DEF C01!ListProjects, C01!Ask, C01!Get, Get, C01!AzureCall, C01!Heard
<1>3. CASE C01!AzureDecide
  BY <1>3, AzureC01Verdicts, AzureC01Same DEF AzureC01Inv, C01!AzureTypeOK, C01!SurveyTypeOK,
     C01!AzureRubricHolds, Statuses, Pass, Fail, Partial, NotCheckable, C01!Pass, C01!Fail,
     C01!Partial, C01!NotCheckable
<1>4. CASE UNCHANGED vars
  BY <1>4, AzureC01Same DEF vars, AzureC01Inv, C01!AzureTypeOK, C01!SurveyTypeOK,
     C01!AzureRubricHolds
<1> QED
  BY <1>1, <1>2, <1>3, <1>4 DEF C01!AzureNext

-----------------------------------------------------------------------------
(* C01.org-security: on GitLab. *)
GitLabC01Heard ==
  /\ heard[<<"client">>] \in Outcomes({TRUE})
  /\ heard[<<"group">>] \in Outcomes({world})

GitLabC01Inv == C01!GitLabTypeOK /\ GitLabC01Heard /\ C01!GitLabRubricHolds

LEMMA GitLabC01Starts == C01!GitLabInit => GitLabC01Inv
BY SettingsAssumption DEF C01!GitLabInit, C01!InitWith, GitLabC01Inv, C01!GitLabTypeOK,
   C01!SurveyTypeOK, GitLabC01Heard, Outcomes, Got, C01!GitLabRubricHolds, C01!GitLabCall

LEMMA GitLabC01Same ==
  ASSUME UNCHANGED <<world, heard, seen>>
  PROVE  /\ GitLabC01Heard' <=> GitLabC01Heard
         /\ \A c, s : C01!GitLabRubric(c, s)' <=> C01!GitLabRubric(c, s)
<1>1. GitLabC01Heard' <=> GitLabC01Heard
  BY DEF GitLabC01Heard, Got
<1>2. \A c, s : C01!GitLabRubric(c, s)' <=> C01!GitLabRubric(c, s)
  BY DEF C01!GitLabRubric, C01!GitLabGiveUp, C01!Lost, C01!group, C01!CanPublish, C01!Unknown
<1> QED
  BY <1>1, <1>2

LEMMA GitLabC01Reads ==
  ASSUME GitLabC01Inv, NEW c \in C01!GitLabCall, NEW a, Get(c, a),
         c = <<"client">> => a = TRUE,
         c = <<"group">> => a = world
  PROVE  GitLabC01Inv'
<1>1. /\ DOMAIN heard = C01!GitLabCall /\ DOMAIN heard' = C01!GitLabCall
      /\ heard[c] = Unasked /\ heard'[c] \in {a, Failed}
      /\ \A d \in C01!GitLabCall : heard'[d] = IF d = c THEN heard'[c] ELSE heard[d]
      /\ \A d \in C01!GitLabCall : heard[d] # Unasked => heard'[d] = heard[d] /\ d # c
      /\ status = Undecided /\ UNCHANGED <<world, status, seen>>
  BY Answer DEF GitLabC01Inv, C01!GitLabTypeOK, C01!SurveyTypeOK
<1>2. C01!GitLabTypeOK' /\ C01!GitLabRubricHolds'
  BY <1>1 DEF GitLabC01Inv, C01!GitLabTypeOK, C01!SurveyTypeOK, C01!GitLabRubricHolds
<1>3. /\ <<"client">> \in C01!GitLabCall
      /\ <<"group">> \in C01!GitLabCall
  BY DEF C01!GitLabCall
<1>4. heard'[<<"client">>] \in Outcomes({TRUE})
  BY <1>1, <1>3 DEF GitLabC01Inv, GitLabC01Heard, Outcomes
<1>5. heard'[<<"group">>] \in Outcomes({world})
  BY <1>1, <1>3 DEF GitLabC01Inv, GitLabC01Heard, Outcomes
<1>6. GitLabC01Heard'
  BY <1>1, <1>4, <1>5 DEF GitLabC01Heard
<1> QED
  BY <1>2, <1>6 DEF GitLabC01Inv

LEMMA GitLabC01Verdicts ==
  ASSUME GitLabC01Inv, C01!GitLabDecide
  PROVE  /\ status' \in [C01!Checks -> Statuses] /\ UNCHANGED <<world, heard, seen>>
         /\ \A c \in C01!Checks : C01!GitLabRubric(c, status'[c])
<1> USE DEF Pass, Fail, Partial, NotCheckable, C01!Pass, C01!Fail, C01!Partial, C01!NotCheckable
<1> DEFINE emitted == [c \in C01!Checks |->
     CASE c = "2fa-required"              -> C01!GitLabTwoFactorRequired
       [] c = "default-repo-permission"   -> C01!DefaultPermission
       [] c = "members-can-create-public" -> C01!MembersCreatePublic
       [] c = "members-without-2fa"       -> C01!GitLabMembersWithout2FA]
<1>1. \/ C01!GitLabGiveUp /\ status' = C01!Nothing(C01!Checks)
      \/ C01!Got(<<"group">>) /\ status' = emitted
  BY DEF C01!GitLabDecide, C01!Emit
<1>2. UNCHANGED <<world, heard, seen>>
  BY DEF C01!GitLabDecide, C01!Emit
<1>3. CASE C01!GitLabGiveUp /\ status' = C01!Nothing(C01!Checks)
  BY <1>2, <1>3 DEF C01!Nothing, C01!GitLabRubric, Statuses
<1>4. CASE C01!Got(<<"group">>) /\ status' = emitted
  <2>1. /\ status'["2fa-required"] = C01!GitLabTwoFactorRequired
        /\ status'["default-repo-permission"] = C01!DefaultPermission
        /\ status'["members-can-create-public"] = C01!MembersCreatePublic
        /\ status'["members-without-2fa"] = C01!GitLabMembersWithout2FA
        /\ status' = [c \in C01!Checks |-> status'[c]]
    BY <1>4 DEF C01!Checks
  <2>2. C01!group = world
    BY <1>4 DEF C01!group, C01!Got, GitLabC01Inv, GitLabC01Heard, Outcomes
  <2>3. world \in C01!GitLabWorlds
    BY DEF GitLabC01Inv, C01!GitLabTypeOK, C01!SurveyTypeOK
  <2>4. world.visibility \in C01!Visibility /\ world.creation \in C01!Creation
    BY <2>3 DEF C01!GitLabWorlds
  <2>5. C01!GitLabTwoFactorRequired \in Statuses /\ C01!GitLabRubric("2fa-required",
          C01!GitLabTwoFactorRequired)
    BY <2>2 DEF C01!GitLabRubric, C01!GitLabTwoFactorRequired, Statuses
  <2>6. C01!DefaultPermission \in Statuses /\ C01!GitLabRubric("default-repo-permission", C01!DefaultPermission)
    BY <2>2, <2>4 DEF C01!GitLabRubric, C01!DefaultPermission, C01!Visibility, Statuses
  <2>7. C01!MembersCreatePublic \in Statuses /\ C01!GitLabRubric("members-can-create-public",
          C01!MembersCreatePublic)
    BY <2>2, <2>4 DEF C01!GitLabRubric, C01!MembersCreatePublic, C01!Visibility, C01!Creation,
       C01!CanPublish, C01!Unknown, Statuses
  <2>8. C01!GitLabMembersWithout2FA \in Statuses /\ C01!GitLabRubric("members-without-2fa",
          C01!GitLabMembersWithout2FA)
    BY <1>4, <2>2, <2>3, <2>4 DEF C01!GitLabRubric, C01!GitLabMembersWithout2FA, Statuses
  <2> QED
    BY <1>2, <2>1, <2>5, <2>6, <2>7, <2>8 DEF C01!Checks
<1> QED
  BY <1>1, <1>3, <1>4

LEMMA GitLabC01Goes == GitLabC01Inv /\ [C01!GitLabNext]_vars => GitLabC01Inv'
<1> SUFFICES ASSUME GitLabC01Inv, [C01!GitLabNext]_vars PROVE GitLabC01Inv'
  OBVIOUS
<1>1. CASE C01!NewClient
  BY <1>1, GitLabC01Reads DEF C01!NewClient, C01!Ask, C01!Get, Get, C01!GitLabCall
<1>2. CASE C01!ReadGroup
  BY <1>2, GitLabC01Reads DEF C01!ReadGroup, C01!Ask, C01!Get, Get, C01!GitLabCall
<1>3. CASE C01!GitLabDecide
  BY <1>3, GitLabC01Verdicts, GitLabC01Same DEF GitLabC01Inv, C01!GitLabTypeOK, C01!SurveyTypeOK,
     C01!GitLabRubricHolds, Statuses, Pass, Fail, Partial, NotCheckable, C01!Pass, C01!Fail,
     C01!Partial, C01!NotCheckable
<1>4. CASE UNCHANGED vars
  BY <1>4, GitLabC01Same DEF vars, GitLabC01Inv, C01!GitLabTypeOK, C01!SurveyTypeOK,
     C01!GitLabRubricHolds
<1> QED
  BY <1>1, <1>2, <1>3, <1>4 DEF C01!GitLabNext
-----------------------------------------------------------------------------
(* C03.env-separation: on GitHub. *)
GitHubC03Order(p) == \A q \in Pages : q < p => Got(<<"page", q>>) /\ heard[<<"page", q>>].more

GitHubC03Heard ==
  /\ \A p \in Pages : heard[<<"page", p>>] \in Outcomes({C03!Page(p)})
  /\ \A p \in Pages : heard[<<"page", p>>] # Unasked => GitHubC03Order(p)

GitHubC03Inv == C03!GitHubTypeOK /\ GitHubC03Heard /\ C03!GitHubRubricHolds

LEMMA GitHubC03Starts == C03!GitHubInit => GitHubC03Inv
BY SettingsAssumption DEF C03!GitHubInit, C03!InitWith, GitHubC03Inv, C03!GitHubTypeOK,
   C03!SurveyTypeOK, GitHubC03Heard, Outcomes, Got, C03!GitHubRubricHolds, C03!GitHubCall,
   GitHubC03Order, C03!Page

LEMMA GitHubC03Same ==
  ASSUME UNCHANGED <<world, heard, seen>>
  PROVE  /\ GitHubC03Heard' <=> GitHubC03Heard
         /\ \A c, s : C03!GitHubRubric(c, s)' <=> C03!GitHubRubric(c, s)
<1>1. GitHubC03Heard' <=> GitHubC03Heard
  BY DEF GitHubC03Heard, Got, GitHubC03Order, C03!Page
<1>2. \A c, s : C03!GitHubRubric(c, s)' <=> C03!GitHubRubric(c, s)
  BY DEF C03!GitHubRubric, C03!AnyLost, C03!Lost, C03!Present, C03!GitHubProduction
<1> QED
  BY <1>1, <1>2

LEMMA GitHubC03Reads ==
  ASSUME GitHubC03Inv, NEW c \in C03!GitHubCall, NEW a, Get(c, a),
         \A p \in Pages : c = <<"page", p>> => a = C03!Page(p) /\ GitHubC03Order(p)
  PROVE  GitHubC03Inv'
<1>1. /\ DOMAIN heard = C03!GitHubCall /\ DOMAIN heard' = C03!GitHubCall
      /\ heard[c] = Unasked /\ heard'[c] \in {a, Failed}
      /\ \A d \in C03!GitHubCall : heard'[d] = IF d = c THEN heard'[c] ELSE heard[d]
      /\ \A d \in C03!GitHubCall : heard[d] # Unasked => heard'[d] = heard[d] /\ d # c
      /\ status = Undecided /\ UNCHANGED <<world, status, seen>>
  BY Answer DEF GitHubC03Inv, C03!GitHubTypeOK, C03!SurveyTypeOK
<1>2. C03!GitHubTypeOK' /\ C03!GitHubRubricHolds'
  BY <1>1 DEF GitHubC03Inv, C03!GitHubTypeOK, C03!SurveyTypeOK, C03!GitHubRubricHolds
<1>3. \A p \in Pages : <<"page", p>> \in C03!GitHubCall
  BY DEF C03!GitHubCall
<1>4. \A p \in Pages : heard'[<<"page", p>>] \in Outcomes({C03!Page(p)})
  BY <1>1, <1>3 DEF GitHubC03Inv, GitHubC03Heard, Outcomes
<1>5. ASSUME NEW p \in Pages, heard'[<<"page", p>>] # Unasked
      PROVE  GitHubC03Order(p)'
  <2>1. GitHubC03Order(p)
    BY <1>1, <1>3, <1>5 DEF GitHubC03Inv, GitHubC03Heard
  <2>2. QED
    BY <1>1, <1>3, <2>1 DEF Got, GitHubC03Order, C03!Page
<1>6. GitHubC03Heard'
  BY <1>1, <1>4, <1>5 DEF GitHubC03Heard, GitHubC03Order, C03!Page
<1> QED
  BY <1>2, <1>6 DEF GitHubC03Inv

LEMMA GitHubC03Verdicts ==
  ASSUME GitHubC03Inv, C03!GitHubDecide
  PROVE  /\ status' \in [C03!Checks -> Statuses] /\ UNCHANGED <<world, heard, seen>>
         /\ \A c \in C03!Checks : C03!GitHubRubric(c, status'[c])
<1> USE DEF Pass, Fail, Partial, NotCheckable, C03!Pass, C03!Fail, C03!Partial, C03!NotCheckable
<1> DEFINE emitted == IF C03!AnyLost \/ C03!GitHubEnvs = {} THEN C03!Nothing(C03!Checks)
     ELSE IF C03!GitHubProdLike = {} THEN [c \in C03!Checks |-> C03!Partial]
     ELSE [c \in C03!Checks |->
            CASE c = "exists"             -> C03!Pass
              [] c = "protection-rules"   -> C03!GitHubProtectionRules
              [] c = "required-reviewers" -> C03!GitHubRequiredReviewers
              [] c = "branch-policy"      -> C03!GitHubBranchPolicy]
<1> DEFINE exists == IF C03!AnyLost \/ C03!GitHubEnvs = {} THEN C03!NotCheckable
             ELSE IF C03!GitHubProdLike = {} THEN C03!Partial ELSE C03!Pass
<1> DEFINE protectionRules == IF C03!AnyLost \/ C03!GitHubEnvs = {} THEN C03!NotCheckable
             ELSE IF C03!GitHubProdLike = {} THEN C03!Partial ELSE C03!GitHubProtectionRules
<1> DEFINE requiredReviewers == IF C03!AnyLost \/ C03!GitHubEnvs = {} THEN C03!NotCheckable
             ELSE IF C03!GitHubProdLike = {} THEN C03!Partial ELSE C03!GitHubRequiredReviewers
<1> DEFINE branchPolicy == IF C03!AnyLost \/ C03!GitHubEnvs = {} THEN C03!NotCheckable
             ELSE IF C03!GitHubProdLike = {} THEN C03!Partial ELSE C03!GitHubBranchPolicy
<1>1. (C03!AnyLost \/ C03!Ended) /\ status' = emitted
  BY DEF C03!GitHubDecide, C03!Emit
<1>2. UNCHANGED <<world, heard, seen>>
  BY DEF C03!GitHubDecide, C03!Emit
<1>3. QED
  <2>1. /\ status'["exists"] = exists
        /\ status'["protection-rules"] = protectionRules
        /\ status'["required-reviewers"] = requiredReviewers
        /\ status'["branch-policy"] = branchPolicy
        /\ status' = [c \in C03!Checks |-> status'[c]]
    BY <1>1 DEF C03!Checks, C03!Nothing
  <2>2. C03!AnyLost \/ C03!GitHubEnvs = C03!Present
    <3> SUFFICES ASSUME ~C03!AnyLost PROVE C03!GitHubEnvs = C03!Present
      OBVIOUS
    <3>1. PICK p \in Pages : C03!Got(<<"page", p>>) /\ ~heard[<<"page", p>>].more
      BY <1>1 DEF C03!Ended
    <3>2. world.count \in Nat /\ 1..world.count \subseteq Pages /\ \A q \in Pages : q \in Nat \ {0}
      <4>1. world.count \in Pages \cup {0}
        BY DEF GitHubC03Inv, C03!GitHubTypeOK, C03!SurveyTypeOK, C03!GitHubWorlds
      <4>2. \A q \in Pages : q \in Nat \ {0} /\ 1..q \subseteq Pages
        BY PagesAssumption
      <4>3. QED
        BY <4>1, <4>2
    <3> \A q : C03!Page(q).more = (q < world.count)
          /\ C03!Page(q).envs = IF q <= world.count THEN {world.page[q]} ELSE {}
      BY DEF C03!Page
    <3>3. \A q \in Pages : C03!Got(<<"page", q>>) => heard[<<"page", q>>] = C03!Page(q) /\ GitHubC03Order(q)
      BY DEF GitHubC03Inv, GitHubC03Heard, Outcomes, C03!Got
    <3>4. ~(p < world.count)
      BY <3>1, <3>3
    <3>5. \A q \in Pages : q \in 1..world.count => C03!Got(<<"page", q>>)
      <4> SUFFICES ASSUME NEW q \in Pages, q \in 1..world.count PROVE C03!Got(<<"page", q>>)
        OBVIOUS
      <4>0. p \in Nat /\ q \in Nat /\ world.count \in Nat /\ q <= world.count
        BY <3>2
      <4>1. q < p \/ q = p
        BY <3>4, <4>0
      <4>2. QED
        BY <3>1, <3>3, <4>1 DEF GitHubC03Order, C03!Got, Got
    <3>6. \A q \in Pages : q <= world.count <=> q \in 1..world.count
      BY <3>2
    <3>7. \A q \in Pages : C03!Got(<<"page", q>>) =>
            heard[<<"page", q>>].envs = IF q \in 1..world.count THEN {world.page[q]} ELSE {}
      BY <3>3, <3>6
    <3>8. C03!GitHubEnvs \subseteq C03!Present
      <4> SUFFICES ASSUME NEW q \in Pages, C03!Got(<<"page", q>>), NEW e \in heard[<<"page",
                            q>>].envs PROVE e \in C03!Present
        BY DEF C03!GitHubEnvs
      <4>1. q \in 1..world.count /\ e = world.page[q]
        BY <3>7
      <4>2. QED
        BY <4>1 DEF C03!Present
    <3>9. C03!Present \subseteq C03!GitHubEnvs
      <4> SUFFICES ASSUME NEW n \in 1..world.count PROVE world.page[n] \in C03!GitHubEnvs
        BY DEF C03!Present
      <4>1. n \in {q \in Pages : C03!Got(<<"page", q>>)} /\ world.page[n] \in heard[<<"page", n>>].envs
        BY <3>2, <3>5, <3>7
      <4>2. QED
        BY <4>1 DEF C03!GitHubEnvs
    <3>10. QED
      BY <3>8, <3>9
  <2>3. \A e \in C03!Present : e.policy \in {"none", "protected", "custom", "neither"}
    <3>1. world.page \in [Pages -> C03!Environments] /\ world.count \in Pages \cup {0}
      BY DEF GitHubC03Inv, C03!GitHubTypeOK, C03!SurveyTypeOK, C03!GitHubWorlds
    <3>2. 1..world.count \subseteq Pages
      BY <3>1, PagesAssumption
    <3>3. C03!Present \subseteq C03!Environments
      BY <3>1, <3>2 DEF C03!Present
    <3>4. QED
      BY <3>3 DEF C03!Environments
  <2>4. exists \in Statuses /\ C03!GitHubRubric("exists", exists)
    BY <2>2 DEF C03!GitHubRubric, C03!GitHubProdLike, C03!GitHubProduction, Statuses
  <2>5. protectionRules \in Statuses /\ C03!GitHubRubric("protection-rules", protectionRules)
    BY <2>2 DEF C03!GitHubRubric, C03!GitHubProtectionRules, C03!GitHubProdLike,
       C03!GitHubProduction, Statuses
  <2>6. requiredReviewers \in Statuses /\ C03!GitHubRubric("required-reviewers", requiredReviewers)
    BY <2>2 DEF C03!GitHubRubric, C03!GitHubRequiredReviewers, C03!GitHubProdLike,
       C03!GitHubProduction, Statuses
  <2>7. branchPolicy \in Statuses /\ C03!GitHubRubric("branch-policy", branchPolicy)
    BY <2>2, <2>3 DEF C03!GitHubRubric, C03!GitHubBranchPolicy, C03!GitHubProdLike,
       C03!GitHubProduction, Statuses
  <2> QED
    BY <1>2, <2>1, <2>4, <2>5, <2>6, <2>7 DEF C03!Checks, C03!Nothing

LEMMA GitHubC03Goes == GitHubC03Inv /\ [C03!GitHubNext]_vars => GitHubC03Inv'
<1> SUFFICES ASSUME GitHubC03Inv, [C03!GitHubNext]_vars PROVE GitHubC03Inv'
  OBVIOUS
<1>1. ASSUME NEW p \in Pages, C03!ReadPage(p) PROVE GitHubC03Inv'
  <2>1. Get(<<"page", p>>, C03!Page(p)) /\ GitHubC03Order(p)
    BY <1>1 DEF C03!ReadPage, C03!Ask, C03!Get, Get, GitHubC03Order, C03!Before, C03!Got, Got
  <2>2. <<"page", p>> \in C03!GitHubCall
    BY DEF C03!GitHubCall
  <2>3. QED
    BY <2>1, <2>2, GitHubC03Reads
<1>2. CASE C03!GitHubDecide
  BY <1>2, GitHubC03Verdicts, GitHubC03Same DEF GitHubC03Inv, C03!GitHubTypeOK, C03!SurveyTypeOK,
     C03!GitHubRubricHolds, Statuses, Pass, Fail, Partial, NotCheckable, C03!Pass, C03!Fail,
     C03!Partial, C03!NotCheckable
<1>3. CASE UNCHANGED vars
  BY <1>3, GitHubC03Same DEF vars, GitHubC03Inv, C03!GitHubTypeOK, C03!SurveyTypeOK,
     C03!GitHubRubricHolds
<1> QED
  BY <1>1, <1>2, <1>3 DEF C03!GitHubNext

-----------------------------------------------------------------------------
(* C03.env-separation: on Azure DevOps. *)
AzureC03Heard ==
  /\ heard[<<"environments">>] \in Outcomes({world.envs})
  /\ \A e \in Environment : heard[<<"checks", e>>] \in Outcomes({world.checks[e]})

AzureC03Inv == C03!AzureTypeOK /\ AzureC03Heard /\ C03!AzureRubricHolds

LEMMA AzureC03Starts == C03!AzureInit => AzureC03Inv
BY SettingsAssumption DEF C03!AzureInit, C03!InitWith, AzureC03Inv, C03!AzureTypeOK,
   C03!SurveyTypeOK, AzureC03Heard, Outcomes, Got, C03!AzureRubricHolds, C03!AzureCall

LEMMA AzureC03Same ==
  ASSUME UNCHANGED <<world, heard, seen>>
  PROVE  /\ AzureC03Heard' <=> AzureC03Heard
         /\ \A c, s : C03!AzureRubric(c, s)' <=> C03!AzureRubric(c, s)
<1>1. AzureC03Heard' <=> AzureC03Heard
  BY DEF AzureC03Heard, Got
<1>2. \A c, s : C03!AzureRubric(c, s)' <=> C03!AzureRubric(c, s)
  BY DEF C03!AzureRubric, C03!Lost, C03!ChecksLost, C03!AzureProduction, C03!Live
<1> QED
  BY <1>1, <1>2

LEMMA AzureC03Reads ==
  ASSUME AzureC03Inv, NEW c \in C03!AzureCall, NEW a, Get(c, a),
         c = <<"environments">> => a = world.envs,
         \A e \in Environment : c = <<"checks", e>> => a = world.checks[e]
  PROVE  AzureC03Inv'
<1>1. /\ DOMAIN heard = C03!AzureCall /\ DOMAIN heard' = C03!AzureCall
      /\ heard[c] = Unasked /\ heard'[c] \in {a, Failed}
      /\ \A d \in C03!AzureCall : heard'[d] = IF d = c THEN heard'[c] ELSE heard[d]
      /\ \A d \in C03!AzureCall : heard[d] # Unasked => heard'[d] = heard[d] /\ d # c
      /\ status = Undecided /\ UNCHANGED <<world, status, seen>>
  BY Answer DEF AzureC03Inv, C03!AzureTypeOK, C03!SurveyTypeOK
<1>2. C03!AzureTypeOK' /\ C03!AzureRubricHolds'
  BY <1>1 DEF AzureC03Inv, C03!AzureTypeOK, C03!SurveyTypeOK, C03!AzureRubricHolds
<1>3. /\ <<"environments">> \in C03!AzureCall
      /\ \A e \in Environment : <<"checks", e>> \in C03!AzureCall
  BY DEF C03!AzureCall
<1>4. heard'[<<"environments">>] \in Outcomes({world.envs})
  BY <1>1, <1>3 DEF AzureC03Inv, AzureC03Heard, Outcomes
<1>5. \A e \in Environment : heard'[<<"checks", e>>] \in Outcomes({world.checks[e]})
  BY <1>1, <1>3 DEF AzureC03Inv, AzureC03Heard, Outcomes
<1>6. AzureC03Heard'
  BY <1>1, <1>4, <1>5 DEF AzureC03Heard
<1> QED
  BY <1>2, <1>6 DEF AzureC03Inv

LEMMA AzureC03Verdicts ==
  ASSUME AzureC03Inv, C03!AzureDecide
  PROVE  /\ status' \in [C03!Checks -> Statuses] /\ UNCHANGED <<world, heard, seen>>
         /\ \A c \in C03!Checks : C03!AzureRubric(c, status'[c])
<1> USE DEF Pass, Fail, Partial, NotCheckable, C03!Pass, C03!Fail, C03!Partial, C03!NotCheckable
<1> DEFINE emitted == IF C03!AzureEnvs = {} THEN C03!Nothing(C03!Checks)
     ELSE IF C03!AzureProdLike = {} THEN [c \in C03!Checks |-> C03!Partial]
     ELSE [c \in C03!Checks |->
            CASE c = "exists"             -> C03!Pass
              [] c # "exists" /\ C03!ChecksLost -> C03!NotCheckable
              [] c = "protection-rules"   /\ ~C03!ChecksLost -> C03!AzureProtectionRules
              [] c = "required-reviewers" /\ ~C03!ChecksLost -> C03!AzureRequiredReviewers
              [] c = "branch-policy"      /\ ~C03!ChecksLost -> C03!AzureBranchPolicy]
<1> DEFINE exists == IF C03!AzureEnvs = {} THEN C03!NotCheckable ELSE IF C03!AzureProdLike
             = {} THEN C03!Partial ELSE C03!Pass
<1> DEFINE protectionRules == IF C03!AzureEnvs = {} THEN C03!NotCheckable ELSE IF C03!AzureProdLike
             = {} THEN C03!Partial ELSE IF C03!ChecksLost THEN C03!NotCheckable ELSE C03!AzureProtectionRules
<1> DEFINE requiredReviewers == IF C03!AzureEnvs = {} THEN C03!NotCheckable ELSE IF C03!AzureProdLike
             = {} THEN C03!Partial ELSE IF C03!ChecksLost THEN C03!NotCheckable ELSE C03!AzureRequiredReviewers
<1> DEFINE branchPolicy == IF C03!AzureEnvs = {} THEN C03!NotCheckable ELSE IF C03!AzureProdLike
             = {} THEN C03!Partial ELSE IF C03!ChecksLost THEN C03!NotCheckable ELSE C03!AzureBranchPolicy
<1>1. C03!Heard({<<"environments">>}) /\ (C03!ChecksLost \/ C03!Heard({"checks"} \X C03!AzureProdLike))
        /\ status' = emitted
  BY DEF C03!AzureDecide, C03!Emit
<1>2. UNCHANGED <<world, heard, seen>>
  BY DEF C03!AzureDecide, C03!Emit
<1>3. QED
  <2>1. /\ status'["exists"] = exists
        /\ status'["protection-rules"] = protectionRules
        /\ status'["required-reviewers"] = requiredReviewers
        /\ status'["branch-policy"] = branchPolicy
        /\ status' = [c \in C03!Checks |-> status'[c]]
    BY <1>1 DEF C03!Checks, C03!Nothing
  <2>2. IF C03!Lost(<<"environments">>) THEN C03!AzureEnvs = {} ELSE C03!AzureEnvs = world.envs
    BY <1>1 DEF C03!AzureEnvs, C03!Heard, C03!Lost, C03!Got, AzureC03Inv, AzureC03Heard, Outcomes
  <2>3. C03!AzureProdLike = {} \/ C03!AzureProdLike = C03!AzureProduction
    BY <2>2 DEF C03!AzureProdLike, C03!AzureProduction
  <2>4. ~C03!ChecksLost => \A e \in C03!AzureProdLike : C03!Enabled(e) = C03!Live(e)
          /\ C03!Live(e) \subseteq C03!Kind
    <3> SUFFICES ASSUME ~C03!ChecksLost, NEW e \in C03!AzureProdLike
        PROVE  C03!Enabled(e) = C03!Live(e) /\ C03!Live(e) \subseteq C03!Kind
      OBVIOUS
    <3>1. e \in Environment /\ world.checks[e] \subseteq C03!Configurations
      BY <2>2 DEF C03!AzureProdLike, AzureC03Inv, C03!AzureTypeOK, C03!SurveyTypeOK, C03!AzureWorlds
    <3>2. <<"checks", e>> \in {"checks"} \X C03!AzureProdLike
      OBVIOUS
    <3>3. heard[<<"checks", e>>] = world.checks[e]
      BY <1>1, <3>1, <3>2 DEF C03!ChecksLost, C03!Lost, C03!Heard, AzureC03Inv, AzureC03Heard,
         Outcomes
    <3>4. C03!Enabled(e) = C03!Live(e)
      BY <3>3 DEF C03!Enabled, C03!Live
    <3>5. C03!Live(e) \subseteq C03!Kind
      BY <3>1 DEF C03!Live, C03!Configurations
    <3>6. QED
      BY <3>4, <3>5
  <2>5. exists \in Statuses /\ C03!AzureRubric("exists", exists)
    BY <2>2, <2>3 DEF C03!AzureRubric, C03!AzureProduction, C03!AzureProdLike, Statuses
  <2>6. protectionRules \in Statuses /\ C03!AzureRubric("protection-rules", protectionRules)
    BY <2>2, <2>3, <2>4 DEF C03!AzureRubric, C03!AzureProduction, C03!AzureProdLike,
       C03!AzureProtectionRules, Statuses
  <2>7. requiredReviewers \in Statuses /\ C03!AzureRubric("required-reviewers", requiredReviewers)
    BY <2>2, <2>3, <2>4 DEF C03!AzureRubric, C03!AzureProduction, C03!AzureProdLike,
       C03!AzureRequiredReviewers, Statuses
  <2>8. branchPolicy \in Statuses /\ C03!AzureRubric("branch-policy", branchPolicy)
    <3>1. C03!AzureProdLike = {} => C03!AzureEnvs = {} \/ C03!AzureProduction = {}
      BY <2>2 DEF C03!AzureProduction, C03!AzureProdLike
    <3>2. C03!AzureEnvs = {} => world.envs = {} \/ C03!Lost(<<"environments">>)
      BY <2>2
    <3>3. C03!AzureEnvs # {} => world.envs # {}
      BY <2>2
    <3>4. CASE C03!AzureProdLike = {} \/ C03!ChecksLost
      BY <3>1, <3>2, <3>3, <3>4 DEF C03!AzureRubric, C03!AzureProdLike, Statuses
    <3>5. CASE C03!AzureProdLike # {} /\ ~C03!ChecksLost
      <4>1. C03!AzureEnvs # {} /\ C03!AzureProdLike = C03!AzureProduction
        BY <2>3, <3>5 DEF C03!AzureProdLike
      <4>2. \A e \in C03!AzureProduction :
              /\ C03!Policy(e) = "absent" <=> C03!Live(e) \cap C03!TaskChecks = {}
              /\ C03!Policy(e) = "ambiguous" <=> C03!Live(e) \cap C03!TaskChecks # {}
                   /\ "branches" \notin C03!Live(e)
              /\ C03!Live(e) \cap C03!TaskChecks = {} => C03!Live(e) \subseteq {"approval", "other"}
        <5> SUFFICES ASSUME NEW e \in C03!AzureProduction
            PROVE  /\ C03!Policy(e) = "absent" <=> C03!Live(e) \cap C03!TaskChecks = {}
                   /\ C03!Policy(e) = "ambiguous" <=> C03!Live(e) \cap C03!TaskChecks # {}
                        /\ "branches" \notin C03!Live(e)
                   /\ C03!Live(e) \cap C03!TaskChecks = {} => C03!Live(e) \subseteq {"approval", "other"}
          OBVIOUS
        <5>1. C03!Enabled(e) = C03!Live(e) /\ C03!Live(e) \subseteq C03!Kind
          BY <2>4, <3>5, <4>1
        <5>2. C03!Live(e) \cap C03!TaskChecks = {} => C03!Live(e) \subseteq {"approval", "other"}
          BY <5>1 DEF C03!Kind, C03!TaskChecks
        <5>3. QED
          BY <5>1, <5>2 DEF C03!Policy, C03!Restricts
      <4>3. CASE \E e \in C03!AzureProduction : C03!Policy(e) = "absent"
        BY <3>5, <4>1, <4>2, <4>3 DEF C03!AzureRubric, C03!AzureBranchPolicy, Statuses
      <4>4. CASE ~\E e \in C03!AzureProduction : C03!Policy(e) = "absent"
        BY <3>5, <4>1, <4>2, <4>4 DEF C03!AzureRubric, C03!AzureBranchPolicy, Statuses
      <4>5. QED
        BY <4>3, <4>4
    <3>6. QED
      BY <3>4, <3>5
  <2> QED
    BY <1>2, <2>1, <2>5, <2>6, <2>7, <2>8 DEF C03!Checks, C03!Nothing

LEMMA AzureC03Goes == AzureC03Inv /\ [C03!AzureNext]_vars => AzureC03Inv'
<1> SUFFICES ASSUME AzureC03Inv, [C03!AzureNext]_vars PROVE AzureC03Inv'
  OBVIOUS
<1>1. CASE C03!AzureListEnvironments
  <2>1. Get(<<"environments">>, world.envs)
    BY <1>1 DEF C03!AzureListEnvironments, C03!Ask, C03!Get, Get
  <2>2. <<"environments">> \in C03!AzureCall
    BY DEF C03!AzureCall
  <2>3. QED
    BY <2>1, <2>2, AzureC03Reads
<1>2. ASSUME NEW e \in Environment, C03!ReadChecks(e) PROVE AzureC03Inv'
  <2>1. Get(<<"checks", e>>, world.checks[e])
    BY <1>2 DEF C03!ReadChecks, C03!Ask, C03!Get, Get
  <2>2. <<"checks", e>> \in C03!AzureCall
    BY DEF C03!AzureCall
  <2>3. QED
    BY <2>1, <2>2, AzureC03Reads
<1>3. CASE C03!AzureDecide
  BY <1>3, AzureC03Verdicts, AzureC03Same DEF AzureC03Inv, C03!AzureTypeOK, C03!SurveyTypeOK,
     C03!AzureRubricHolds, Statuses, Pass, Fail, Partial, NotCheckable, C03!Pass, C03!Fail,
     C03!Partial, C03!NotCheckable
<1>4. CASE UNCHANGED vars
  BY <1>4, AzureC03Same DEF vars, AzureC03Inv, C03!AzureTypeOK, C03!SurveyTypeOK,
     C03!AzureRubricHolds
<1> QED
  BY <1>1, <1>2, <1>3, <1>4 DEF C03!AzureNext

-----------------------------------------------------------------------------
(* C03.env-separation: on GitLab. *)
GitLabC03Heard ==
  /\ heard[<<"client">>] \in Outcomes({TRUE})
  /\ heard[<<"environments">>] \in Outcomes({world.envs})
  /\ heard[<<"protected">>] \in Outcomes({world.protected})
  /\ \A n \in 1..Depth : heard[<<"group", n>>] \in Outcomes({world.group[n]})
  /\ heard[<<"environments">>] # Unasked => Got(<<"client">>)
  /\ heard[<<"protected">>] # Unasked => Got(<<"environments">>) /\ C03!GitLabProduction # {}

GitLabC03Inv == C03!GitLabTypeOK /\ GitLabC03Heard /\ C03!GitLabRubricHolds

LEMMA GitLabC03Starts == C03!GitLabInit => GitLabC03Inv
BY SettingsAssumption DEF C03!GitLabInit, C03!InitWith, GitLabC03Inv, C03!GitLabTypeOK,
   C03!SurveyTypeOK, GitLabC03Heard, Outcomes, Got, C03!GitLabRubricHolds, C03!GitLabCall,
   C03!GitLabProduction

LEMMA GitLabC03Same ==
  ASSUME UNCHANGED <<world, heard, seen>>
  PROVE  /\ GitLabC03Heard' <=> GitLabC03Heard
         /\ \A c, s : C03!GitLabRubric(c, s)' <=> C03!GitLabRubric(c, s)
<1>1. GitLabC03Heard' <=> GitLabC03Heard
  BY DEF GitLabC03Heard, Got, C03!GitLabProduction
<1>2. \A c : C03!Lost(c)' <=> C03!Lost(c)
  BY DEF C03!Lost
<1>3. C03!GitLabProduction' = C03!GitLabProduction /\ C03!Blocked' = C03!Blocked
  BY DEF C03!GitLabProduction, C03!Blocked, C03!Segments, C03!Lost, C03!Got
<1>4. \A e : C03!Above(e)' = C03!Above(e)
  BY DEF C03!Above, C03!Segments
<1>5. \A e : (C03!Protected(e)' <=> C03!Protected(e)) /\ (C03!Approved(e)' <=> C03!Approved(e))
  BY <1>4 DEF C03!Protected, C03!Approved
<1>6. \A c, s : C03!GitLabRubric(c, s)' <=> C03!GitLabRubric(c, s)
  BY <1>2, <1>3, <1>5 DEF C03!GitLabRubric
<1> QED
  BY <1>1, <1>6

LEMMA GitLabC03SameBlind ==
  ASSUME UNCHANGED vars
  PROVE  C03!BlindSpotsAreNamed' <=> C03!BlindSpotsAreNamed
<1>1. C03!Blocked' = C03!Blocked /\ C03!Segments' = C03!Segments
  BY DEF vars, C03!Blocked, C03!Segments, C03!Lost, C03!Got
<1>2. QED
  BY <1>1 DEF vars, C03!BlindSpotsAreNamed, C03!Is

LEMMA GitLabC03Reads ==
  ASSUME GitLabC03Inv, NEW c \in C03!GitLabCall, NEW a, Get(c, a),
         c = <<"client">> => a = TRUE,
         c = <<"environments">> => a = world.envs /\ Got(<<"client">>),
         c = <<"protected">> => a = world.protected /\ Got(<<"environments">>) /\ C03!GitLabProduction # {},
         \A n \in 1..Depth : c = <<"group", n>> => a = world.group[n]
  PROVE  GitLabC03Inv'
<1>1. /\ DOMAIN heard = C03!GitLabCall /\ DOMAIN heard' = C03!GitLabCall
      /\ heard[c] = Unasked /\ heard'[c] \in {a, Failed}
      /\ \A d \in C03!GitLabCall : heard'[d] = IF d = c THEN heard'[c] ELSE heard[d]
      /\ \A d \in C03!GitLabCall : heard[d] # Unasked => heard'[d] = heard[d] /\ d # c
      /\ status = Undecided /\ UNCHANGED <<world, status, seen>>
  BY Answer DEF GitLabC03Inv, C03!GitLabTypeOK, C03!SurveyTypeOK
<1>2. C03!GitLabTypeOK' /\ C03!GitLabRubricHolds'
  BY <1>1 DEF GitLabC03Inv, C03!GitLabTypeOK, C03!SurveyTypeOK, C03!GitLabRubricHolds
<1>3. /\ <<"client">> \in C03!GitLabCall
      /\ <<"environments">> \in C03!GitLabCall
      /\ <<"protected">> \in C03!GitLabCall
      /\ \A n \in 1..Depth : <<"group", n>> \in C03!GitLabCall
  BY DEF C03!GitLabCall
<1>4. heard'[<<"client">>] \in Outcomes({TRUE})
  BY <1>1, <1>3 DEF GitLabC03Inv, GitLabC03Heard, Outcomes
<1>5. heard'[<<"environments">>] \in Outcomes({world.envs})
  BY <1>1, <1>3 DEF GitLabC03Inv, GitLabC03Heard, Outcomes
<1>6. heard'[<<"protected">>] \in Outcomes({world.protected})
  BY <1>1, <1>3 DEF GitLabC03Inv, GitLabC03Heard, Outcomes
<1>7. \A n \in 1..Depth : heard'[<<"group", n>>] \in Outcomes({world.group[n]})
  BY <1>1, <1>3 DEF GitLabC03Inv, GitLabC03Heard, Outcomes
<1>8. ASSUME heard'[<<"environments">>] # Unasked
      PROVE  (Got(<<"client">>))'
  <2>1. Got(<<"client">>)
    BY <1>1, <1>3, <1>8 DEF GitLabC03Inv, GitLabC03Heard
  <2>2. QED
    BY <1>1, <1>3, <2>1 DEF Got, C03!GitLabProduction
<1>9. ASSUME heard'[<<"protected">>] # Unasked
      PROVE  (Got(<<"environments">>) /\ C03!GitLabProduction # {})'
  <2>1. Got(<<"environments">>) /\ C03!GitLabProduction # {}
    BY <1>1, <1>3, <1>9 DEF GitLabC03Inv, GitLabC03Heard
  <2>2. QED
    BY <1>1, <1>3, <2>1 DEF Got, C03!GitLabProduction
<1>10. GitLabC03Heard'
  BY <1>1, <1>4, <1>5, <1>6, <1>7, <1>8, <1>9 DEF GitLabC03Heard
<1> QED
  BY <1>2, <1>10 DEF GitLabC03Inv

LEMMA GitLabC03Settled ==
  ASSUME GitLabC03Inv, C03!GitLabDecide
  PROVE  /\ \/ C03!GitLabEnvs = {} /\ (C03!Lost(<<"client">>) \/ C03!Lost(<<"environments">>))
            \/ C03!GitLabEnvs = world.envs
         /\ C03!Lost(<<"protected">>) \/ C03!Got(<<"protected">>) => C03!GitLabProdLike # {}
         /\ C03!GitLabProdLike # {} => (C03!Got(<<"protected">>) <=> ~C03!Lost(<<"protected">>))
         /\ C03!GitLabProdLike # {} /\ C03!NeedsGroup => \A n \in C03!Segments : heard[<<"group", n>>] # Unasked
         /\ C03!Got(<<"protected">>) => heard[<<"protected">>] = world.protected
<1>1. C03!GitLabEnvs = {} \/ (Got(<<"environments">>) /\ C03!GitLabEnvs = world.envs)
  BY DEF C03!GitLabEnvs, C03!Got, Got, GitLabC03Inv, GitLabC03Heard, Outcomes
<1>2. C03!Lost(<<"client">>) \/ C03!Lost(<<"environments">>) => ~Got(<<"environments">>)
  BY DEF C03!Lost, Got, GitLabC03Inv, GitLabC03Heard
<1>3. C03!Lost(<<"protected">>) => Got(<<"environments">>)
  BY MarkersAssumption DEF C03!Lost, GitLabC03Inv, GitLabC03Heard
<1>4. C03!AllRead /\ \A n \in C03!Segments : <<"group", n>> \in {"group"} \X C03!Segments
  BY DEF C03!GitLabDecide
<1>5. C03!GitLabProdLike # {} => C03!GitLabEnvs # {}
  BY DEF C03!GitLabProdLike
<1>6. Got(<<"environments">>) => C03!GitLabEnvs = world.envs
  BY DEF C03!GitLabEnvs, C03!Got, Got, GitLabC03Inv, GitLabC03Heard, Outcomes
<1>7. \/ C03!GitLabEnvs = {} /\ (C03!Lost(<<"client">>) \/ C03!Lost(<<"environments">>))
      \/ C03!GitLabEnvs = world.envs
  BY <1>1, <1>3, <1>4, <1>6 DEF C03!AllRead, C03!Got, Got
<1>8. C03!GitLabProdLike # {} => (C03!Got(<<"protected">>) <=> ~C03!Lost(<<"protected">>))
  BY <1>1, <1>2, <1>4, <1>5 DEF C03!AllRead, C03!Lost, C03!Got
<1>9. ASSUME C03!GitLabProdLike # {}, C03!NeedsGroup, NEW n \in C03!Segments
      PROVE  heard[<<"group", n>>] # Unasked
  <2>1. ~C03!Lost(<<"client">>) /\ ~C03!Lost(<<"environments">>)
    BY <1>1, <1>2, <1>5, <1>9
  <2>2. ~C03!Lost(<<"protected">>)
    BY <1>9 DEF C03!NeedsGroup, C03!Got, C03!Lost
  <2>3. C03!Heard({"group"} \X C03!Segments)
    BY <1>4, <1>9, <2>1, <2>2 DEF C03!AllRead
  <2>4. QED
    BY <1>4, <2>3 DEF C03!Heard
<1>10. C03!Got(<<"protected">>) => heard[<<"protected">>] = world.protected
  BY DEF C03!Got, GitLabC03Inv, GitLabC03Heard, Outcomes
<1>11. C03!Lost(<<"protected">>) \/ C03!Got(<<"protected">>) => C03!GitLabProdLike # {}
  BY <1>6, MarkersAssumption DEF C03!Lost, C03!Got, GitLabC03Inv, GitLabC03Heard,
     C03!GitLabProdLike, C03!GitLabProduction
<1> QED
  BY <1>7, <1>8, <1>9, <1>10, <1>11

\* What the groups that answered protect is what is protected, but for the blind spots.
LEMMA GitLabC03Groups ==
  ASSUME GitLabC03Inv, C03!GitLabDecide, NEW e
  PROVE  /\ \A g \in C03!ByTier : g.tier = world.tier[e] => g \in C03!Above(e)
         /\ C03!GitLabProdLike # {} /\ C03!NeedsGroup /\ C03!Blocked = {} => C03!Above(e) \subseteq C03!ByTier
<1>1. C03!Segments \subseteq 1..Depth
  <2>1. world.depth \in 1..Depth
    BY DEF GitLabC03Inv, C03!GitLabTypeOK, C03!SurveyTypeOK, C03!GitLabWorlds
  <2>2. QED
    BY <2>1, DepthAssumption DEF C03!Segments
<1>2. \A n \in C03!Segments : C03!Got(<<"group", n>>) => heard[<<"group", n>>] = world.group[n]
  BY <1>1 DEF C03!Got, GitLabC03Inv, GitLabC03Heard, Outcomes
<1>3. ASSUME NEW g \in C03!ByTier, g.tier = world.tier[e]
      PROVE  g \in C03!Above(e)
  <2>1. PICK n \in C03!Segments : /\ C03!Got(<<"group", n>>) /\ heard[<<"group", n>>] # Disabled
                                  /\ g \in heard[<<"group", n>>] /\ g.tier # ""
    BY DEF C03!ByTier
  <2>2. QED
    BY <1>2, <1>3, <2>1 DEF C03!Above
<1>4. ASSUME C03!GitLabProdLike # {}, C03!NeedsGroup, C03!Blocked = {}, NEW g \in C03!Above(e)
      PROVE  g \in C03!ByTier
  <2>1. PICK n \in C03!Segments : world.group[n] # Disabled /\ g \in world.group[n] /\ g.tier # ""
    BY DEF C03!Above
  <2>2. heard[<<"group", n>>] # Unasked
    BY <1>4, GitLabC03Settled
  <2>3. C03!Got(<<"group", n>>)
    BY <1>4, <2>2 DEF C03!Blocked, C03!Lost, C03!Got
  <2>4. QED
    BY <1>2, <2>1, <2>3 DEF C03!ByTier
<1> QED
  BY <1>3, <1>4

\* The verdicts, by what there is to judge: no two arms of the choice apply at once.
LEMMA GitLabC03Shape ==
  ASSUME GitLabC03Inv, C03!GitLabDecide
  PROVE  /\ status' = [c \in C03!Checks |-> status'[c]]
         /\ status'["branch-policy"] = C03!GitLabBranchPolicy
         /\ status'["exists"] = IF C03!GitLabEnvs = {} THEN C03!NotCheckable ELSE IF C03!GitLabProdLike
              = {} THEN C03!Partial ELSE C03!Pass
         /\ status'["protection-rules"] = IF C03!GitLabEnvs = {} THEN C03!NotCheckable
              ELSE IF C03!GitLabProdLike = {} THEN C03!Partial
                                          ELSE IF C03!Lost(<<"protected">>) THEN C03!NotCheckable
                                            ELSE C03!GitLabProtectionRules
         /\ status'["required-reviewers"] = IF C03!GitLabEnvs = {} THEN C03!NotCheckable
              ELSE IF C03!GitLabProdLike = {} THEN C03!Partial
                                            ELSE IF C03!Lost(<<"protected">>) THEN C03!NotCheckable
                                              ELSE C03!GitLabRequiredReviewers
<1>1. C03!GitLabProdLike # {} => C03!GitLabEnvs # {}
        /\ (C03!Got(<<"protected">>) <=> ~C03!Lost(<<"protected">>))
  BY GitLabC03Settled DEF C03!GitLabProdLike
<1>2. C03!GitLabProdLike = {} => ~C03!Got(<<"protected">>) /\ ~C03!Lost(<<"protected">>)
  BY GitLabC03Settled
<1>3. CASE C03!GitLabEnvs = {}
  BY <1>1, <1>2, <1>3 DEF C03!GitLabDecide, C03!Emit, C03!Checks
<1>4. CASE C03!GitLabEnvs # {} /\ C03!GitLabProdLike = {}
  BY <1>1, <1>2, <1>4 DEF C03!GitLabDecide, C03!Emit, C03!Checks
<1>5. CASE C03!GitLabProdLike # {}
  BY <1>1, <1>5 DEF C03!GitLabDecide, C03!Emit, C03!Checks
<1> QED
  BY <1>3, <1>4, <1>5

LEMMA GitLabC03Verdicts ==
  ASSUME GitLabC03Inv, C03!GitLabDecide
  PROVE  /\ status' \in [C03!Checks -> Statuses] /\ UNCHANGED <<world, heard, seen>>
         /\ \A c \in C03!Checks : C03!GitLabRubric(c, status'[c])
<1> USE DEF Pass, Fail, Partial, NotCheckable, C03!Pass, C03!Fail, C03!Partial, C03!NotCheckable
<1> DEFINE emitted == [c \in C03!Checks |->
     CASE c = "branch-policy" -> C03!GitLabBranchPolicy
       [] c # "branch-policy" /\ C03!GitLabEnvs = {} -> C03!NotCheckable
       [] c # "branch-policy" /\ C03!GitLabEnvs # {} /\ C03!GitLabProdLike = {} -> C03!Partial
       [] c = "exists" /\ C03!GitLabProdLike # {} -> C03!Pass
       [] c \in {"protection-rules", "required-reviewers"} /\ C03!Lost(<<"protected">>) -> C03!NotCheckable
       [] c = "protection-rules" /\ C03!Got(<<"protected">>) -> C03!GitLabProtectionRules
       [] c = "required-reviewers" /\ C03!Got(<<"protected">>) -> C03!GitLabRequiredReviewers]
<1> DEFINE exists == IF C03!GitLabEnvs = {} THEN C03!NotCheckable ELSE IF C03!GitLabProdLike
             = {} THEN C03!Partial ELSE C03!Pass
<1> DEFINE protectionRules == IF C03!GitLabEnvs = {} THEN C03!NotCheckable ELSE IF C03!GitLabProdLike
             = {} THEN C03!Partial ELSE IF C03!Lost(<<"protected">>) THEN C03!NotCheckable
               ELSE C03!GitLabProtectionRules
<1> DEFINE requiredReviewers == IF C03!GitLabEnvs = {} THEN C03!NotCheckable ELSE IF C03!GitLabProdLike
             = {} THEN C03!Partial ELSE IF C03!Lost(<<"protected">>) THEN C03!NotCheckable
               ELSE C03!GitLabRequiredReviewers
<1>1. C03!AllRead /\ status' = emitted
  BY DEF C03!GitLabDecide, C03!Emit
<1>2. UNCHANGED <<world, heard, seen>>
  BY DEF C03!GitLabDecide, C03!Emit
<1>3. QED
  <2>1. /\ status'["branch-policy"] = C03!GitLabBranchPolicy
        /\ status'["exists"] = exists
        /\ status'["protection-rules"] = protectionRules
        /\ status'["required-reviewers"] = requiredReviewers
        /\ status' = [c \in C03!Checks |-> status'[c]]
    BY <1>1, GitLabC03Shape DEF C03!Checks
  <2>2. C03!GitLabProdLike # {} =>
          C03!GitLabEnvs # {} /\ C03!GitLabProdLike = C03!GitLabProduction
    BY GitLabC03Settled DEF C03!GitLabProdLike, C03!GitLabProduction
  <2>3. C03!GitLabEnvs = {} => world.envs = {} \/ C03!Lost(<<"client">>) \/ C03!Lost(<<"environments">>)
    BY GitLabC03Settled
  <2>4. C03!GitLabEnvs # {} /\ C03!GitLabProdLike = {} => world.envs # {} /\ C03!GitLabProduction = {}
    BY GitLabC03Settled DEF C03!GitLabProdLike, C03!GitLabProduction
  <2>5. C03!GitLabProdLike # {} /\ ~C03!Lost(<<"protected">>) =>
          C03!Got(<<"protected">>) /\ heard[<<"protected">>] = world.protected
    BY GitLabC03Settled
  <2>6. C03!GitLabProdLike # {} /\ ~C03!Lost(<<"protected">>) =>
          /\ \A e \in C03!GitLabProduction :
               /\ C03!GroupProtects(e) => C03!Above(e) # {}
               /\ C03!GroupApproves(e) => \E g \in C03!Above(e) : g.approval
          /\ C03!Blocked = {} => \A e \in C03!GitLabProduction : world.protected[e] # "approval" =>
               /\ ~C03!GroupProtects(e) => C03!Above(e) = {}
               /\ ~C03!GroupApproves(e) => \A g \in C03!Above(e) : ~g.approval
    <3>1. SUFFICES ASSUME C03!GitLabProdLike # {}, ~C03!Lost(<<"protected">>), NEW e \in C03!GitLabProduction
          PROVE  /\ C03!GroupProtects(e) => C03!Above(e) # {}
                 /\ C03!GroupApproves(e) => \E g \in C03!Above(e) : g.approval
                 /\ C03!Blocked = {} /\ world.protected[e] # "approval" =>
                      /\ ~C03!GroupProtects(e) => C03!Above(e) = {}
                      /\ ~C03!GroupApproves(e) => \A g \in C03!Above(e) : ~g.approval
      OBVIOUS
    <3>2. \A g \in C03!ByTier : g.tier = world.tier[e] => g \in C03!Above(e)
      BY GitLabC03Groups
    <3>3. ASSUME C03!Blocked = {}, world.protected[e] # "approval"
          PROVE  \A g \in C03!Above(e) : g \in C03!ByTier /\ g.tier = world.tier[e]
      <4>1. C03!NeedsGroup
        BY <2>2, <2>5, <3>1, <3>3 DEF C03!NeedsGroup
      <4>2. C03!Above(e) \subseteq C03!ByTier
        BY <3>1, <3>3, <4>1, GitLabC03Groups
      <4>3. QED
        BY <4>2 DEF C03!Above
    <3>4. QED
      BY <3>2, <3>3 DEF C03!GroupProtects, C03!GroupApproves
  <2>7. C03!GitLabBranchPolicy \in Statuses /\ C03!GitLabRubric("branch-policy", C03!GitLabBranchPolicy)
    BY DEF C03!GitLabRubric, C03!GitLabBranchPolicy, Statuses
  <2>8. exists \in Statuses /\ C03!GitLabRubric("exists", exists)
    BY <2>2, <2>3, <2>4 DEF C03!GitLabRubric, Statuses
  <2>9. protectionRules \in Statuses /\ C03!GitLabRubric("protection-rules", protectionRules)
    <3>1. CASE C03!GitLabProdLike = {} \/ C03!Lost(<<"protected">>)
      BY <2>2, <2>3, <2>4, <3>1 DEF C03!GitLabRubric, C03!GitLabProdLike, Statuses
    <3>2. CASE C03!GitLabProdLike # {} /\ ~C03!Lost(<<"protected">>)
      <4>1. CASE \E e \in C03!GitLabProdLike : heard[<<"protected">>][e] = "none" /\ ~C03!GroupProtects(e)
        BY <2>2, <2>5, <2>6, <3>2, <4>1 DEF C03!GitLabRubric, C03!GitLabProtectionRules,
           C03!Protected, Statuses
      <4>2. CASE ~\E e \in C03!GitLabProdLike : heard[<<"protected">>][e] = "none" /\ ~C03!GroupProtects(e)
        BY <2>2, <2>5, <2>6, <3>2, <4>2 DEF C03!GitLabRubric, C03!GitLabProtectionRules,
           C03!Protected, Statuses
      <4>3. QED
        BY <4>1, <4>2
    <3>3. QED
      BY <3>1, <3>2
  <2>10. requiredReviewers \in Statuses /\ C03!GitLabRubric("required-reviewers", requiredReviewers)
    <3>1. CASE C03!GitLabProdLike = {} \/ C03!Lost(<<"protected">>)
      BY <2>2, <2>3, <2>4, <3>1 DEF C03!GitLabRubric, C03!GitLabProdLike, Statuses
    <3>2. CASE C03!GitLabProdLike # {} /\ ~C03!Lost(<<"protected">>)
      <4>1. CASE \E e \in C03!GitLabProdLike : heard[<<"protected">>][e] # "approval" /\ ~C03!GroupApproves(e)
        BY <2>2, <2>5, <2>6, <3>2, <4>1 DEF C03!GitLabRubric, C03!GitLabRequiredReviewers,
           C03!Approved, Statuses
      <4>2. CASE ~\E e \in C03!GitLabProdLike : heard[<<"protected">>][e] # "approval" /\ ~C03!GroupApproves(e)
        BY <2>2, <2>5, <2>6, <3>2, <4>2 DEF C03!GitLabRubric, C03!GitLabRequiredReviewers,
           C03!Approved, Statuses
      <4>3. QED
        BY <4>1, <4>2
    <3>3. QED
      BY <3>1, <3>2
  <2> QED
    BY <1>2, <2>1, <2>7, <2>8, <2>9, <2>10 DEF C03!Checks

LEMMA GitLabC03Blind ==
  ASSUME GitLabC03Inv, C03!GitLabDecide
  PROVE  C03!BlindSpotsAreNamed'
<1>0. UNCHANGED <<world, heard, seen>>
  BY DEF C03!GitLabDecide, C03!Emit
<1>1. C03!Blocked' = C03!Blocked /\ C03!Segments' = C03!Segments
  BY <1>0 DEF C03!Blocked, C03!Segments, C03!Lost, C03!Got
<1> SUFFICES ASSUME NEW c \in {"protection-rules", "required-reviewers"}, status'[c] = C03!Fail,
                    C03!Blocked = {}, world.depth > 1, NEW n \in C03!Segments
             PROVE  world.group[n] # Disabled
  BY <1>0, <1>1 DEF C03!BlindSpotsAreNamed, C03!Is
<1>2. C03!GitLabProdLike # {} /\ C03!NeedsGroup
  <2>1. /\ C03!GitLabEnvs # {} /\ C03!GitLabProdLike # {} /\ ~C03!Lost(<<"protected">>)
        /\ status'[c] \in {C03!GitLabProtectionRules, C03!GitLabRequiredReviewers}
    <3>1. status'[c] = IF C03!GitLabEnvs = {} THEN C03!NotCheckable ELSE IF C03!GitLabProdLike
            = {} THEN C03!Partial
                       ELSE IF C03!Lost(<<"protected">>) THEN C03!NotCheckable
                       ELSE IF c = "protection-rules" THEN C03!GitLabProtectionRules
                         ELSE C03!GitLabRequiredReviewers
      BY GitLabC03Shape
    <3>2. QED
      BY <3>1 DEF Pass, Fail, Partial, NotCheckable, C03!Pass, C03!Fail, C03!Partial,
         C03!NotCheckable
  <2>2. PICK e \in C03!GitLabProdLike : heard[<<"protected">>][e] # "approval"
    BY <2>1 DEF C03!GitLabProtectionRules, C03!GitLabRequiredReviewers, Pass, Fail, Partial,
       NotCheckable, C03!Pass, C03!Fail, C03!Partial, C03!NotCheckable
  <2>3. QED
    BY <2>1, <2>2, GitLabC03Settled DEF C03!NeedsGroup
<1>3. heard[<<"group", n>>] # Unasked /\ heard[<<"group", n>>] # Failed /\ heard[<<"group", n>>] # Disabled
  BY <1>2, GitLabC03Settled DEF C03!Blocked, C03!Lost, C03!Got
<1>4. n \in 1..Depth
  <2>1. world.depth \in 1..Depth
    BY DEF GitLabC03Inv, C03!GitLabTypeOK, C03!SurveyTypeOK, C03!GitLabWorlds
  <2>2. QED
    BY <2>1, DepthAssumption DEF C03!Segments
<1> QED
  BY <1>3, <1>4 DEF GitLabC03Inv, GitLabC03Heard, Outcomes

LEMMA GitLabC03Goes == GitLabC03Inv /\ [C03!GitLabNext]_vars => GitLabC03Inv'
<1> SUFFICES ASSUME GitLabC03Inv, [C03!GitLabNext]_vars PROVE GitLabC03Inv'
  OBVIOUS
<1>1. CASE C03!NewClient
  <2>1. Get(<<"client">>, TRUE)
    BY <1>1 DEF C03!NewClient, C03!Ask, C03!Get, Get
  <2>2. <<"client">> \in C03!GitLabCall
    BY DEF C03!GitLabCall
  <2>3. QED
    BY <2>1, <2>2, GitLabC03Reads
<1>2. CASE C03!GitLabListEnvironments
  <2>1. Get(<<"environments">>, world.envs) /\ Got(<<"client">>)
    BY <1>2 DEF C03!GitLabListEnvironments, C03!Ask, C03!Get, Get, C03!Got, Got
  <2>2. <<"environments">> \in C03!GitLabCall
    BY DEF C03!GitLabCall
  <2>3. QED
    BY <2>1, <2>2, GitLabC03Reads
<1>3. CASE C03!ReadProtected
  <2>1. Get(<<"protected">>, world.protected) /\ Got(<<"environments">>) /\ C03!GitLabProduction # {}
    BY <1>3 DEF C03!ReadProtected, C03!Ask, C03!Get, Get, C03!GitLabProdLike, C03!GitLabEnvs,
       C03!Got, Got, GitLabC03Inv, GitLabC03Heard, Outcomes, C03!GitLabProduction
  <2>2. <<"protected">> \in C03!GitLabCall
    BY DEF C03!GitLabCall
  <2>3. QED
    BY <2>1, <2>2, GitLabC03Reads
<1>4. ASSUME NEW n \in 1..Depth, C03!ReadGroup(n) PROVE GitLabC03Inv'
  <2>1. Get(<<"group", n>>, world.group[n])
    BY <1>4 DEF C03!ReadGroup, C03!Ask, C03!Get, Get
  <2>2. <<"group", n>> \in C03!GitLabCall
    BY DEF C03!GitLabCall
  <2>3. QED
    BY <2>1, <2>2, GitLabC03Reads
<1>5. CASE C03!GitLabDecide
  BY <1>5, GitLabC03Verdicts, GitLabC03Same, GitLabC03Blind DEF GitLabC03Inv, C03!GitLabTypeOK,
     C03!SurveyTypeOK, C03!GitLabRubricHolds, Statuses, Pass, Fail, Partial, NotCheckable,
     C03!Pass, C03!Fail, C03!Partial, C03!NotCheckable
<1>6. CASE UNCHANGED vars
  BY <1>6, GitLabC03Same, GitLabC03SameBlind DEF vars, GitLabC03Inv, C03!GitLabTypeOK,
     C03!SurveyTypeOK, C03!GitLabRubricHolds
<1> QED
  BY <1>1, <1>2, <1>3, <1>4, <1>5, <1>6 DEF C03!GitLabNext
-----------------------------------------------------------------------------
(* C04.secrets-hygiene: on GitHub. *)
GitHubC04Repository == [private |-> world.private, analysis |-> world.analysis]

GitHubC04Heard ==
  /\ heard[<<"org">>] \in Outcomes({world.defaults})
  /\ heard[<<"repository">>] \in Outcomes({GitHubC04Repository})
  /\ heard[<<"alerts">>] \in Outcomes({world.alerts})
  /\ heard[<<"org">>] # Unasked => ~world.personal
  /\ heard[<<"repository">>] # Unasked => (~world.personal => heard[<<"org">>] # Unasked)
  /\ heard[<<"alerts">>] # Unasked => Got(<<"repository">>)

GitHubC04Inv == C04!GitHubTypeOK /\ GitHubC04Heard /\ C04!GitHubAccountedFor

LEMMA GitHubC04Starts == C04!GitHubInit => GitHubC04Inv
BY SettingsAssumption DEF C04!GitHubInit, C04!InitWith, GitHubC04Inv, C04!GitHubTypeOK,
   C04!SurveyTypeOK, GitHubC04Heard, Outcomes, Got, C04!GitHubAccountedFor, C04!GitHubCall,
   GitHubC04Repository

LEMMA GitHubC04Same ==
  ASSUME UNCHANGED <<world, heard, seen>>
  PROVE  /\ GitHubC04Heard' <=> GitHubC04Heard
         /\ \A c, s : C04!GitHubAccounted(c, s)' <=> C04!GitHubAccounted(c, s)
<1>1. GitHubC04Heard' <=> GitHubC04Heard
  BY DEF GitHubC04Heard, Got, GitHubC04Repository
<1>2. \A c, s : C04!GitHubAccounted(c, s)' <=> C04!GitHubAccounted(c, s)
  BY DEF C04!GitHubAccounted, C04!GitHubRubric, C04!Lost, C04!repository, C04!On, C04!analysis,
     C04!Available, C04!private, C04!DefaultsThat, C04!GitHubDeviates
<1> QED
  BY <1>1, <1>2

LEMMA GitHubC04Reads ==
  ASSUME GitHubC04Inv, NEW c \in C04!GitHubCall, NEW a, Get(c, a),
         c = <<"org">> => a = world.defaults /\ ~world.personal,
         c = <<"repository">> => a = GitHubC04Repository /\ (~world.personal => heard[<<"org">>] # Unasked),
         c = <<"alerts">> => a = world.alerts /\ Got(<<"repository">>)
  PROVE  GitHubC04Inv'
<1>1. /\ DOMAIN heard = C04!GitHubCall /\ DOMAIN heard' = C04!GitHubCall
      /\ heard[c] = Unasked /\ heard'[c] \in {a, Failed}
      /\ \A d \in C04!GitHubCall : heard'[d] = IF d = c THEN heard'[c] ELSE heard[d]
      /\ \A d \in C04!GitHubCall : heard[d] # Unasked => heard'[d] = heard[d] /\ d # c
      /\ status = Undecided /\ UNCHANGED <<world, status, seen>>
  BY Answer DEF GitHubC04Inv, C04!GitHubTypeOK, C04!SurveyTypeOK
<1>2. C04!GitHubTypeOK' /\ C04!GitHubAccountedFor'
  BY <1>1 DEF GitHubC04Inv, C04!GitHubTypeOK, C04!SurveyTypeOK, C04!GitHubAccountedFor
<1>3. /\ <<"org">> \in C04!GitHubCall
      /\ <<"repository">> \in C04!GitHubCall
      /\ <<"alerts">> \in C04!GitHubCall
  BY DEF C04!GitHubCall
<1>4. heard'[<<"org">>] \in Outcomes({world.defaults})
  BY <1>1, <1>3 DEF GitHubC04Inv, GitHubC04Heard, Outcomes
<1>5. heard'[<<"repository">>] \in Outcomes({GitHubC04Repository})
  BY <1>1, <1>3 DEF GitHubC04Inv, GitHubC04Heard, Outcomes
<1>6. heard'[<<"alerts">>] \in Outcomes({world.alerts})
  BY <1>1, <1>3 DEF GitHubC04Inv, GitHubC04Heard, Outcomes
<1>7. ASSUME heard'[<<"org">>] # Unasked
      PROVE  (~world.personal)'
  <2>1. ~world.personal
    BY <1>1, <1>3, <1>7 DEF GitHubC04Inv, GitHubC04Heard
  <2>2. QED
    BY <1>1, <1>3, <2>1 DEF Got, GitHubC04Repository
<1>8. ASSUME heard'[<<"repository">>] # Unasked
      PROVE  ((~world.personal => heard[<<"org">>] # Unasked))'
  <2>1. (~world.personal => heard[<<"org">>] # Unasked)
    BY <1>1, <1>3, <1>8 DEF GitHubC04Inv, GitHubC04Heard
  <2>2. QED
    BY <1>1, <1>3, <2>1 DEF Got, GitHubC04Repository
<1>9. ASSUME heard'[<<"alerts">>] # Unasked
      PROVE  (Got(<<"repository">>))'
  <2>1. Got(<<"repository">>)
    BY <1>1, <1>3, <1>9 DEF GitHubC04Inv, GitHubC04Heard
  <2>2. QED
    BY <1>1, <1>3, <2>1 DEF Got, GitHubC04Repository
<1>10. GitHubC04Heard'
  BY <1>1, <1>4, <1>5, <1>6, <1>7, <1>8, <1>9 DEF GitHubC04Heard, GitHubC04Repository
<1> QED
  BY <1>2, <1>10 DEF GitHubC04Inv

LEMMA GitHubC04Read ==
  ASSUME GitHubC04Inv, C04!GitHubDecide
  PROVE  C04!Got(<<"repository">>) <=> ~C04!Lost(<<"repository">>)
BY MarkersAssumption DEF C04!GitHubDecide, C04!Lost, C04!Heard, C04!Got, Got, GitHubC04Inv,
   GitHubC04Heard

LEMMA GitHubC04Verdicts ==
  ASSUME GitHubC04Inv, C04!GitHubDecide
  PROVE  /\ status' \in [C04!GitHubChecks -> Statuses] /\ UNCHANGED <<world, heard, seen>>
         /\ \A c \in C04!GitHubChecks : C04!GitHubAccounted(c, status'[c])
<1> USE DEF Pass, Fail, Partial, NotCheckable, C04!Pass, C04!Fail, C04!Partial, C04!NotCheckable
<1> DEFINE emitted == [c \in C04!GitHubChecks |->
     CASE c = "security-defaults" -> C04!GitHubSecurityDefaults
       [] c \in C04!GitHubRepoChecks /\ C04!Lost(<<"repository">>) -> C04!NotCheckable
       [] c = "scanning-enabled"  /\ C04!Got(<<"repository">>) -> C04!SecretScanning
       [] c = "push-protection"   /\ C04!Got(<<"repository">>) -> C04!GitHubPushProtection
       [] c = "advanced-security" /\ C04!Got(<<"repository">>) -> C04!GitHubAdvancedSecurity
       [] c = "dependabot-alerts" /\ C04!Got(<<"repository">>) -> C04!GitHubDependabotAlerts]
<1> DEFINE scanningEnabled == IF C04!Lost(<<"repository">>) THEN C04!NotCheckable ELSE C04!SecretScanning
<1> DEFINE pushProtection == IF C04!Lost(<<"repository">>) THEN C04!NotCheckable ELSE C04!GitHubPushProtection
<1> DEFINE advancedSecurity == IF C04!Lost(<<"repository">>) THEN C04!NotCheckable
             ELSE C04!GitHubAdvancedSecurity
<1> DEFINE dependabotAlerts == IF C04!Lost(<<"repository">>) THEN C04!NotCheckable
             ELSE C04!GitHubDependabotAlerts
<1>1. (C04!Lost(<<"repository">>) \/ C04!Heard({<<"alerts">>})) /\ status' = emitted
  BY DEF C04!GitHubDecide, C04!Emit
<1>2. UNCHANGED <<world, heard, seen>>
  BY DEF C04!GitHubDecide, C04!Emit
<1>3. QED
  <2>1. /\ status'["security-defaults"] = C04!GitHubSecurityDefaults
        /\ status'["scanning-enabled"] = scanningEnabled
        /\ status'["push-protection"] = pushProtection
        /\ status'["advanced-security"] = advancedSecurity
        /\ status'["dependabot-alerts"] = dependabotAlerts
        /\ status' = [c \in C04!GitHubChecks |-> status'[c]]
    BY <1>1, GitHubC04Read DEF C04!GitHubChecks, C04!GitHubRepoChecks
  <2>2. ~C04!Lost(<<"repository">>) => heard[<<"alerts">>] \in {Failed, world.alerts}
    BY <1>1 DEF C04!Heard, GitHubC04Inv, GitHubC04Heard, Outcomes
  <2>3. heard[<<"repository">>] \in {Failed, GitHubC04Repository}
    BY GitHubC04Read DEF C04!Lost, C04!Got, GitHubC04Inv, GitHubC04Heard, Outcomes
  <2>4. world.personal \/ heard[<<"org">>] \in {Failed, world.defaults}
    BY GitHubC04Read, MarkersAssumption DEF C04!Lost, C04!Got, GitHubC04Inv, GitHubC04Heard,
       Outcomes
  <2>5. world \in C04!GitHubWorlds
    BY DEF GitHubC04Inv, C04!GitHubTypeOK, C04!SurveyTypeOK
  <2>6. ~C04!Lost(<<"repository">>) => C04!analysis = world.analysis /\ C04!private = world.private
    BY <2>3 DEF C04!Lost, C04!analysis, C04!private, GitHubC04Repository
  <2>7. C04!GitHubSecurityDefaults \in Statuses /\ C04!GitHubAccounted("security-defaults",
          C04!GitHubSecurityDefaults)
    <3>1. world.defaults \in [C04!Default -> C04!Reported]
      BY <2>5 DEF C04!GitHubWorlds
    <3>2. /\ (\A f \in C04!Default : world.defaults[f] = "absent") <=> C04!DefaultsThat("absent") = C04!Default
          /\ (\A f \in C04!Default : world.defaults[f] = "enabled") <=> C04!DefaultsThat("enabled")
               = C04!Default
          /\ C04!DefaultsThat("enabled") # C04!Default => C04!DefaultsThat("disabled") # {}
               \/ C04!DefaultsThat("absent") # {}
      BY <3>1 DEF C04!DefaultsThat, C04!Reported
    <3>3. CASE world.personal
      BY <3>3 DEF C04!GitHubAccounted, C04!GitHubDeviates, C04!GitHubSecurityDefaults, Statuses
    <3>4. CASE ~world.personal /\ C04!Lost(<<"org">>)
      BY <3>4 DEF C04!GitHubAccounted, C04!GitHubRubric, C04!GitHubSecurityDefaults, Statuses
    <3>5. CASE ~world.personal /\ ~C04!Lost(<<"org">>)
      <4>1. heard[<<"org">>] = world.defaults
        BY <2>4, <3>5 DEF C04!Lost
      <4>2. CASE C04!GitHubSecurityDefaults = C04!NotCheckable /\ C04!DefaultsThat("absent") = C04!Default
        BY <4>2 DEF C04!GitHubAccounted, C04!GitHubRubric, Statuses
      <4>3. CASE C04!GitHubSecurityDefaults = C04!Pass /\ C04!DefaultsThat("enabled") = C04!Default
        BY <4>3 DEF C04!GitHubAccounted, C04!GitHubRubric, Statuses
      <4>4. CASE /\ C04!GitHubSecurityDefaults = C04!Fail /\ C04!DefaultsThat("absent") # C04!Default
                 /\ C04!DefaultsThat("disabled") # {} \/ C04!DefaultsThat("absent") # {}
        BY <4>4 DEF C04!GitHubAccounted, C04!GitHubRubric, C04!GitHubDeviates, Statuses
      <4>5. QED
        BY <3>2, <3>5, <4>1, <4>2, <4>3, <4>4 DEF C04!GitHubSecurityDefaults
    <3>6. QED
      BY <3>3, <3>4, <3>5
  <2>8. scanningEnabled \in Statuses /\ C04!GitHubAccounted("scanning-enabled", scanningEnabled)
    BY <2>5, <2>6 DEF C04!GitHubAccounted, C04!GitHubRubric, C04!GitHubDeviates, C04!DefaultsThat,
       C04!SecretScanning, C04!Gated, C04!GitHubWorlds, C04!On, C04!Available, C04!Feature,
       Statuses
  <2>9. pushProtection \in Statuses /\ C04!GitHubAccounted("push-protection", pushProtection)
    BY <2>5, <2>6 DEF C04!GitHubAccounted, C04!GitHubRubric, C04!GitHubDeviates, C04!DefaultsThat,
       C04!GitHubPushProtection, C04!Gated, C04!GitHubWorlds, C04!On, C04!Available, C04!Feature,
       Statuses
  <2>10. advancedSecurity \in Statuses /\ C04!GitHubAccounted("advanced-security", advancedSecurity)
    BY <2>5, <2>6 DEF C04!GitHubAccounted, C04!GitHubRubric, C04!GitHubDeviates, C04!DefaultsThat,
       C04!GitHubAdvancedSecurity, C04!GitHubWorlds, C04!On, C04!Feature, Statuses
  <2>11. dependabotAlerts \in Statuses /\ C04!GitHubAccounted("dependabot-alerts", dependabotAlerts)
    BY <2>2, <2>5 DEF C04!GitHubAccounted, C04!GitHubRubric, C04!GitHubDeviates, C04!DefaultsThat,
       C04!GitHubDependabotAlerts, C04!GitHubWorlds, C04!Lost, Statuses
  <2> QED
    BY <1>2, <2>1, <2>7, <2>8, <2>9, <2>10, <2>11 DEF C04!GitHubChecks, C04!GitHubRepoChecks

LEMMA GitHubC04Goes == GitHubC04Inv /\ [C04!GitHubNext]_vars => GitHubC04Inv'
<1> SUFFICES ASSUME GitHubC04Inv, [C04!GitHubNext]_vars PROVE GitHubC04Inv'
  OBVIOUS
<1>1. CASE C04!GitHubReadOrg
  BY <1>1, GitHubC04Reads DEF C04!GitHubReadOrg, C04!Ask, C04!Get, Get, C04!GitHubCall
<1>2. CASE C04!GitHubReadRepository
  BY <1>2, GitHubC04Reads DEF C04!GitHubReadRepository, C04!Ask, C04!Get, Get, C04!GitHubCall,
     C04!OrgRead, C04!Heard, GitHubC04Repository
<1>3. CASE C04!ReadAlerts
  BY <1>3, GitHubC04Reads DEF C04!ReadAlerts, C04!Ask, C04!Get, Get, C04!GitHubCall, Got, C04!Got
<1>4. CASE C04!GitHubDecide
  BY <1>4, GitHubC04Verdicts, GitHubC04Same DEF GitHubC04Inv, C04!GitHubTypeOK, C04!SurveyTypeOK,
     C04!GitHubAccountedFor, Statuses, Pass, Fail, Partial, NotCheckable, C04!Pass, C04!Fail,
     C04!Partial, C04!NotCheckable
<1>5. CASE UNCHANGED vars
  BY <1>5, GitHubC04Same DEF vars, GitHubC04Inv, C04!GitHubTypeOK, C04!SurveyTypeOK,
     C04!GitHubAccountedFor
<1> QED
  BY <1>1, <1>2, <1>3, <1>4, <1>5 DEF C04!GitHubNext

-----------------------------------------------------------------------------
(* C04.secrets-hygiene: on Azure DevOps. *)
AzureC04Repository == [code |-> world.code, secrets |-> world.secrets, pushes |-> world.pushes]

AzureC04Heard ==
  /\ heard[<<"org">>] \in Outcomes({world.defaults})
  /\ heard[<<"groups">>] \in Outcomes({world.groups})
  /\ heard[<<"repository">>] \in Outcomes({AzureC04Repository})
  /\ heard[<<"groups">>] # Unasked => heard[<<"org">>] # Unasked
  /\ heard[<<"repository">>] # Unasked => heard[<<"groups">>] # Unasked

AzureC04Inv == C04!AzureTypeOK /\ AzureC04Heard /\ C04!AzureAccountedFor

LEMMA AzureC04Starts == C04!AzureInit => AzureC04Inv
BY SettingsAssumption DEF C04!AzureInit, C04!InitWith, AzureC04Inv, C04!AzureTypeOK,
   C04!SurveyTypeOK, AzureC04Heard, Outcomes, Got, C04!AzureAccountedFor, C04!AzureCall,
   AzureC04Repository

LEMMA AzureC04Same ==
  ASSUME UNCHANGED <<world, heard, seen>>
  PROVE  /\ AzureC04Heard' <=> AzureC04Heard
         /\ \A c, s : C04!AzureAccounted(c, s)' <=> C04!AzureAccounted(c, s)
<1>1. AzureC04Heard' <=> AzureC04Heard
  BY DEF AzureC04Heard, Got, AzureC04Repository
<1>2. \A c, s : C04!AzureAccounted(c, s)' <=> C04!AzureAccounted(c, s)
  BY DEF C04!AzureAccounted, C04!AzureRubric, C04!Lost, C04!repository, C04!AzureOffends,
     C04!AzureDeviates
<1> QED
  BY <1>1, <1>2

LEMMA AzureC04Reads ==
  ASSUME AzureC04Inv, NEW c \in C04!AzureCall, NEW a, Get(c, a),
         c = <<"org">> => a = world.defaults,
         c = <<"groups">> => a = world.groups /\ heard[<<"org">>] # Unasked,
         c = <<"repository">> => a = AzureC04Repository /\ heard[<<"groups">>] # Unasked
  PROVE  AzureC04Inv'
<1>1. /\ DOMAIN heard = C04!AzureCall /\ DOMAIN heard' = C04!AzureCall
      /\ heard[c] = Unasked /\ heard'[c] \in {a, Failed}
      /\ \A d \in C04!AzureCall : heard'[d] = IF d = c THEN heard'[c] ELSE heard[d]
      /\ \A d \in C04!AzureCall : heard[d] # Unasked => heard'[d] = heard[d] /\ d # c
      /\ status = Undecided /\ UNCHANGED <<world, status, seen>>
  BY Answer DEF AzureC04Inv, C04!AzureTypeOK, C04!SurveyTypeOK
<1>2. C04!AzureTypeOK' /\ C04!AzureAccountedFor'
  BY <1>1 DEF AzureC04Inv, C04!AzureTypeOK, C04!SurveyTypeOK, C04!AzureAccountedFor
<1>3. /\ <<"org">> \in C04!AzureCall
      /\ <<"groups">> \in C04!AzureCall
      /\ <<"repository">> \in C04!AzureCall
  BY DEF C04!AzureCall
<1>4. heard'[<<"org">>] \in Outcomes({world.defaults})
  BY <1>1, <1>3 DEF AzureC04Inv, AzureC04Heard, Outcomes
<1>5. heard'[<<"groups">>] \in Outcomes({world.groups})
  BY <1>1, <1>3 DEF AzureC04Inv, AzureC04Heard, Outcomes
<1>6. heard'[<<"repository">>] \in Outcomes({AzureC04Repository})
  BY <1>1, <1>3 DEF AzureC04Inv, AzureC04Heard, Outcomes
<1>7. ASSUME heard'[<<"groups">>] # Unasked
      PROVE  (heard[<<"org">>] # Unasked)'
  <2>1. heard[<<"org">>] # Unasked
    BY <1>1, <1>3, <1>7 DEF AzureC04Inv, AzureC04Heard
  <2>2. QED
    BY <1>1, <1>3, <2>1 DEF Got, AzureC04Repository
<1>8. ASSUME heard'[<<"repository">>] # Unasked
      PROVE  (heard[<<"groups">>] # Unasked)'
  <2>1. heard[<<"groups">>] # Unasked
    BY <1>1, <1>3, <1>8 DEF AzureC04Inv, AzureC04Heard
  <2>2. QED
    BY <1>1, <1>3, <2>1 DEF Got, AzureC04Repository
<1>9. AzureC04Heard'
  BY <1>1, <1>4, <1>5, <1>6, <1>7, <1>8 DEF AzureC04Heard, AzureC04Repository
<1> QED
  BY <1>2, <1>9 DEF AzureC04Inv

LEMMA AzureC04Read ==
  ASSUME C04!AzureDecide
  PROVE  C04!Got(<<"repository">>) <=> ~C04!Lost(<<"repository">>)
BY DEF C04!AzureDecide, C04!Lost, C04!Heard, C04!Got

LEMMA AzureC04Verdicts ==
  ASSUME AzureC04Inv, C04!AzureDecide
  PROVE  /\ status' \in [C04!AzureChecks -> Statuses] /\ UNCHANGED <<world, heard, seen>>
         /\ \A c \in C04!AzureChecks : C04!AzureAccounted(c, status'[c])
<1> USE DEF Pass, Fail, Partial, NotCheckable, C04!Pass, C04!Fail, C04!Partial, C04!NotCheckable
<1> DEFINE emitted == [c \in C04!AzureChecks |->
     CASE c = "security-defaults" -> C04!AzureSecurityDefaults
       [] c = "secret-hygiene"    -> C04!SecretHygiene
       [] c \in C04!AzureRepoChecks /\ C04!Lost(<<"repository">>) -> C04!NotCheckable
       [] c = "scanning-enabled"  /\ C04!Got(<<"repository">>) -> C04!ScanningEnabled
       [] c = "push-protection"   /\ C04!Got(<<"repository">>) -> C04!AzurePushProtection
       [] c = "advanced-security" /\ C04!Got(<<"repository">>) -> C04!AzureAdvancedSecurity
       [] c = "dependabot-alerts" /\ C04!Got(<<"repository">>) -> C04!AzureDependabotAlerts]
<1> DEFINE scanningEnabled == IF C04!Lost(<<"repository">>) THEN C04!NotCheckable ELSE C04!ScanningEnabled
<1> DEFINE pushProtection == IF C04!Lost(<<"repository">>) THEN C04!NotCheckable ELSE C04!AzurePushProtection
<1> DEFINE advancedSecurity == IF C04!Lost(<<"repository">>) THEN C04!NotCheckable
             ELSE C04!AzureAdvancedSecurity
<1> DEFINE dependabotAlerts == IF C04!Lost(<<"repository">>) THEN C04!NotCheckable
             ELSE C04!AzureDependabotAlerts
<1>1. C04!Heard({<<"repository">>}) /\ status' = emitted
  BY DEF C04!AzureDecide, C04!Emit
<1>2. UNCHANGED <<world, heard, seen>>
  BY DEF C04!AzureDecide, C04!Emit
<1>3. QED
  <2>1. /\ status'["security-defaults"] = C04!AzureSecurityDefaults
        /\ status'["secret-hygiene"] = C04!SecretHygiene
        /\ status'["scanning-enabled"] = scanningEnabled
        /\ status'["push-protection"] = pushProtection
        /\ status'["advanced-security"] = advancedSecurity
        /\ status'["dependabot-alerts"] = dependabotAlerts
        /\ status' = [c \in C04!AzureChecks |-> status'[c]]
    BY <1>1, AzureC04Read DEF C04!AzureChecks, C04!AzureRepoChecks
  <2>2. /\ heard[<<"repository">>] \in {Failed, AzureC04Repository} /\ heard[<<"org">>] \in {Failed,
             world.defaults}
        /\ heard[<<"groups">>] \in {Failed, world.groups}
    BY <1>1 DEF C04!Heard, AzureC04Inv, AzureC04Heard, Outcomes
  <2>3. world \in C04!AzureWorlds
    BY DEF AzureC04Inv, C04!AzureTypeOK, C04!SurveyTypeOK
  <2>4. ~C04!Lost(<<"repository">>) =>
          C04!repository.code = world.code /\ C04!repository.secrets = world.secrets
            /\ C04!repository.pushes = world.pushes
    BY <2>2 DEF C04!Lost, C04!repository, AzureC04Repository
  <2>5. C04!AzureSecurityDefaults \in Statuses /\ C04!AzureAccounted("security-defaults",
          C04!AzureSecurityDefaults)
    BY <2>2 DEF C04!AzureAccounted, C04!AzureRubric, C04!AzureDeviates, C04!AzureSecurityDefaults,
       C04!Lost, Statuses
  <2>6. C04!SecretHygiene \in Statuses /\ C04!AzureAccounted("secret-hygiene", C04!SecretHygiene)
    <3>1. (\E g \in world.groups : \E v \in g : C04!Plaintext(v)) <=> C04!AzureOffends
      BY DEF C04!Plaintext, C04!AzureOffends
    <3>2. QED
      BY <2>2, <3>1 DEF C04!AzureAccounted, C04!AzureRubric, C04!AzureDeviates, C04!SecretHygiene,
         C04!Lost, Statuses
  <2>7. scanningEnabled \in Statuses /\ C04!AzureAccounted("scanning-enabled", scanningEnabled)
    BY <2>3, <2>4 DEF C04!AzureAccounted, C04!AzureRubric, C04!AzureDeviates, C04!ScanningEnabled,
       C04!Flag, C04!AzureWorlds, C04!AzureRepoChecks, C04!AzureChecks, Statuses
  <2>8. pushProtection \in Statuses /\ C04!AzureAccounted("push-protection", pushProtection)
    BY <2>3, <2>4 DEF C04!AzureAccounted, C04!AzureRubric, C04!AzureDeviates,
       C04!AzurePushProtection, C04!Flag, C04!AzureWorlds, C04!AzureRepoChecks, C04!AzureChecks,
       Statuses
  <2>9. advancedSecurity \in Statuses /\ C04!AzureAccounted("advanced-security", advancedSecurity)
    BY <2>3, <2>4 DEF C04!AzureAccounted, C04!AzureRubric, C04!AzureDeviates,
       C04!AzureAdvancedSecurity, C04!AzureWorlds, C04!AzureRepoChecks, C04!AzureChecks, Statuses
  <2>10. dependabotAlerts \in Statuses /\ C04!AzureAccounted("dependabot-alerts", dependabotAlerts)
    BY <2>3, <2>4 DEF C04!AzureAccounted, C04!AzureRubric, C04!AzureDeviates,
       C04!AzureDependabotAlerts, C04!AzureWorlds, C04!AzureRepoChecks, C04!AzureChecks, Statuses
  <2> QED
    BY <1>2, <2>1, <2>5, <2>6, <2>7, <2>8, <2>9, <2>10 DEF C04!AzureChecks, C04!AzureRepoChecks

LEMMA AzureC04Goes == AzureC04Inv /\ [C04!AzureNext]_vars => AzureC04Inv'
<1> SUFFICES ASSUME AzureC04Inv, [C04!AzureNext]_vars PROVE AzureC04Inv'
  OBVIOUS
<1>1. CASE C04!AzureReadOrg
  BY <1>1, AzureC04Reads DEF C04!AzureReadOrg, C04!Ask, C04!Get, Get, C04!AzureCall
<1>2. CASE C04!ListGroups
  BY <1>2, AzureC04Reads DEF C04!ListGroups, C04!Ask, C04!Get, Get, C04!AzureCall, C04!Heard
<1>3. CASE C04!AzureReadRepository
  BY <1>3, AzureC04Reads DEF C04!AzureReadRepository, C04!Ask, C04!Get, Get, C04!AzureCall,
     C04!Heard, AzureC04Repository
<1>4. CASE C04!AzureDecide
  BY <1>4, AzureC04Verdicts, AzureC04Same DEF AzureC04Inv, C04!AzureTypeOK, C04!SurveyTypeOK,
     C04!AzureAccountedFor, Statuses, Pass, Fail, Partial, NotCheckable, C04!Pass, C04!Fail,
     C04!Partial, C04!NotCheckable
<1>5. CASE UNCHANGED vars
  BY <1>5, AzureC04Same DEF vars, AzureC04Inv, C04!AzureTypeOK, C04!SurveyTypeOK,
     C04!AzureAccountedFor
<1> QED
  BY <1>1, <1>2, <1>3, <1>4, <1>5 DEF C04!AzureNext

-----------------------------------------------------------------------------
(* C04.secrets-hygiene: on GitLab. *)
GitLabC04Heard ==
  /\ heard[<<"client">>] \in Outcomes({TRUE})
  /\ \A p \in Pages : heard[<<"variables", p>>] \in Outcomes({world.page[p]})

GitLabC04Inv == C04!GitLabTypeOK /\ GitLabC04Heard /\ C04!GitLabRubricHolds

LEMMA GitLabC04Starts == C04!GitLabInit => GitLabC04Inv
BY SettingsAssumption DEF C04!GitLabInit, C04!InitWith, GitLabC04Inv, C04!GitLabTypeOK,
   C04!SurveyTypeOK, GitLabC04Heard, Outcomes, Got, C04!GitLabRubricHolds, C04!GitLabCall

LEMMA GitLabC04Same ==
  ASSUME UNCHANGED <<world, heard, seen>>
  PROVE  /\ GitLabC04Heard' <=> GitLabC04Heard
         /\ \A c, s : C04!GitLabRubric(c, s)' <=> C04!GitLabRubric(c, s)
<1>1. GitLabC04Heard' <=> GitLabC04Heard
  BY DEF GitLabC04Heard, Got
<1>2. \A c, s : C04!GitLabRubric(c, s)' <=> C04!GitLabRubric(c, s)
  BY DEF C04!GitLabRubric, C04!GitLabOffends, C04!AnyLost, C04!Lost
<1> QED
  BY <1>1, <1>2

LEMMA GitLabC04Reads ==
  ASSUME GitLabC04Inv, NEW c \in C04!GitLabCall, NEW a, Get(c, a),
         c = <<"client">> => a = TRUE,
         \A p \in Pages : c = <<"variables", p>> => a = world.page[p]
  PROVE  GitLabC04Inv'
<1>1. /\ DOMAIN heard = C04!GitLabCall /\ DOMAIN heard' = C04!GitLabCall
      /\ heard[c] = Unasked /\ heard'[c] \in {a, Failed}
      /\ \A d \in C04!GitLabCall : heard'[d] = IF d = c THEN heard'[c] ELSE heard[d]
      /\ \A d \in C04!GitLabCall : heard[d] # Unasked => heard'[d] = heard[d] /\ d # c
      /\ status = Undecided /\ UNCHANGED <<world, status, seen>>
  BY Answer DEF GitLabC04Inv, C04!GitLabTypeOK, C04!SurveyTypeOK
<1>2. C04!GitLabTypeOK' /\ C04!GitLabRubricHolds'
  BY <1>1 DEF GitLabC04Inv, C04!GitLabTypeOK, C04!SurveyTypeOK, C04!GitLabRubricHolds
<1>3. /\ <<"client">> \in C04!GitLabCall
      /\ \A p \in Pages : <<"variables", p>> \in C04!GitLabCall
  BY DEF C04!GitLabCall
<1>4. heard'[<<"client">>] \in Outcomes({TRUE})
  BY <1>1, <1>3 DEF GitLabC04Inv, GitLabC04Heard, Outcomes
<1>5. \A p \in Pages : heard'[<<"variables", p>>] \in Outcomes({world.page[p]})
  BY <1>1, <1>3 DEF GitLabC04Inv, GitLabC04Heard, Outcomes
<1>6. GitLabC04Heard'
  BY <1>1, <1>4, <1>5 DEF GitLabC04Heard
<1> QED
  BY <1>2, <1>6 DEF GitLabC04Inv

LEMMA GitLabC04Verdicts ==
  ASSUME GitLabC04Inv, C04!GitLabDecide
  PROVE  /\ status' \in [C04!GitLabChecks -> Statuses] /\ UNCHANGED <<world, heard, seen>>
         /\ \A c \in C04!GitLabChecks : C04!GitLabRubric(c, status'[c])
<1> DEFINE emitted == [c \in C04!GitLabChecks |-> C04!SecretMasking]
<1>1. (C04!AnyLost \/ C04!AllRead) /\ status' = emitted
  BY DEF C04!GitLabDecide, C04!Emit
<1>2. UNCHANGED <<world, heard, seen>>
  BY DEF C04!GitLabDecide, C04!Emit
<1>3. QED
  <2>1. /\ status'["secret-masking"] = C04!SecretMasking
        /\ status' = [c \in C04!GitLabChecks |-> status'[c]]
    BY <1>1 DEF C04!GitLabChecks
  <2>2. C04!SecretMasking \in Statuses /\ C04!GitLabRubric("secret-masking", C04!SecretMasking)
    <3>1. CASE C04!AnyLost
      BY <3>1 DEF C04!GitLabRubric, C04!SecretMasking, Statuses, Pass, Fail, Partial, NotCheckable,
         C04!Pass, C04!Fail, C04!Partial, C04!NotCheckable
    <3>2. CASE ~C04!AnyLost
      <4>1. 1..world.last \subseteq Pages
        BY PagesAssumption DEF GitLabC04Inv, C04!GitLabTypeOK, C04!SurveyTypeOK, C04!GitLabWorlds
      <4>2. \A p \in 1..world.last : <<"variables", p>> \in {"variables"} \X (1..world.last)
        OBVIOUS
      <4>3. \A p \in 1..world.last : heard[<<"variables", p>>] # Unasked /\ heard[<<"variables", p>>] # Failed
        BY <1>1, <3>2, <4>1, <4>2 DEF C04!AllRead, C04!Heard, C04!AnyLost, C04!Lost
      <4>4. \A p \in 1..world.last : heard[<<"variables", p>>] = world.page[p]
        BY <4>1, <4>3 DEF GitLabC04Inv, GitLabC04Heard, Outcomes
      <4>5. (\E p \in 1..world.last : \E v \in world.page[p] : C04!Unmasked(v)) <=> C04!GitLabOffends
        BY DEF C04!Unmasked, C04!GitLabOffends
      <4>6. QED
        BY <3>2, <4>4, <4>5 DEF C04!GitLabRubric, C04!SecretMasking, Statuses, Pass, Fail, Partial,
           NotCheckable, C04!Pass, C04!Fail, C04!Partial, C04!NotCheckable
    <3>3. QED
      BY <3>1, <3>2
  <2> QED
    BY <1>2, <2>1, <2>2 DEF C04!GitLabChecks

LEMMA GitLabC04Goes == GitLabC04Inv /\ [C04!GitLabNext]_vars => GitLabC04Inv'
<1> SUFFICES ASSUME GitLabC04Inv, [C04!GitLabNext]_vars PROVE GitLabC04Inv'
  OBVIOUS
<1>1. CASE C04!NewClient
  <2>1. Get(<<"client">>, TRUE)
    BY <1>1 DEF C04!NewClient, C04!Ask, C04!Get, Get
  <2>2. <<"client">> \in C04!GitLabCall
    BY DEF C04!GitLabCall
  <2>3. QED
    BY <2>1, <2>2, GitLabC04Reads
<1>2. ASSUME NEW p \in Pages, C04!ReadPage(p) PROVE GitLabC04Inv'
  <2>1. Get(<<"variables", p>>, world.page[p])
    BY <1>2 DEF C04!ReadPage, C04!Ask, C04!Get, Get
  <2>2. <<"variables", p>> \in C04!GitLabCall
    BY DEF C04!GitLabCall
  <2>3. QED
    BY <2>1, <2>2, GitLabC04Reads
<1>3. CASE C04!GitLabDecide
  BY <1>3, GitLabC04Verdicts, GitLabC04Same DEF GitLabC04Inv, C04!GitLabTypeOK, C04!SurveyTypeOK,
     C04!GitLabRubricHolds, Statuses, Pass, Fail, Partial, NotCheckable, C04!Pass, C04!Fail,
     C04!Partial, C04!NotCheckable
<1>4. CASE UNCHANGED vars
  BY <1>4, GitLabC04Same DEF vars, GitLabC04Inv, C04!GitLabTypeOK, C04!SurveyTypeOK,
     C04!GitLabRubricHolds
<1> QED
  BY <1>1, <1>2, <1>3, <1>4 DEF C04!GitLabNext
-----------------------------------------------------------------------------
(***************************************************************************)
(* C06.sca-history: on GitHub.  A workflow may be edited meanwhile, but    *)
(* only in what is read once, at the end.                                  *)
(***************************************************************************)
LEMMA GitHubC06SameCount ==
  ASSUME NEW S
  PROVE  GitHubC06!Cardinality(S) = Cardinality(S)
BY DEF GitHubC06!Cardinality, Cardinality

LEMMA GitHubC06Chosen ==
  ASSUME NEW R, NEW date, NEW S \in GitHubC06!Selections(R, date)
  PROVE  /\ S \subseteq GitHubC06!Recent(R, date)
         /\ S = {} => GitHubC06!Recent(R, date) = {}
<1>1. Lookback # 0 /\ GitHubC06!Cardinality({}) = 0
  BY HistoryAssumption, FS_EmptySet, GitHubC06SameCount
<1> QED
  BY <1>1 DEF GitHubC06!Selections

GitHubC06RunsOf(t) == {x \in world.history.runs : x.tool = t /\ x.at >= WindowStart}

GitHubC06Fetched == /\ Got(<<"workflows">>)
            /\ \A t \in DOMAIN world.workflow : heard[<<"file", t>>] # Unasked

\* What is known of the releases when the rest is asked for.
GitHubC06PastRead ==
  /\ heard[<<"releases">>] # Unasked
  /\ Got(<<"releases">>) => /\ \A r \in GitHubC06!Named : heard[<<"tag", r>>] # Unasked
                            /\ \A t \in GitHubC06!Matched : heard[<<"runs", t>>] # Unasked

GitHubC06Heard ==
  /\ heard[<<"repository">>] \in Outcomes({TRUE})
  /\ heard[<<"workflows">>] \in Outcomes({DOMAIN world.workflow})
  /\ \A t \in Tool : heard[<<"file", t>>] \in Outcomes({world.workflow[t].evidence})
  /\ \A t \in Tool : heard[<<"runs", t>>] \in Outcomes({GitHubC06RunsOf(t)})
  /\ heard[<<"releases">>] \in Outcomes({world.history.releases})
  /\ heard[<<"root">>] \in Outcomes({world.manifests})
  /\ heard[<<"config">>] \in Outcomes({world.config})
  /\ heard[<<"alerts">>] \in Outcomes({world.alerts})
  /\ heard[<<"required">>] \in Outcomes({world.required})
  /\ heard[<<"review">>] \in {Unasked, Failed} \/ \E w \in seen : \E t \in GitHubC06!Reviews :
       heard[<<"review">>] = [name |-> t, pullRequest |-> w.workflow[t].pullRequest]
  /\ \A t \in Tool : heard[<<"file", t>>] # Unasked => t \in DOMAIN world.workflow
  /\ heard[<<"releases">>] # Unasked => GitHubC06Fetched
  /\ heard[<<"root">>] # Unasked => GitHubC06PastRead
  /\ heard[<<"config">>] # Unasked => heard[<<"root">>] # Unasked
  /\ heard[<<"alerts">>] # Unasked => heard[<<"config">>] # Unasked
  /\ heard[<<"required">>] # Unasked => heard[<<"alerts">>] # Unasked
  /\ heard[<<"review">>] # Unasked => heard[<<"required">>] # Unasked

GitHubC06Inv == GitHubC06!TypeOK /\ GitHubC06Heard /\ GitHubC06!AccountedFor

LEMMA GitHubC06Starts == GitHubC06!Init => GitHubC06Inv
BY SettingsAssumption DEF GitHubC06!Init, GitHubC06!InitWith, GitHubC06Inv, GitHubC06!TypeOK,
   GitHubC06!SurveyTypeOK, GitHubC06Heard, Outcomes, Got, GitHubC06!AccountedFor, GitHubC06!Call

\* An answer is the true one, and comes in order.
GitHubC06Told(c, answer) ==
  /\ c = <<"repository">> => answer = TRUE
  /\ c = <<"workflows">> => answer = DOMAIN world.workflow
  /\ \A t \in Tool : c = <<"file", t>> => answer = world.workflow[t].evidence /\ t \in DOMAIN world.workflow
  /\ \A t \in Tool : c = <<"runs", t>> => answer = GitHubC06RunsOf(t)
  /\ c = <<"releases">> => answer = world.history.releases /\ GitHubC06Fetched
  /\ c = <<"root">> => answer = world.manifests /\ GitHubC06PastRead
  /\ c = <<"config">> => answer = world.config /\ heard[<<"root">>] # Unasked
  /\ c = <<"alerts">> => answer = world.alerts /\ heard[<<"config">>] # Unasked
  /\ c = <<"required">> => answer = world.required /\ heard[<<"alerts">>] # Unasked
  /\ c = <<"review">> => /\ heard[<<"required">>] # Unasked
                         /\ \E t \in GitHubC06!Reviews : answer = [name |-> t,
                              pullRequest |-> world.workflow[t].pullRequest]

LEMMA GitHubC06Reads ==
  ASSUME GitHubC06Inv, NEW c \in GitHubC06!Call, NEW answer, Get(c, answer), GitHubC06Told(c, answer)
  PROVE  GitHubC06Inv'
<1>1. /\ DOMAIN heard = GitHubC06!Call /\ DOMAIN heard' = GitHubC06!Call
      /\ heard[c] = Unasked /\ heard'[c] \in {answer, Failed}
      /\ \A d \in GitHubC06!Call : heard'[d] = IF d = c THEN heard'[c] ELSE heard[d]
      /\ \A d \in GitHubC06!Call : heard[d] # Unasked => heard'[d] = heard[d] /\ d # c
      /\ status = Undecided /\ UNCHANGED <<world, status, seen>>
  BY Answer DEF GitHubC06Inv, GitHubC06!TypeOK, GitHubC06!SurveyTypeOK
<1>2. GitHubC06!TypeOK' /\ GitHubC06!AccountedFor'
  BY <1>1 DEF GitHubC06Inv, GitHubC06!TypeOK, GitHubC06!SurveyTypeOK, GitHubC06!AccountedFor
<1>3. /\ {<<"repository">>, <<"workflows">>, <<"releases">>, <<"root">>, <<"config">>, <<"alerts">>,
          <<"required">>, <<"review">>} \subseteq GitHubC06!Call
      /\ \A t \in Tool : <<"file", t>> \in GitHubC06!Call /\ <<"runs", t>> \in GitHubC06!Call
      /\ \A r \in Release : <<"tag", r>> \in GitHubC06!Call
      /\ DOMAIN world.workflow \subseteq Tool
  BY DEF GitHubC06!Call, GitHubC06Inv, GitHubC06!TypeOK, GitHubC06!SurveyTypeOK, GitHubC06!Worlds
<1>4. /\ heard'[<<"repository">>] \in Outcomes({TRUE})
      /\ heard'[<<"workflows">>] \in Outcomes({DOMAIN world'.workflow})
      /\ heard'[<<"releases">>] \in Outcomes({world'.history.releases})
      /\ heard'[<<"root">>] \in Outcomes({world'.manifests})
      /\ heard'[<<"config">>] \in Outcomes({world'.config})
      /\ heard'[<<"alerts">>] \in Outcomes({world'.alerts})
      /\ heard'[<<"required">>] \in Outcomes({world'.required})
  <2>1. heard'[<<"repository">>] \in Outcomes({TRUE})
    BY <1>1, <1>3 DEF GitHubC06Inv, GitHubC06Heard, Outcomes, GitHubC06Told
  <2>2. heard'[<<"workflows">>] \in Outcomes({DOMAIN world'.workflow})
    BY <1>1, <1>3 DEF GitHubC06Inv, GitHubC06Heard, Outcomes, GitHubC06Told
  <2>3. heard'[<<"releases">>] \in Outcomes({world'.history.releases})
    BY <1>1, <1>3 DEF GitHubC06Inv, GitHubC06Heard, Outcomes, GitHubC06Told
  <2>4. heard'[<<"root">>] \in Outcomes({world'.manifests})
    BY <1>1, <1>3 DEF GitHubC06Inv, GitHubC06Heard, Outcomes, GitHubC06Told
  <2>5. heard'[<<"config">>] \in Outcomes({world'.config})
    BY <1>1, <1>3 DEF GitHubC06Inv, GitHubC06Heard, Outcomes, GitHubC06Told
  <2>6. heard'[<<"alerts">>] \in Outcomes({world'.alerts})
    BY <1>1, <1>3 DEF GitHubC06Inv, GitHubC06Heard, Outcomes, GitHubC06Told
  <2>7. heard'[<<"required">>] \in Outcomes({world'.required})
    BY <1>1, <1>3 DEF GitHubC06Inv, GitHubC06Heard, Outcomes, GitHubC06Told
  <2> QED
    BY <2>1, <2>2, <2>3, <2>4, <2>5, <2>6, <2>7
<1>5. \A t \in Tool : heard'[<<"file", t>>] \in Outcomes({world'.workflow[t].evidence})
  BY <1>1, <1>3 DEF GitHubC06Inv, GitHubC06Heard, Outcomes, GitHubC06Told
<1>6. \A t \in Tool : heard'[<<"runs", t>>] \in Outcomes({GitHubC06RunsOf(t)'})
  <2>1. \A t \in Tool : GitHubC06RunsOf(t)' = GitHubC06RunsOf(t)
    BY <1>1 DEF GitHubC06RunsOf
  <2>2. \A t \in Tool : heard'[<<"runs", t>>] \in Outcomes({GitHubC06RunsOf(t)})
    BY <1>1, <1>3 DEF GitHubC06Inv, GitHubC06Heard, Outcomes, GitHubC06Told
  <2> QED
    BY <2>1, <2>2
<1>7. \A t \in Tool : heard'[<<"file", t>>] # Unasked => t \in DOMAIN world'.workflow
  BY <1>1, <1>3 DEF GitHubC06Inv, GitHubC06Heard, GitHubC06Told
<1>8. GitHubC06Fetched => GitHubC06Fetched'
  BY <1>1, <1>3 DEF GitHubC06Fetched, Got
<1>9. heard'[<<"releases">>] # Unasked => GitHubC06Fetched'
  BY <1>1, <1>3, <1>8 DEF GitHubC06Inv, GitHubC06Heard, GitHubC06Told
\* Once all files have been asked for, what was matched is what it is.
<1>10. ASSUME GitHubC06Fetched
       PROVE  GitHubC06!Matched' = GitHubC06!Matched /\ GitHubC06!Reviews' = GitHubC06!Reviews
  <2>1. \A t \in Tool : heard'[<<"file", t>>] = heard[<<"file", t>>]
    BY <1>1, <1>3, <1>10 DEF GitHubC06Fetched, GitHubC06Told
  <2>2. GitHubC06!Matched' = GitHubC06!Matched
    BY <2>1 DEF GitHubC06!Matched, GitHubC06!Found, GitHubC06!Got
  <2>3. GitHubC06!Matched \subseteq Tool
    BY DEF GitHubC06!Matched
  <2> QED
    BY <2>1, <2>2, <2>3 DEF GitHubC06!Reviews
<1>11. ASSUME GitHubC06PastRead
       PROVE  GitHubC06PastRead'
  <2>1. GitHubC06Fetched
    BY <1>11 DEF GitHubC06PastRead, GitHubC06Inv, GitHubC06Heard
  <2>2. heard'[<<"releases">>] = heard[<<"releases">>]
    BY <1>1, <1>3, <1>11 DEF GitHubC06PastRead
  <2>3. GitHubC06!Named' = GitHubC06!Named /\ GitHubC06!Matched' = GitHubC06!Matched
          /\ GitHubC06!Matched \subseteq Tool
    BY <2>1, <2>2, <1>10 DEF GitHubC06!Named, GitHubC06!Got, GitHubC06!Matched
  <2>4. \A d \in GitHubC06!Call : heard[d] # Unasked => heard'[d] # Unasked
    BY <1>1
  <2>5. Got(<<"releases">>) => heard[<<"releases">>] = world.history.releases
    BY DEF Got, GitHubC06Inv, GitHubC06Heard, Outcomes
  <2>6. GitHubC06!Named \subseteq Release
    <3>1. world.history \in GitHubC06!Histories
      BY HistoryAssumption DEF GitHubC06Inv, GitHubC06!TypeOK, GitHubC06!SurveyTypeOK,
         GitHubC06!Worlds
    <3>2. world.history.releases \subseteq Release
      BY <3>1 DEF GitHubC06!Histories
    <3> QED
      BY <2>5, <3>2 DEF GitHubC06!Named, GitHubC06!Got, Got
  <2>7. Got(<<"releases">>)' <=> Got(<<"releases">>)
    BY <2>2 DEF Got
  <2> QED
    BY <2>2, <2>3, <2>4, <2>6, <2>7, <1>3, <1>11 DEF GitHubC06PastRead
<1>12. heard'[<<"root">>] # Unasked => GitHubC06PastRead'
  BY <1>1, <1>3, <1>11 DEF GitHubC06Inv, GitHubC06Heard, GitHubC06Told
<1>13. /\ heard'[<<"config">>] # Unasked => heard'[<<"root">>] # Unasked
       /\ heard'[<<"alerts">>] # Unasked => heard'[<<"config">>] # Unasked
       /\ heard'[<<"required">>] # Unasked => heard'[<<"alerts">>] # Unasked
       /\ heard'[<<"review">>] # Unasked => heard'[<<"required">>] # Unasked
  BY <1>1, <1>3 DEF GitHubC06Inv, GitHubC06Heard, GitHubC06Told
<1>14. heard'[<<"review">>] \in {Unasked, Failed} \/ \E w \in seen' : \E t \in GitHubC06!Reviews' :
         heard'[<<"review">>] = [name |-> t, pullRequest |-> w.workflow[t].pullRequest]
  <2>1. CASE heard'[<<"review">>] = Unasked
    BY <2>1
  <2>2. CASE heard'[<<"review">>] # Unasked
    <3>1. heard[<<"required">>] # Unasked
      BY <2>2, <1>1, <1>3 DEF GitHubC06Inv, GitHubC06Heard, GitHubC06Told
    <3>2. GitHubC06!Reviews' = GitHubC06!Reviews
      BY <3>1, <1>10 DEF GitHubC06Inv, GitHubC06Heard, GitHubC06PastRead
    <3>3. seen' = seen /\ world \in seen
      BY <1>1 DEF GitHubC06Inv, GitHubC06!TypeOK, GitHubC06!SurveyTypeOK
    <3>4. CASE c = <<"review">>
      <4>1. PICK t \in GitHubC06!Reviews : answer = [name |-> t, pullRequest |-> world.workflow[t].pullRequest]
        BY <3>4 DEF GitHubC06Told
      <4>2. heard'[<<"review">>] \in {answer, Failed}
        BY <3>4, <1>1
      <4> QED
        BY <3>2, <3>3, <4>1, <4>2
    <3>5. CASE c # <<"review">>
      <4>1. heard'[<<"review">>] = heard[<<"review">>]
        BY <3>5, <1>1, <1>3
      <4> QED
        BY <3>2, <3>3, <4>1 DEF GitHubC06Inv, GitHubC06Heard
    <3> QED
      BY <3>4, <3>5
  <2> QED
    BY <2>1, <2>2
<1> QED
  BY <1>2, <1>4, <1>5, <1>6, <1>7, <1>9, <1>12, <1>13, <1>14 DEF GitHubC06Inv, GitHubC06Heard

LEMMA GitHubC06Edits == GitHubC06Inv /\ GitHubC06!Edit => GitHubC06Inv'
<1> SUFFICES ASSUME GitHubC06Inv, GitHubC06!Edit PROVE GitHubC06Inv'
  OBVIOUS
<1>1. PICK t \in GitHubC06!Reviews : world' = [world EXCEPT !.workflow[t].pullRequest = ~@]
  BY DEF GitHubC06!Edit, GitHubC06!Change
<1>2. UNCHANGED <<heard, status>> /\ status = Undecided /\ seen' = seen \cup {world'}
        /\ heard[<<"review">>] = Unasked
  BY DEF GitHubC06!Edit, GitHubC06!Change
<1>3. t \in Tool /\ t \in DOMAIN world.workflow
  BY <1>1 DEF GitHubC06!Reviews, GitHubC06!Matched, GitHubC06!Found, GitHubC06!Got, GitHubC06Inv,
     GitHubC06Heard
<1>4. world \in GitHubC06!Worlds
  BY DEF GitHubC06Inv, GitHubC06!TypeOK, GitHubC06!SurveyTypeOK
<1>5. PICK W \in SUBSET Tool : world.workflow \in [W -> GitHubC06!Workflows]
  BY <1>4 DEF GitHubC06!Worlds
<1> DEFINE edited == [world.workflow[t] EXCEPT !.pullRequest = ~@]
<1>6. edited \in GitHubC06!Workflows /\ edited.evidence = world.workflow[t].evidence
  BY <1>3, <1>5 DEF GitHubC06!Workflows
<1>7. /\ world'.workflow = [world.workflow EXCEPT ![t] = edited]
      /\ world'.history = world.history /\ world'.manifests = world.manifests /\ world'.config = world.config
      /\ world'.alerts = world.alerts /\ world'.required = world.required
  BY <1>1, <1>4 DEF GitHubC06!Worlds
<1> HIDE DEF edited
<1>8. /\ DOMAIN world'.workflow = DOMAIN world.workflow
      /\ \A u \in DOMAIN world.workflow : world'.workflow[u].evidence = world.workflow[u].evidence
      /\ world'.workflow \in [W -> GitHubC06!Workflows]
  BY <1>3, <1>5, <1>6, <1>7
<1>9. world' \in GitHubC06!Worlds
  <2>1. world' = [workflow |-> world'.workflow, required |-> world.required, config |-> world.config,
                  manifests |-> world.manifests, alerts |-> world.alerts, history |-> world.history]
    BY <1>1, <1>4 DEF GitHubC06!Worlds
  <2>2. /\ world'.workflow \in UNION {[T -> GitHubC06!Workflows] : T \in SUBSET Tool}
        /\ world.required \in SUBSET Tool /\ world.config \in (SUBSET Ecosystem) \cup {NoConfig}
        /\ world.manifests \in SUBSET Ecosystem /\ world.alerts \in (SUBSET GitHubC06!Alerts) \cup {Disabled}
        /\ world.history \in History
    BY <1>4, <1>8 DEF GitHubC06!Worlds
  <2> HIDE DEF edited
  <2> QED
    BY <2>1, <2>2 DEF GitHubC06!Worlds
<1>10. GitHubC06!TypeOK' /\ GitHubC06!AccountedFor'
  BY <1>2, <1>9 DEF GitHubC06Inv, GitHubC06!TypeOK, GitHubC06!SurveyTypeOK, GitHubC06!AccountedFor
<1>11. /\ GitHubC06!Matched' = GitHubC06!Matched /\ GitHubC06!Named' = GitHubC06!Named
            /\ GitHubC06!Reviews' = GitHubC06!Reviews
       /\ \A u : GitHubC06RunsOf(u)' = GitHubC06RunsOf(u)
  BY <1>2, <1>7 DEF GitHubC06!Matched, GitHubC06!Found, GitHubC06!Got, GitHubC06!Named,
     GitHubC06!Reviews, GitHubC06RunsOf
<1>12. (GitHubC06Fetched' <=> GitHubC06Fetched) /\ (GitHubC06PastRead' <=> GitHubC06PastRead)
  BY <1>2, <1>8, <1>11 DEF GitHubC06Fetched, GitHubC06PastRead, Got
<1>13. \A u \in Tool : heard[<<"file", u>>] \in Outcomes({world'.workflow[u].evidence})
  BY <1>8 DEF GitHubC06Inv, GitHubC06Heard, Outcomes
<1>14. GitHubC06Heard'
  BY <1>2, <1>7, <1>8, <1>11, <1>12, <1>13, MarkersAssumption DEF GitHubC06Inv, GitHubC06Heard,
     Outcomes, Got
<1> QED
  BY <1>10, <1>14 DEF GitHubC06Inv

\* A step after which all answers are the same.
LEMMA GitHubC06Same ==
  ASSUME GitHubC06Inv, UNCHANGED <<world, heard, seen>>
  PROVE  /\ GitHubC06Heard'
         /\ \A c, s : GitHubC06!Accounted(c, s)' <=> GitHubC06!Accounted(c, s)
<1>1. /\ GitHubC06!Matched' = GitHubC06!Matched /\ GitHubC06!Named' = GitHubC06!Named
           /\ GitHubC06!Reviews' = GitHubC06!Reviews
      /\ \A u : GitHubC06RunsOf(u)' = GitHubC06RunsOf(u)
      /\ (GitHubC06Fetched' <=> GitHubC06Fetched)
  BY DEF GitHubC06!Matched, GitHubC06!Found, GitHubC06!Got, GitHubC06!Named, GitHubC06!Reviews,
     GitHubC06RunsOf, GitHubC06Fetched, Got
<1>2. GitHubC06PastRead' <=> GitHubC06PastRead
  BY <1>1 DEF GitHubC06PastRead, Got
<1>3. GitHubC06Heard'
  <2>1. heard'[<<"review">>] \in {Unasked, Failed} \/ \E w \in seen' : \E t \in GitHubC06!Reviews' :
          heard'[<<"review">>] = [name |-> t, pullRequest |-> w.workflow[t].pullRequest]
    BY <1>1 DEF GitHubC06Inv, GitHubC06Heard
  <2>2. \A t \in Tool : heard'[<<"runs", t>>] \in Outcomes({GitHubC06RunsOf(t)'})
    BY <1>1 DEF GitHubC06Inv, GitHubC06Heard
  <2> QED
    BY <1>1, <1>2, <2>1, <2>2 DEF GitHubC06Inv, GitHubC06Heard
<1>4. /\ GitHubC06!Skipped' = GitHubC06!Skipped /\ GitHubC06!Scanners' = GitHubC06!Scanners
           /\ GitHubC06!InUse' = GitHubC06!InUse /\ GitHubC06!date' = GitHubC06!date
      /\ \A c : GitHubC06!Lost(c)' <=> GitHubC06!Lost(c)
  BY DEF GitHubC06!Skipped, GitHubC06!Scanners, GitHubC06!InUse, GitHubC06!date, GitHubC06!Lost
<1>5. GitHubC06!Scans' = GitHubC06!Scans
  BY <1>4 DEF GitHubC06!Scans
<1>6. GitHubC06!runs' = GitHubC06!runs
  BY <1>1 DEF GitHubC06!runs, GitHubC06!Got
<1>7. /\ (GitHubC06!RunsLost' <=> GitHubC06!RunsLost) /\ (GitHubC06!GiveUp' <=> GitHubC06!GiveUp)
      /\ GitHubC06!Dropped' = GitHubC06!Dropped /\ (GitHubC06!Trusted' <=> GitHubC06!Trusted)
  BY <1>1, <1>4 DEF GitHubC06!RunsLost, GitHubC06!GiveUp, GitHubC06!Dropped, GitHubC06!Resolved,
     GitHubC06!Got, GitHubC06!Trusted
<1>8. ASSUME NEW c, NEW s
      PROVE  GitHubC06!Accounted(c, s)' <=> GitHubC06!Accounted(c, s)
  <2>1. world' = world /\ seen' = seen
    OBVIOUS
  <2>2. CASE c = "tool-configured"
    BY <2>1, <2>2, <1>1, <1>4, <1>5, <1>6, <1>7 DEF GitHubC06!Accounted, GitHubC06!Rubric,
       GitHubC06!Deviates
  <2>3. CASE c = "ran-per-release"
    BY <2>1, <2>3, <1>1, <1>4, <1>5, <1>6, <1>7 DEF GitHubC06!Accounted, GitHubC06!Rubric,
       GitHubC06!Deviates
  <2>4. CASE c = "dependabot-config"
    BY <2>1, <2>4, <1>1, <1>4, <1>5, <1>6, <1>7 DEF GitHubC06!Accounted, GitHubC06!Rubric,
       GitHubC06!Deviates
  <2>5. CASE c = "dependency-review"
    BY <2>1, <2>5, <1>1, <1>4, <1>5, <1>6, <1>7 DEF GitHubC06!Accounted, GitHubC06!Rubric,
       GitHubC06!Deviates
  <2>6. CASE c = "alerts-triaged"
    BY <2>1, <2>6, <1>1, <1>4, <1>5, <1>6, <1>7 DEF GitHubC06!Accounted, GitHubC06!Rubric,
       GitHubC06!Deviates
  <2>7. CASE c \notin {"tool-configured", "ran-per-release", "dependabot-config", "dependency-review",
               "alerts-triaged"}
    BY <2>7, <1>7 DEF GitHubC06!Accounted, GitHubC06!Rubric, GitHubC06!Deviates
  <2> QED
    BY <2>2, <2>3, <2>4, <2>5, <2>6, <2>7
<1> QED
  BY <1>3, <1>8

LEMMA GitHubC06Settled ==
  ASSUME GitHubC06Inv, heard[<<"required">>] # Unasked
  PROVE  /\ GitHubC06PastRead /\ GitHubC06Fetched /\ GitHubC06!Listed = DOMAIN world.workflow
         /\ heard[<<"root">>] \in {Failed, world.manifests}
         /\ heard[<<"config">>] \in {Failed, world.config}
         /\ heard[<<"alerts">>] \in {Failed, world.alerts}
         /\ heard[<<"required">>] \in {Failed, world.required}
BY DEF GitHubC06Inv, GitHubC06Heard, GitHubC06PastRead, GitHubC06Fetched, Outcomes, Got,
   GitHubC06!Listed

LEMMA GitHubC06Tools ==
  ASSUME GitHubC06Inv, heard[<<"required">>] # Unasked
  PROVE  /\ GitHubC06!Matched = GitHubC06!Scanners \ GitHubC06!Skipped
         /\ GitHubC06!Matched \subseteq Tool /\ GitHubC06!Scanners \subseteq Tool
         /\ \A t \in GitHubC06!Matched : heard[<<"file", t>>] = world.workflow[t].evidence
<1>1. \A t \in DOMAIN world.workflow : heard[<<"file", t>>] \in {Failed, world.workflow[t].evidence}
                                       /\ heard[<<"file", t>>] # Unasked /\ t \in Tool
  <2>1. DOMAIN world.workflow \subseteq Tool
    BY DEF GitHubC06Inv, GitHubC06!TypeOK, GitHubC06!SurveyTypeOK, GitHubC06!Worlds
  <2>2. \A t \in DOMAIN world.workflow : heard[<<"file", t>>] # Unasked
    BY GitHubC06Settled DEF GitHubC06Fetched
  <2>3. \A t \in Tool : heard[<<"file", t>>] \in Outcomes({world.workflow[t].evidence})
    BY DEF GitHubC06Inv, GitHubC06Heard
  <2> QED
    BY <2>1, <2>2, <2>3 DEF Outcomes
<1>2. \A t \in Tool : GitHubC06!Found(t) => t \in DOMAIN world.workflow
  BY DEF GitHubC06!Found, GitHubC06!Got, GitHubC06Inv, GitHubC06Heard
<1>3. \A t \in DOMAIN world.workflow :
        GitHubC06!Found(t) <=> heard[<<"file", t>>] # Failed /\ world.workflow[t].evidence # "none"
  BY <1>1 DEF GitHubC06!Found, GitHubC06!Got
<1> QED
  BY <1>1, <1>2, <1>3 DEF GitHubC06!Matched, GitHubC06!Scanners, GitHubC06!Skipped, GitHubC06!Lost,
     GitHubC06!Found, GitHubC06!Got

LEMMA GitHubC06Runs ==
  ASSUME GitHubC06Inv, heard[<<"required">>] # Unasked, GitHubC06!Got(<<"releases">>)
  PROVE  /\ GitHubC06!runs \subseteq GitHubC06!Scans
         /\ GitHubC06!RunsLost \/ GitHubC06!runs = GitHubC06!Scans
         /\ GitHubC06!runs # {} => GitHubC06!Matched # {}
<1>1. \A t \in GitHubC06!Matched : heard[<<"runs", t>>] \in {Failed, GitHubC06RunsOf(t)}
        /\ heard[<<"runs", t>>] # Unasked
  BY GitHubC06Settled, GitHubC06Tools DEF GitHubC06PastRead, GitHubC06Inv, GitHubC06Heard,
     Outcomes, GitHubC06!Got, Got
<1>2. ASSUME NEW x \in GitHubC06!runs
      PROVE  \E t \in GitHubC06!Matched : x \in GitHubC06RunsOf(t)
  BY <1>1 DEF GitHubC06!runs, GitHubC06!Got
<1>3. \A t \in GitHubC06!Matched : \A x \in GitHubC06RunsOf(t) : x \in GitHubC06!Scans
  BY GitHubC06Tools DEF GitHubC06RunsOf, GitHubC06!Scans
<1>4. ASSUME ~GitHubC06!RunsLost, NEW x \in GitHubC06!Scans
      PROVE  x \in GitHubC06!runs
  <2>1. x.tool \in GitHubC06!Matched /\ x \in GitHubC06RunsOf(x.tool)
    BY GitHubC06Tools DEF GitHubC06!Scans, GitHubC06RunsOf
  <2>2. heard[<<"runs", x.tool>>] # Failed
    BY <2>1, <1>4 DEF GitHubC06!RunsLost, GitHubC06!Lost
  <2> QED
    BY <2>1, <2>2, <1>1 DEF GitHubC06!runs, GitHubC06!Got
<1> QED
  BY <1>2, <1>3, <1>4

LEMMA GitHubC06Config ==
  ASSUME GitHubC06Inv, heard[<<"required">>] # Unasked
  PROVE  /\ GitHubC06!Lost(<<"config">>) => ~GitHubC06!Configured
         /\ GitHubC06!Configured => world.config \notin {NoConfig, {}}
         /\ GitHubC06!Lost(<<"config">>) \/ GitHubC06!Configured \/ world.config \in {NoConfig, {}}
         /\ ~GitHubC06!Lost(<<"config">>) => GitHubC06!config = world.config
<1>1. heard[<<"config">>] \in {Failed, world.config} /\ heard[<<"config">>] # Unasked
  BY GitHubC06Settled DEF GitHubC06Inv, GitHubC06Heard
<1> QED
  BY <1>1 DEF GitHubC06!Configured, GitHubC06!Lost, GitHubC06!Got, GitHubC06!config

LEMMA GitHubC06ToolConfiguredMeans ==
  ASSUME GitHubC06Inv, heard[<<"required">>] # Unasked, NEW v, v = GitHubC06!ToolConfigured
  PROVE  v \in Statuses /\ GitHubC06!Accounted("tool-configured", v)
<1> DEFINE setup == IF GitHubC06!Lost(<<"config">>) THEN Failed ELSE IF GitHubC06!Configured THEN "on"
             ELSE "off"
<1>1. /\ setup = Failed <=> GitHubC06!Lost(<<"config">>)
      /\ setup = "on" <=> GitHubC06!Configured
  BY GitHubC06Config, MarkersAssumption
<1>2. v = GitHubC06!ConfiguredVerdict(GitHubC06!Matched, GitHubC06!Strong, setup, GitHubC06!Skipped)
  BY DEF GitHubC06!ToolConfigured
<1> HIDE DEF setup
<1>3. \/ v = NotCheckable /\ GitHubC06!Matched = {} /\ (setup = Failed
           \/ (setup # "on" /\ GitHubC06!Skipped # {}))
      \/ v = Pass /\ (GitHubC06!Strong \/ setup = "on")
      \/ v = Partial /\ setup # "on" /\ GitHubC06!Matched # {}
      \/ v = Fail /\ GitHubC06!Matched = {} /\ setup # "on" /\ setup # Failed /\ GitHubC06!Skipped = {}
  BY <1>2 DEF GitHubC06!ConfiguredVerdict, Pass, Fail, Partial, NotCheckable, GitHubC06!Pass,
     GitHubC06!Fail, GitHubC06!Partial, GitHubC06!NotCheckable
<1>4. GitHubC06!Strong => \E t \in GitHubC06!Scanners : world.workflow[t].evidence # "weak"
  BY GitHubC06Tools DEF GitHubC06!Strong
<1>5. /\ GitHubC06!Matched = {} => GitHubC06!Scanners \subseteq GitHubC06!Skipped
      /\ GitHubC06!Matched # {} => GitHubC06!Scanners # {}
  BY GitHubC06Tools
<1>6. setup # "on" /\ setup # Failed => world.config \in {NoConfig, {}}
  BY <1>1, GitHubC06Config
<1> QED
  BY <1>1, <1>3, <1>4, <1>5, <1>6, GitHubC06Config DEF GitHubC06!Accounted, GitHubC06!Rubric,
     Statuses, Pass, Fail, Partial, NotCheckable, GitHubC06!Pass, GitHubC06!Fail,
     GitHubC06!Partial, GitHubC06!NotCheckable

\* A run that counts for a release.
GitHubC06Counts(x, r, S, firsts, date) ==
  x.commit = r.commit \/ (r \in firsts /\ GitHubC06!InWindow(x, r, S, date))

LEMMA GitHubC06Coverage ==
  ASSUME NEW S, NEW firsts, NEW date, NEW runs, NEW dropped, NEW verdict,
         verdict = GitHubC06!CoverageVerdict(GitHubC06!Covering(S, firsts, date, runs), dropped)
  PROVE  /\ \/ verdict = Partial /\ S = {} /\ dropped # {}
            \/ verdict = NotCheckable /\ S = {} /\ dropped = {}
            \/ verdict = Fail /\ S # {} /\ GitHubC06!Missing(GitHubC06!Covering(S, firsts, date, runs)) # {}
            \/ /\ verdict = Pass /\ S # {} /\ dropped = {}
               /\ \A r \in S : \E x \in runs : x.success /\ GitHubC06Counts(x, r, S, firsts, date)
            \/ /\ verdict = Partial /\ S # {}
               /\ \E r \in S : \E x \in runs : GitHubC06Counts(x, r, S, firsts, date)
         /\ GitHubC06!Missing(GitHubC06!Covering(S, firsts, date, runs)) # {} =>
              \E r \in S : \A x \in runs : ~GitHubC06Counts(x, r, S, firsts, date)
<1> DEFINE covering == GitHubC06!Covering(S, firsts, date, runs)
<1>1. /\ DOMAIN covering = S
      /\ \A r \in S : covering[r] = {x \in runs : GitHubC06Counts(x, r, S, firsts, date)}
  BY DEF GitHubC06!Covering, GitHubC06Counts
<1> HIDE DEF covering
<1>2. GitHubC06!Missing(covering) # {} => \E r \in S : \A x \in runs : ~GitHubC06Counts(x, r, S, firsts, date)
  BY <1>1 DEF GitHubC06!Missing
<1>3. GitHubC06!Missing(covering) = {} /\ GitHubC06!Unclean(covering) = {} =>
        \A r \in S : \E x \in runs : x.success /\ GitHubC06Counts(x, r, S, firsts, date)
  BY <1>1 DEF GitHubC06!Unclean
<1>4. GitHubC06!Missing(covering) = {} /\ S # {} => \E r \in S : \E x \in runs : GitHubC06Counts(x, r,
        S, firsts, date)
  BY <1>1 DEF GitHubC06!Missing
<1>5. \/ verdict = Partial /\ S = {} /\ dropped # {}
      \/ verdict = NotCheckable /\ S = {} /\ dropped = {}
      \/ verdict = Fail /\ S # {} /\ GitHubC06!Missing(covering) # {}
      \/ verdict = Pass /\ S # {} /\ dropped = {} /\ GitHubC06!Missing(covering) = {}
           /\ GitHubC06!Unclean(covering) = {}
      \/ verdict = Partial /\ S # {} /\ GitHubC06!Missing(covering) = {}
  <2>1. verdict = GitHubC06!CoverageVerdict(covering, dropped)
    BY DEF covering
  <2> QED
    BY <1>1, <2>1 DEF GitHubC06!CoverageVerdict, Pass, Fail, Partial, NotCheckable, GitHubC06!Pass,
       GitHubC06!Fail, GitHubC06!Partial, GitHubC06!NotCheckable
<1> QED
  BY <1>2, <1>3, <1>4, <1>5 DEF covering

LEMMA GitHubC06RanPerReleaseMeans ==
  ASSUME GitHubC06Inv, heard[<<"required">>] # Unasked, GitHubC06!Got(<<"releases">>),
         NEW S \in GitHubC06!Selections(GitHubC06!Resolved, GitHubC06!date),
           NEW firsts \in GitHubC06!Firsts(S, GitHubC06!date), NEW v,
         v = GitHubC06!RanPerRelease(GitHubC06!Covering(S, firsts, GitHubC06!date, GitHubC06!runs))
  PROVE  v \in Statuses /\ GitHubC06!Accounted("ran-per-release", v)
<1> USE DEF Pass, Fail, Partial, NotCheckable, GitHubC06!Pass, GitHubC06!Fail, GitHubC06!Partial,
      GitHubC06!NotCheckable
<1> DEFINE date == GitHubC06!date
           runs == GitHubC06!runs
           Counts(x, r) == GitHubC06Counts(x, r, S, firsts, date)
           covering == GitHubC06!Covering(S, firsts, date, runs)
           cv == GitHubC06!CoverageVerdict(covering, GitHubC06!Dropped)
<1> HIDE DEF date, runs, covering, cv
<1>1. heard[<<"releases">>] = world.history.releases
  BY DEF GitHubC06Inv, GitHubC06Heard, Outcomes, GitHubC06!Got
<1>2. S \subseteq GitHubC06!Recent(GitHubC06!Resolved, date)
        /\ (S = {} => GitHubC06!Recent(GitHubC06!Resolved, date) = {})
  BY GitHubC06Chosen DEF date
<1>3. GitHubC06!Resolved \subseteq GitHubC06!Named /\ GitHubC06!Named = {r \in world.history.releases : r.named}
  BY <1>1 DEF GitHubC06!Resolved, GitHubC06!Named
<1>4. GitHubC06!Recent(world.history.releases, date) = GitHubC06!Recent(GitHubC06!Named, date)
  BY <1>3 DEF GitHubC06!Recent
<1>5. GitHubC06!Dropped = {} => GitHubC06!Recent(GitHubC06!Resolved,
        date) = GitHubC06!Recent(GitHubC06!Named, date)
  BY <1>3 DEF GitHubC06!Dropped, GitHubC06!Recent, date
<1>6. /\ \/ cv = Partial /\ S = {} /\ GitHubC06!Dropped # {}
         \/ cv = NotCheckable /\ S = {} /\ GitHubC06!Dropped = {}
         \/ cv = Fail /\ S # {} /\ GitHubC06!Missing(covering) # {}
         \/ cv = Pass /\ S # {} /\ GitHubC06!Dropped = {} /\ \A r \in S : \E x \in runs : x.success
              /\ Counts(x, r)
         \/ cv = Partial /\ S # {} /\ runs # {}
      /\ GitHubC06!Missing(covering) # {} => \E r \in S : \A x \in runs : ~Counts(x, r)
  <2>1. cv = GitHubC06!CoverageVerdict(GitHubC06!Covering(S, firsts, date, runs), GitHubC06!Dropped)
    BY DEF cv, covering
  <2> QED
    BY <2>1, GitHubC06Coverage DEF covering
<1>7. \/ v = NotCheckable /\ GitHubC06!Matched = {} /\ (GitHubC06!Lost(<<"config">>)
           \/ GitHubC06!Configured \/ GitHubC06!Skipped # {})
      \/ v = NotCheckable /\ GitHubC06!RunsLost /\ GitHubC06!Missing(covering) # {}
      \/ /\ v = cv /\ ~(GitHubC06!RunsLost /\ GitHubC06!Missing(covering) # {})
         /\ ~(GitHubC06!Matched = {} /\ (GitHubC06!Lost(<<"config">>) \/ GitHubC06!Configured
              \/ GitHubC06!Skipped # {}))
  <2>1. ~GitHubC06!Lost(<<"releases">>)
    BY DEF GitHubC06!Got, GitHubC06!Lost
  <2> QED
    BY <2>1 DEF GitHubC06!RanPerRelease, cv, covering, date, runs
<1>8. /\ GitHubC06!Matched = {} => GitHubC06!Scanners \subseteq GitHubC06!Skipped
      /\ GitHubC06!Matched # {} => ~(GitHubC06!Scanners \subseteq GitHubC06!Skipped)
  BY GitHubC06Tools
\* A release without a run that counts for it has none at all, or shares its date.
<1>9. ASSUME NEW xs, NEW r \in S, \A x \in xs : ~Counts(x, r),
             NEW R, GitHubC06!Named \subseteq R, R \subseteq world.history.releases
      PROVE  GitHubC06!SomeUnscanned(R, date, xs)
  <2>1. S \subseteq GitHubC06!Recent(R, date) /\ S \subseteq {q \in R : q.named}
    BY <1>2, <1>3, <1>9 DEF GitHubC06!Recent
  <2>2. \A x \in xs : x.commit # r.commit
    BY <1>9 DEF GitHubC06Counts
  <2>3. CASE r \in firsts
    <3>1. \A x \in xs : ~GitHubC06!InWindow(x, r, S, date)
      BY <1>9, <2>3 DEF GitHubC06Counts
    <3>2. \A x \in xs : ~GitHubC06!InWindow(x, r, {q \in R : q.named}, date)
      BY <3>1, <2>1 DEF GitHubC06!InWindow
    <3> QED
      BY <2>1, <2>2, <3>2 DEF GitHubC06!SomeUnscanned
  <2>4. CASE r \notin firsts
    <3>1. PICK f \in firsts : date[f] = date[r]
      BY DEF GitHubC06!Firsts, date
    <3>2. f \in S /\ f # r
      BY <2>4 DEF GitHubC06!Firsts
    <3> QED
      BY <2>1, <2>2, <3>1, <3>2 DEF GitHubC06!SomeUnscanned
  <2> QED
    BY <2>3, <2>4
<1>10. CASE v = NotCheckable /\ GitHubC06!Matched = {} /\ (GitHubC06!Lost(<<"config">>)
              \/ GitHubC06!Configured \/ GitHubC06!Skipped # {})
  BY <1>8, <1>10, GitHubC06Config DEF GitHubC06!Accounted, GitHubC06!Rubric, Statuses
<1>11. CASE v = NotCheckable /\ GitHubC06!RunsLost /\ GitHubC06!Missing(covering) # {}
  <2>1. GitHubC06!SomeUnscanned(GitHubC06!Named, date, runs)
    BY <1>3, <1>6, <1>9, <1>11
  <2> QED
    BY <1>11, <2>1 DEF GitHubC06!Accounted, GitHubC06!Rubric, Statuses, date, runs
<1>12. CASE v = cv /\ cv = NotCheckable /\ S = {} /\ GitHubC06!Dropped = {}
  <2>1. GitHubC06!Recent(GitHubC06!Named, date) = {}
    BY <1>2, <1>5, <1>12
  <2> QED
    BY <1>12, <2>1 DEF GitHubC06!Accounted, GitHubC06!Rubric, Statuses, date
<1>13. CASE v = cv /\ cv = Partial
  <2>1. GitHubC06!Dropped # {} \/ GitHubC06!Scans # {}
    BY <1>6, <1>13, GitHubC06Runs DEF runs
  <2> QED
    BY <1>13, <2>1 DEF GitHubC06!Accounted, GitHubC06!Rubric, Statuses
<1>14. CASE /\ v = cv /\ cv = Pass /\ GitHubC06!Dropped = {}
            /\ \A r \in S : \E x \in runs : x.success /\ Counts(x, r)
  <2>1. S \in GitHubC06!Selections(world.history.releases, date)
    BY <1>4, <1>5, <1>14 DEF GitHubC06!Selections, date
  <2>2. runs \subseteq GitHubC06!Scans
    BY GitHubC06Runs DEF runs
  <2>3. \A x, r : Counts(x, r) => x.commit = r.commit \/ GitHubC06!InWindow(x, r, S, date)
    BY DEF GitHubC06Counts
  <2>4. GitHubC06!AllScanned(world.history.releases, date, GitHubC06!Scans)
    BY <1>14, <2>1, <2>2, <2>3 DEF GitHubC06!AllScanned
  <2> QED
    BY <1>14, <2>4 DEF GitHubC06!Accounted, GitHubC06!Rubric, Statuses, date
<1>15. CASE /\ v = cv /\ cv = Fail /\ GitHubC06!Missing(covering) # {} /\ ~GitHubC06!RunsLost
            /\ ~(GitHubC06!Matched = {} /\ (GitHubC06!Lost(<<"config">>) \/ GitHubC06!Configured
                 \/ GitHubC06!Skipped # {}))
  <2>1. GitHubC06!SomeUnscanned(world.history.releases, date, runs)
    BY <1>3, <1>6, <1>9, <1>15
  <2>2. runs = GitHubC06!Scans
    BY <1>15, GitHubC06Runs DEF runs
  <2>3. GitHubC06!Trusted
    BY <1>8, <1>15, GitHubC06Config DEF GitHubC06!Trusted
  <2>4. \/ GitHubC06!ZeroRuns(world.history.releases, GitHubC06!date, GitHubC06!Scans)
        \/ GitHubC06!Tied(world.history.releases, GitHubC06!date, GitHubC06!Scans)
    BY <2>1, <2>2 DEF date, GitHubC06!SomeUnscanned, GitHubC06!ZeroRuns, GitHubC06!Tied
  <2> QED
    BY <1>15, <2>3, <2>4 DEF GitHubC06!Accounted, GitHubC06!Rubric, GitHubC06!Deviates, Statuses
<1> QED
  <2>1. \/ cv = Partial
        \/ cv = NotCheckable /\ S = {} /\ GitHubC06!Dropped = {}
        \/ cv = Fail /\ GitHubC06!Missing(covering) # {}
        \/ cv = Pass /\ GitHubC06!Dropped = {} /\ \A r \in S : \E x \in runs : x.success /\ Counts(x, r)
    BY <1>6
  <2> QED
    BY <2>1, <1>7, <1>10, <1>11, <1>12, <1>13, <1>14, <1>15

LEMMA GitHubC06DependabotMeans ==
  ASSUME GitHubC06Inv, heard[<<"required">>] # Unasked, NEW v, v = GitHubC06!DependabotConfig
  PROVE  v \in Statuses /\ GitHubC06!Accounted("dependabot-config", v)
<1>1. CASE GitHubC06!Lost(<<"root">>) \/ GitHubC06!Lost(<<"config">>)
  BY <1>1 DEF GitHubC06!DependabotConfig, GitHubC06!Accounted, GitHubC06!Rubric, Statuses, Pass,
     Fail, Partial, NotCheckable, GitHubC06!Pass, GitHubC06!Fail, GitHubC06!Partial,
     GitHubC06!NotCheckable
<1>2. CASE ~GitHubC06!Lost(<<"root">>) /\ ~GitHubC06!Lost(<<"config">>)
  <2>1. GitHubC06!Detected = GitHubC06!InUse
    BY <1>2, GitHubC06Settled DEF GitHubC06!Detected, GitHubC06!InUse, GitHubC06!Lost
  <2>2. GitHubC06!config = world.config
    BY <1>2, GitHubC06Config
  <2> QED
    BY <1>2, <2>1, <2>2 DEF GitHubC06!DependabotConfig, GitHubC06!Accounted, GitHubC06!Rubric,
       Statuses, Pass, Fail, Partial, NotCheckable, GitHubC06!Pass, GitHubC06!Fail,
       GitHubC06!Partial, GitHubC06!NotCheckable
<1> QED
  BY <1>1, <1>2

LEMMA GitHubC06ReviewMeans ==
  ASSUME GitHubC06Inv, heard[<<"required">>] # Unasked, GitHubC06!Reviews # {} => heard[<<"review">>] # Unasked,
         NEW v, v = GitHubC06!DependencyReview
  PROVE  v \in Statuses /\ GitHubC06!Accounted("dependency-review", v)
<1> USE DEF Pass, Fail, Partial, NotCheckable, GitHubC06!Pass, GitHubC06!Fail, GitHubC06!Partial,
      GitHubC06!NotCheckable
<1>1. \A t \in GitHubC06!Reviews : t \in GitHubC06!Scanners /\ world.workflow[t].evidence = "review"
  BY GitHubC06Tools DEF GitHubC06!Reviews
<1>2. GitHubC06!Reviews = {} /\ GitHubC06!Skipped = {}
        => \A t \in GitHubC06!Scanners : world.workflow[t].evidence # "review"
  BY GitHubC06Tools DEF GitHubC06!Reviews
<1>3. CASE GitHubC06!Reviews = {}
  BY <1>2, <1>3 DEF GitHubC06!DependencyReview, GitHubC06!Accounted, GitHubC06!Rubric, Statuses
<1>4. CASE GitHubC06!Reviews # {} /\ GitHubC06!Lost(<<"review">>)
  BY <1>4 DEF GitHubC06!DependencyReview, GitHubC06!Accounted, GitHubC06!Rubric, Statuses
<1>5. CASE GitHubC06!Reviews # {} /\ ~GitHubC06!Lost(<<"review">>)
  <2>1. PICK w \in seen, t \in GitHubC06!Reviews :
          heard[<<"review">>] = [name |-> t, pullRequest |-> w.workflow[t].pullRequest]
    BY <1>5 DEF GitHubC06Inv, GitHubC06Heard, GitHubC06!Lost
  <2>2. GitHubC06!review.name = t /\ GitHubC06!review.pullRequest = w.workflow[t].pullRequest
    BY <2>1 DEF GitHubC06!review
  <2>3. GitHubC06!Got(<<"required">>) => heard[<<"required">>] = world.required
    BY GitHubC06Settled DEF GitHubC06!Got
  <2>4. \/ v = Pass /\ GitHubC06!review.pullRequest /\ GitHubC06!Got(<<"required">>)
             /\ GitHubC06!review.name \in heard[<<"required">>]
        \/ v = Partial
    BY <1>5 DEF GitHubC06!DependencyReview
  <2>5. CASE v = Pass
    <3>1. t \in GitHubC06!Scanners \cap world.required /\ w \in seen /\ w.workflow[t].pullRequest
      BY <1>1, <2>2, <2>3, <2>4, <2>5
    <3> QED
      BY <1>1, <2>5, <3>1 DEF GitHubC06!Accounted, GitHubC06!Rubric, Statuses
  <2>6. CASE v = Partial
    BY <1>1, <1>5, <2>6 DEF GitHubC06!Accounted, GitHubC06!Rubric, Statuses
  <2> QED
    BY <2>4, <2>5, <2>6
<1> QED
  BY <1>3, <1>4, <1>5

LEMMA GitHubC06AlertsMeans ==
  ASSUME GitHubC06Inv, heard[<<"required">>] # Unasked, NEW v, v = GitHubC06!AlertsTriaged
  PROVE  v \in Statuses /\ GitHubC06!Accounted("alerts-triaged", v)
BY GitHubC06Settled DEF GitHubC06!AlertsTriaged, GitHubC06!Lost, GitHubC06!Accounted,
   GitHubC06!Rubric, Statuses, Pass, Fail, Partial, NotCheckable, GitHubC06!Pass, GitHubC06!Fail,
   GitHubC06!Partial, GitHubC06!NotCheckable

LEMMA GitHubC06Verdicts ==
  ASSUME GitHubC06Inv, GitHubC06!Decide
  PROVE  /\ status' \in [GitHubC06!Checks -> Statuses] /\ UNCHANGED <<world, heard, seen>>
         /\ \A c \in GitHubC06!Checks : GitHubC06!Accounted(c, status'[c])
<1>1. UNCHANGED <<world, heard, seen>>
  BY DEF GitHubC06!Decide, GitHubC06!Emit
<1>2. CASE GitHubC06!GiveUp /\ status' = GitHubC06!Nothing(GitHubC06!Checks)
  BY <1>1, <1>2 DEF GitHubC06!Nothing, GitHubC06!Accounted, GitHubC06!Rubric, Statuses, Pass, Fail,
     Partial, NotCheckable, GitHubC06!Pass, GitHubC06!Fail, GitHubC06!Partial,
     GitHubC06!NotCheckable
<1>3. ASSUME heard[<<"required">>] # Unasked, GitHubC06!Reviews # {} => heard[<<"review">>] # Unasked,
             NEW S \in GitHubC06!Selections(GitHubC06!Resolved, GitHubC06!date),
               NEW firsts \in GitHubC06!Firsts(S, GitHubC06!date),
             status' = [c \in GitHubC06!Checks |->
               CASE c = "tool-configured"   -> GitHubC06!ToolConfigured
                 [] c = "ran-per-release"   -> GitHubC06!RanPerRelease(GitHubC06!Covering(S, firsts,
                   GitHubC06!date, GitHubC06!runs))
                 [] c = "dependabot-config" -> GitHubC06!DependabotConfig
                 [] c = "dependency-review" -> GitHubC06!DependencyReview
                 [] c = "alerts-triaged"    -> GitHubC06!AlertsTriaged]
      PROVE  /\ status' \in [GitHubC06!Checks -> Statuses]
             /\ \A c \in GitHubC06!Checks : GitHubC06!Accounted(c, status'[c])
  <2>1. /\ status'["tool-configured"] = GitHubC06!ToolConfigured
        /\ status'["ran-per-release"] = GitHubC06!RanPerRelease(GitHubC06!Covering(S, firsts,
             GitHubC06!date, GitHubC06!runs))
        /\ status'["dependabot-config"] = GitHubC06!DependabotConfig
        /\ status'["dependency-review"] = GitHubC06!DependencyReview
        /\ status'["alerts-triaged"] = GitHubC06!AlertsTriaged
        /\ status' = [c \in GitHubC06!Checks |-> status'[c]]
    BY <1>3 DEF GitHubC06!Checks
  <2>2. status'["tool-configured"] \in Statuses /\ GitHubC06!Accounted("tool-configured",
          status'["tool-configured"])
    BY <1>3, <2>1, GitHubC06ToolConfiguredMeans
  <2>3. status'["ran-per-release"] \in Statuses /\ GitHubC06!Accounted("ran-per-release",
          status'["ran-per-release"])
    <3>1. CASE GitHubC06!Lost(<<"releases">>)
      BY <2>1, <3>1 DEF GitHubC06!RanPerRelease, GitHubC06!Accounted, GitHubC06!Rubric, Statuses,
         Pass, Fail, Partial, NotCheckable, GitHubC06!Pass, GitHubC06!Fail, GitHubC06!Partial,
         GitHubC06!NotCheckable
    <3>2. CASE ~GitHubC06!Lost(<<"releases">>)
      <4>1. GitHubC06!Got(<<"releases">>)
        BY <1>3, <3>2, GitHubC06Settled DEF GitHubC06PastRead, GitHubC06!Lost, GitHubC06!Got
      <4> QED
        BY <1>3, <2>1, <4>1, GitHubC06RanPerReleaseMeans
    <3> QED
      BY <3>1, <3>2
  <2>4. status'["dependabot-config"] \in Statuses /\ GitHubC06!Accounted("dependabot-config",
          status'["dependabot-config"])
    BY <1>3, <2>1, GitHubC06DependabotMeans
  <2>5. status'["dependency-review"] \in Statuses /\ GitHubC06!Accounted("dependency-review",
          status'["dependency-review"])
    BY <1>3, <2>1, GitHubC06ReviewMeans
  <2>6. status'["alerts-triaged"] \in Statuses /\ GitHubC06!Accounted("alerts-triaged",
          status'["alerts-triaged"])
    BY <1>3, <2>1, GitHubC06AlertsMeans
  <2> QED
    BY <2>1, <2>2, <2>3, <2>4, <2>5, <2>6 DEF GitHubC06!Checks
<1> QED
  BY <1>1, <1>2, <1>3 DEF GitHubC06!Decide, GitHubC06!Emit, GitHubC06!Heard

LEMMA GitHubC06Goes == GitHubC06Inv /\ [GitHubC06!Next]_vars => GitHubC06Inv'
<1> SUFFICES ASSUME GitHubC06Inv, [GitHubC06!Next]_vars PROVE GitHubC06Inv'
  OBVIOUS
<1>1. CASE GitHubC06!ReadRepository
  <2>1. /\ Get(<<"repository">>, TRUE) /\ <<"repository">> \in GitHubC06!Call
    BY <1>1 DEF GitHubC06!ReadRepository, GitHubC06!Ask, GitHubC06!Get, Get, GitHubC06!Call,
       GitHubC06!Got, Got
  <2> QED
    BY <2>1, GitHubC06Reads DEF GitHubC06Told
<1>2. CASE GitHubC06!ListWorkflows
  <2>1. /\ Get(<<"workflows">>, DOMAIN world.workflow) /\ <<"workflows">> \in GitHubC06!Call
    BY <1>2 DEF GitHubC06!ListWorkflows, GitHubC06!Ask, GitHubC06!Get, Get, GitHubC06!Call,
       GitHubC06!Got, Got
  <2> QED
    BY <2>1, GitHubC06Reads DEF GitHubC06Told
<1>3. ASSUME NEW t \in Tool, GitHubC06!ReadFile(t)
      PROVE  GitHubC06Inv'
  <2>1. /\ Get(<<"file", t>>, world.workflow[t].evidence) /\ <<"file", t>> \in GitHubC06!Call
        /\ t \in DOMAIN world.workflow
    BY <1>3 DEF GitHubC06!ReadFile, GitHubC06!Ask, GitHubC06!Get, Get, GitHubC06!Call,
       GitHubC06!Got, Got
  <2> QED
    BY <2>1, GitHubC06Reads DEF GitHubC06Told
<1>4. CASE GitHubC06!ListReleases
  <2>1. /\ Get(<<"releases">>, world.history.releases) /\ <<"releases">> \in GitHubC06!Call
        /\ Got(<<"workflows">>) /\ GitHubC06!Heard(GitHubC06!Files)
    BY <1>4 DEF GitHubC06!ListReleases, GitHubC06!Ask, GitHubC06!Get, Get, GitHubC06!Call,
       GitHubC06!Got, Got
  <2>2. GitHubC06!Listed = DOMAIN world.workflow
    BY <2>1 DEF Got, GitHubC06Inv, GitHubC06Heard, Outcomes, GitHubC06!Listed
  <2>3. GitHubC06Fetched
    BY <2>1, <2>2 DEF GitHubC06!Heard, GitHubC06!Files, GitHubC06Fetched
  <2> QED
    BY <2>1, <2>3, GitHubC06Reads DEF GitHubC06Told
<1>5. ASSUME NEW r \in Release, GitHubC06!ResolveTag(r)
      PROVE  GitHubC06Inv'
  <2>1. /\ Get(<<"tag", r>>, r.commit) /\ <<"tag", r>> \in GitHubC06!Call
    BY <1>5 DEF GitHubC06!ResolveTag, GitHubC06!Ask, GitHubC06!Get, Get, GitHubC06!Call,
       GitHubC06!Got, Got
  <2> QED
    BY <2>1, GitHubC06Reads DEF GitHubC06Told
<1>6. ASSUME NEW t \in Tool, GitHubC06!ReadRuns(t)
      PROVE  GitHubC06Inv'
  <2>1. /\ Get(<<"runs", t>>, GitHubC06RunsOf(t)) /\ <<"runs", t>> \in GitHubC06!Call
    BY <1>6 DEF GitHubC06!ReadRuns, GitHubC06!Ask, GitHubC06!Get, Get, GitHubC06!Call,
       GitHubC06!Got, Got, GitHubC06RunsOf
  <2> QED
    BY <2>1, GitHubC06Reads DEF GitHubC06Told
<1>7. CASE GitHubC06!ReadRoot
  <2>1. Get(<<"root">>, world.manifests) /\ <<"root">> \in GitHubC06!Call /\ GitHubC06!HistoryRead
    BY <1>7 DEF GitHubC06!ReadRoot, GitHubC06!Ask, GitHubC06!Get, Get, GitHubC06!Call
  <2>2. GitHubC06PastRead
    BY <2>1, MarkersAssumption DEF GitHubC06!HistoryRead, GitHubC06!Heard, GitHubC06!Lost,
       GitHubC06!Got, Got, GitHubC06PastRead
  <2> QED
    BY <2>1, <2>2, GitHubC06Reads DEF GitHubC06Told
<1>8. CASE GitHubC06!ReadConfig
  <2>1. /\ Get(<<"config">>, world.config) /\ <<"config">> \in GitHubC06!Call /\ heard[<<"root">>] # Unasked
    BY <1>8 DEF GitHubC06!ReadConfig, GitHubC06!Ask, GitHubC06!Get, Get, GitHubC06!Call,
       GitHubC06!Got, Got, GitHubC06!Heard
  <2> QED
    BY <2>1, GitHubC06Reads DEF GitHubC06Told
<1>9. CASE GitHubC06!ReadAlerts
  <2>1. /\ Get(<<"alerts">>, world.alerts) /\ <<"alerts">> \in GitHubC06!Call /\ heard[<<"config">>] # Unasked
    BY <1>9 DEF GitHubC06!ReadAlerts, GitHubC06!Ask, GitHubC06!Get, Get, GitHubC06!Call,
       GitHubC06!Got, Got, GitHubC06!Heard
  <2> QED
    BY <2>1, GitHubC06Reads DEF GitHubC06Told
<1>10. CASE GitHubC06!ReadRequired
  <2>1. /\ Get(<<"required">>, world.required) /\ <<"required">> \in GitHubC06!Call
             /\ heard[<<"alerts">>] # Unasked
    BY <1>10 DEF GitHubC06!ReadRequired, GitHubC06!Ask, GitHubC06!Get, Get, GitHubC06!Call,
       GitHubC06!Got, Got, GitHubC06!Heard
  <2> QED
    BY <2>1, GitHubC06Reads DEF GitHubC06Told
<1>11. CASE GitHubC06!RefetchReview
  <2>1. PICK t \in GitHubC06!Reviews : GitHubC06!Ask(<<"review">>, [name |-> t,
          pullRequest |-> world.workflow[t].pullRequest])
    BY <1>11 DEF GitHubC06!RefetchReview
  <2> DEFINE answer == [name |-> t, pullRequest |-> world.workflow[t].pullRequest]
  <2>2. Get(<<"review">>, answer) /\ <<"review">> \in GitHubC06!Call /\ heard[<<"required">>] # Unasked
    BY <1>11, <2>1 DEF GitHubC06!RefetchReview, GitHubC06!Heard, GitHubC06!Ask, GitHubC06!Get, Get,
       GitHubC06!Call
  <2>3. GitHubC06Told(<<"review">>, answer)
    BY <2>2 DEF GitHubC06Told
  <2> HIDE DEF answer
  <2> QED
    BY <2>2, <2>3, GitHubC06Reads
<1>12. CASE GitHubC06!Decide
  BY <1>12, GitHubC06Verdicts, GitHubC06Same DEF GitHubC06Inv, GitHubC06!TypeOK,
     GitHubC06!SurveyTypeOK, GitHubC06!AccountedFor, Statuses, Pass, Fail, Partial, NotCheckable,
     GitHubC06!Pass, GitHubC06!Fail, GitHubC06!Partial, GitHubC06!NotCheckable
<1>13. CASE GitHubC06!Edit
  BY <1>13, GitHubC06Edits
<1>14. CASE UNCHANGED vars
  BY <1>14, GitHubC06Same DEF vars, GitHubC06Inv, GitHubC06!TypeOK, GitHubC06!SurveyTypeOK,
     GitHubC06!AccountedFor
<1> QED
  BY <1>1, <1>2, <1>3, <1>4, <1>5, <1>6, <1>7, <1>8, <1>9, <1>10, <1>11, <1>12, <1>13, <1>14 DEF
     GitHubC06!Next
-----------------------------------------------------------------------------
(* C06.sca-history: on Azure DevOps. *)

LEMMA AzureC06SameCount ==
  ASSUME NEW S
  PROVE  AzureC06!Cardinality(S) = Cardinality(S)
BY DEF AzureC06!Cardinality, Cardinality

LEMMA AzureC06Chosen ==
  ASSUME NEW R, NEW date, NEW S \in AzureC06!Selections(R, date)
  PROVE  /\ S \subseteq AzureC06!Recent(R, date)
         /\ S = {} => AzureC06!Recent(R, date) = {}
<1>1. Lookback # 0 /\ AzureC06!Cardinality({}) = 0
  BY HistoryAssumption, FS_EmptySet, AzureC06SameCount
<1> QED
  BY <1>1 DEF AzureC06!Selections

\* The pipelines were all inspected before the tags were asked for.
AzureC06Inspected ==
  /\ Got(<<"repositories">>) /\ Got(<<"pipelines">>)
  /\ \A t \in Tool : heard[<<"definition", t>>] # Unasked
  /\ \A t \in Tool : AzureC06!HasFile(t) => heard[<<"file", t>>] # Unasked

\* Nothing changes on Azure DevOps during a collection, so that all answers are about one world.
AzureC06HeardOfPipelines ==
  /\ seen = {world}
  /\ heard[<<"repositories">>] \in Outcomes({world.found})
  /\ \A t \in Tool : heard[<<"definition", t>>] \in Outcomes({world.pipeline[t]})
  /\ \A t \in Tool : heard[<<"file", t>>] \in
       Outcomes({[found |-> world.pipeline[t].file, template |-> world.pipeline[t].template]})
  /\ heard[<<"releases">>] \in Outcomes({world.history.releases})
  /\ Got(<<"pipelines">>) => Got(<<"repositories">>)
  /\ heard[<<"releases">>] # Unasked => AzureC06Inspected

\* The pipelines are what they are when the builds are asked for, and when it is decided not to.
AzureC06HeardOfScans ==
  /\ heard[<<"builds">>] \in Outcomes({AzureC06!BuildsOf(AzureC06!Matched)})
  /\ heard[<<"setup">>] \in Outcomes({world.setup})
  /\ heard[<<"alerts">>] \in Outcomes({world.alerts})
  /\ heard[<<"builds">>] # Unasked => Got(<<"releases">>)
  /\ heard[<<"setup">>] # Unasked =>
       /\ heard[<<"releases">>] # Unasked
       /\ Got(<<"releases">>) /\ AzureC06!Matched # {} => heard[<<"builds">>] # Unasked
  /\ heard[<<"alerts">>] # Unasked => heard[<<"setup">>] # Unasked

AzureC06Heard == AzureC06HeardOfPipelines /\ AzureC06HeardOfScans

AzureC06Inv == AzureC06!ScaTypeOK /\ AzureC06Heard /\ AzureC06!AccountedFor

LEMMA AzureC06Tools ==
  ASSUME AzureC06Inv, heard[<<"releases">>] # Unasked
  PROVE  /\ AzureC06!Matched = AzureC06!Scanners(world) \cap AzureC06!Read
         /\ \A t \in AzureC06!Matched : AzureC06!Content(t).found = world.pipeline[t].file
         /\ AzureC06!Skipped = {} =>
              \A t \in Tool : world.pipeline[t].repository = "this" =>
                \/ heard[<<"definition", t>>] = Failed
                \/ AzureC06!Plain(world, t) /\ (t \in AzureC06!Scanners(world) => t \in AzureC06!Matched)
<1>1. \A t \in Tool : heard[<<"definition", t>>] \in {Failed, world.pipeline[t]}
                      /\ heard[<<"definition", t>>] # Unasked
  BY DEF AzureC06Inv, AzureC06Heard, AzureC06HeardOfPipelines, AzureC06Inspected, Outcomes, Got
<1>2. \A t \in Tool : AzureC06!HasFile(t) =>
        /\ heard[<<"file", t>>] # Unasked
        /\ heard[<<"file", t>>] \in
             {Failed, [found |-> world.pipeline[t].file, template |-> world.pipeline[t].template]}
  BY DEF AzureC06Inv, AzureC06Heard, AzureC06HeardOfPipelines, AzureC06Inspected, Outcomes, Got
<1>3. \A t \in Tool : AzureC06!HasFile(t) <=>
        heard[<<"definition", t>>] # Failed /\ world.pipeline[t].process = "yaml"
  BY <1>1 DEF AzureC06!HasFile, AzureC06!Definition, AzureC06!Got
<1>4. \A t \in Tool : t \in AzureC06!Ours <=>
        heard[<<"definition", t>>] # Failed /\ world.pipeline[t].repository = "this"
  BY <1>1 DEF AzureC06!Ours, AzureC06!Definition, AzureC06!Got
<1>5. \A t \in Tool : t \in AzureC06!Read <=>
        t \in AzureC06!Ours /\ AzureC06!HasFile(t) /\ heard[<<"file", t>>] # Failed
  BY <1>2, <1>4 DEF AzureC06!Read, AzureC06!Got, AzureC06!Ours
<1>6. ASSUME NEW t \in AzureC06!Read
      PROVE  /\ t \in Tool
             /\ AzureC06!Content(t).found = world.pipeline[t].file
             /\ AzureC06!Content(t).template = world.pipeline[t].template
  <2>1. t \in Tool
    BY DEF AzureC06!Read, AzureC06!Ours
  <2>2. heard[<<"file", t>>] = [found |-> world.pipeline[t].file, template |-> world.pipeline[t].template]
    BY <2>1, <1>2, <1>5
  <2> QED
    BY <2>1, <2>2 DEF AzureC06!Content
<1>7. AzureC06!Matched = AzureC06!Scanners(world) \cap AzureC06!Read
  BY <1>3, <1>4, <1>5, <1>6 DEF AzureC06!Matched, AzureC06!Scanners
<1>8. ASSUME AzureC06!Skipped = {}, NEW t \in Tool, world.pipeline[t].repository = "this",
             heard[<<"definition", t>>] # Failed
      PROVE  AzureC06!Plain(world, t) /\ (t \in AzureC06!Scanners(world) => t \in AzureC06!Matched)
  <2>1. t \in AzureC06!Ours /\ AzureC06!Definition(t) = world.pipeline[t]
    BY <1>1, <1>4, <1>8 DEF AzureC06!Definition
  <2>2. world.pipeline[t].process # "pathless"
    BY <2>1, <1>8 DEF AzureC06!Skipped
  <2>3. world.pipeline[t] \in AzureC06!Pipelines
    BY PipelineAssumption DEF AzureC06Inv, AzureC06!ScaTypeOK, AzureC06!SurveyTypeOK,
       AzureC06!Worlds, AzureC06!Pipelines, AzureC06!Evidence
  <2>4. world.pipeline[t].process \in {"yaml", "classic"}
    BY <2>2, <2>3 DEF AzureC06!Pipelines
  <2>5. CASE world.pipeline[t].process = "classic"
    BY <2>5 DEF AzureC06!Plain, AzureC06!Scanners
  <2>6. CASE world.pipeline[t].process = "yaml"
    <3>1. AzureC06!HasFile(t)
      BY <2>6, <1>3, <1>8
    <3>2. heard[<<"file", t>>] # Failed
      BY <3>1, <2>1, <1>8 DEF AzureC06!Skipped
    <3>3. t \in AzureC06!Read
      BY <3>1, <3>2, <2>1, <1>5
    <3>4. ~AzureC06!Content(t).template
      BY <3>3, <2>1, <1>8 DEF AzureC06!Skipped
    <3> QED
      BY <3>3, <3>4, <2>6, <1>6, <1>7 DEF AzureC06!Plain
  <2> QED
    BY <2>4, <2>5, <2>6
<1> QED
  BY <1>6, <1>7, <1>8

\* The releases that were read, and those a verdict is about.
LEMMA AzureC06Releases ==
  ASSUME AzureC06Inv, AzureC06!Got(<<"releases">>), NEW S \in AzureC06!Selections(AzureC06!Resolved,
           AzureC06!date)
  PROVE  /\ heard[<<"releases">>] = world.history.releases
         /\ S \subseteq AzureC06!Recent(AzureC06!Resolved, AzureC06!date)
         /\ S = {} => AzureC06!Recent(AzureC06!Resolved, AzureC06!date) = {}
         /\ AzureC06!Resolved \subseteq AzureC06!Named
         /\ S \subseteq AzureC06!Recent(world.history.releases, AzureC06!date)
         /\ S \subseteq {q \in world.history.releases : q.named}
         /\ AzureC06!Recent(world.history.releases, AzureC06!date) = AzureC06!Recent(AzureC06!Named,
              AzureC06!date)
         /\ AzureC06!Dropped = {} =>
              /\ AzureC06!Recent(AzureC06!Named, AzureC06!date) = AzureC06!Recent(AzureC06!Resolved,
                   AzureC06!date)
              /\ S \in AzureC06!Selections(world.history.releases, AzureC06!date)
<1> DEFINE date == AzureC06!date
<1> HIDE DEF date
<1>1. heard[<<"releases">>] = world.history.releases
  BY DEF AzureC06Inv, AzureC06Heard, AzureC06HeardOfPipelines, Outcomes, AzureC06!Got
<1>2. S \subseteq AzureC06!Recent(AzureC06!Resolved, date)
        /\ (S = {} => AzureC06!Recent(AzureC06!Resolved, date) = {})
  BY AzureC06Chosen DEF date
<1>3. AzureC06!Resolved \subseteq AzureC06!Named /\ (AzureC06!Dropped = {}
        => AzureC06!Resolved = AzureC06!Named)
  BY DEF AzureC06!Resolved
<1>4. AzureC06!Recent(world.history.releases, date) = AzureC06!Recent(AzureC06!Named, date)
  BY <1>1 DEF AzureC06!Recent, AzureC06!Named
<1>5. S \subseteq AzureC06!Recent(world.history.releases, date)
        /\ S \subseteq {q \in world.history.releases : q.named}
  BY <1>1, <1>2, <1>3 DEF AzureC06!Recent, AzureC06!Named
<1>6. AzureC06!Dropped = {} => S \in AzureC06!Selections(world.history.releases, date)
  BY <1>3, <1>4 DEF AzureC06!Selections, date
<1> QED
  BY <1>1, <1>2, <1>3, <1>4, <1>5, <1>6 DEF date

\* What the answers in hand make of the pipelines depends on those about the pipelines alone.
LEMMA AzureC06Stable ==
  ASSUME \A t \in Tool : /\ heard'[<<"definition", t>>] = heard[<<"definition", t>>]
                         /\ heard'[<<"file", t>>] = heard[<<"file", t>>]
  PROVE  /\ AzureC06!Ours' = AzureC06!Ours /\ AzureC06!Read' = AzureC06!Read
         /\ AzureC06!Matched' = AzureC06!Matched /\ AzureC06!Skipped' = AzureC06!Skipped
         /\ \A t \in Tool : AzureC06!HasFile(t)' <=> AzureC06!HasFile(t)
<1>1. \A t \in Tool : AzureC06!HasFile(t)' <=> AzureC06!HasFile(t)
  BY DEF AzureC06!HasFile, AzureC06!Definition, AzureC06!Got
<1>2. AzureC06!Ours' = AzureC06!Ours
  BY DEF AzureC06!Ours, AzureC06!Definition, AzureC06!Got
<1>3. AzureC06!Ours \subseteq Tool
  BY DEF AzureC06!Ours
<1>4. AzureC06!Read' = AzureC06!Read
  BY <1>1, <1>2, <1>3 DEF AzureC06!Read, AzureC06!Got
<1>5. AzureC06!Read \subseteq Tool
  BY <1>3 DEF AzureC06!Read
<1>6. AzureC06!Matched' = AzureC06!Matched
  BY <1>4, <1>5 DEF AzureC06!Matched, AzureC06!Content
<1>7. AzureC06!Skipped' = AzureC06!Skipped
  BY <1>1, <1>2, <1>3, <1>4 DEF AzureC06!Skipped, AzureC06!Content, AzureC06!Definition
<1> QED
  BY <1>1, <1>2, <1>4, <1>6, <1>7

\* An answer about the pipelines or the tags is the true one, and comes in order.
AzureC06Told(c, answer) ==
  /\ c = <<"repositories">> => answer = world.found
  /\ c = <<"pipelines">> => Got(<<"repositories">>)
  /\ \A t \in Tool : c = <<"definition", t>> => answer = world.pipeline[t] /\ Got(<<"pipelines">>)
  /\ \A t \in Tool : c = <<"file", t>> =>
       /\ answer = [found |-> world.pipeline[t].file, template |-> world.pipeline[t].template]
       /\ AzureC06!HasFile(t)
  /\ c = <<"releases">> => answer = world.history.releases /\ AzureC06Inspected

LEMMA AzureC06ReadsOfPipelines ==
  ASSUME AzureC06Inv, NEW c \in AzureC06!ScaCall, NEW answer, Get(c, answer), AzureC06Told(c, answer)
  PROVE  /\ AzureC06HeardOfPipelines' /\ AzureC06!ScaTypeOK' /\ AzureC06!AccountedFor'
         /\ AzureC06Inspected => /\ AzureC06Inspected' /\ AzureC06!Matched' = AzureC06!Matched
                          /\ AzureC06!Skipped' = AzureC06!Skipped /\ AzureC06!Read' = AzureC06!Read
<1>1. PICK a \in {answer, Failed} : heard' = [heard EXCEPT ![c] = a]
  BY DEF Get
<1>2. heard[c] = Unasked /\ status = Undecided /\ UNCHANGED <<world, status, seen>>
  BY DEF Get
<1>3. AzureC06!ScaTypeOK' /\ AzureC06!AccountedFor'
  BY <1>1, <1>2 DEF AzureC06Inv, AzureC06!ScaTypeOK, AzureC06!SurveyTypeOK, AzureC06!AccountedFor
<1>4. DOMAIN heard = AzureC06!ScaCall
  BY DEF AzureC06Inv, AzureC06!ScaTypeOK, AzureC06!SurveyTypeOK
<1>5. /\ {<<"repositories">>, <<"pipelines">>, <<"releases">>} \subseteq AzureC06!ScaCall
      /\ \A t \in Tool : <<"definition", t>> \in AzureC06!ScaCall /\ <<"file", t>> \in AzureC06!ScaCall
  BY DEF AzureC06!ScaCall, AzureC06!Call
<1>6. \A d \in AzureC06!ScaCall : heard'[d] = IF d = c THEN a ELSE heard[d]
  BY <1>1, <1>4
<1>7. seen' = {world'} /\ world' = world
  BY <1>2 DEF AzureC06Inv, AzureC06Heard, AzureC06HeardOfPipelines
<1>8. /\ heard'[<<"repositories">>] \in Outcomes({world'.found})
      /\ heard'[<<"releases">>] \in Outcomes({world'.history.releases})
  BY <1>5, <1>6, <1>7 DEF AzureC06Inv, AzureC06Heard, AzureC06HeardOfPipelines, Outcomes,
     AzureC06Told
<1>9. ASSUME NEW t \in Tool
      PROVE  heard'[<<"definition", t>>] \in Outcomes({world'.pipeline[t]})
  <2>1. \/ heard'[<<"definition", t>>] = heard[<<"definition", t>>]
        \/ heard'[<<"definition", t>>] \in {world.pipeline[t], Failed}
    BY <1>5, <1>6 DEF AzureC06Told
  <2>2. heard[<<"definition", t>>] \in Outcomes({world.pipeline[t]})
    BY DEF AzureC06Inv, AzureC06Heard, AzureC06HeardOfPipelines
  <2> QED
    BY <2>1, <2>2, <1>7 DEF Outcomes
<1>10. ASSUME NEW t \in Tool
       PROVE  heard'[<<"file", t>>] \in
                Outcomes({[found |-> world'.pipeline[t].file, template |-> world'.pipeline[t].template]})
  <2> DEFINE content == [found |-> world.pipeline[t].file, template |-> world.pipeline[t].template]
  <2>1. heard'[<<"file", t>>] = heard[<<"file", t>>] \/ heard'[<<"file", t>>] \in {content, Failed}
    BY <1>5, <1>6 DEF AzureC06Told
  <2>2. heard[<<"file", t>>] \in Outcomes({content})
    BY DEF AzureC06Inv, AzureC06Heard, AzureC06HeardOfPipelines
  <2>3. content = [found |-> world'.pipeline[t].file, template |-> world'.pipeline[t].template]
    BY <1>7
  <2> HIDE DEF content
  <2> QED
    BY <2>1, <2>2, <2>3 DEF Outcomes
<1>11. \A d \in AzureC06!ScaCall : Got(d) => Got(d)' /\ d # c
  BY <1>6, <1>2 DEF Got
\* Once the releases have been asked for, the pipelines are what they are.
<1>12. ASSUME AzureC06Inspected
       PROVE  /\ AzureC06Inspected' /\ AzureC06!Matched' = AzureC06!Matched
              /\ AzureC06!Skipped' = AzureC06!Skipped /\ AzureC06!Read' = AzureC06!Read
  <2>1. \A t \in Tool : c # <<"definition", t>> /\ (AzureC06!HasFile(t) => c # <<"file", t>>)
    BY <1>12, <1>2 DEF AzureC06Inspected
  <2>2. \A t \in Tool : c # <<"file", t>>
    BY <2>1 DEF AzureC06Told
  <2>3. \A t \in Tool : /\ heard'[<<"definition", t>>] = heard[<<"definition", t>>]
                        /\ heard'[<<"file", t>>] = heard[<<"file", t>>]
    BY <2>1, <2>2, <1>5, <1>6
  <2>4. Got(<<"repositories">>)' /\ Got(<<"pipelines">>)'
    BY <1>5, <1>11, <1>12 DEF AzureC06Inspected
  <2> QED
    BY <2>3, <2>4, <1>12, AzureC06Stable DEF AzureC06Inspected
<1>13. heard'[<<"releases">>] # Unasked => AzureC06Inspected'
  BY <1>5, <1>6, <1>12 DEF AzureC06Inv, AzureC06Heard, AzureC06HeardOfPipelines, AzureC06Told
<1>14. Got(<<"pipelines">>)' => Got(<<"repositories">>)'
  BY <1>5, <1>6, <1>11 DEF AzureC06Inv, AzureC06Heard, AzureC06HeardOfPipelines, AzureC06Told, Got
<1> QED
  BY <1>3, <1>7, <1>8, <1>9, <1>10, <1>12, <1>13, <1>14 DEF AzureC06HeardOfPipelines

AzureC06ToldOfScans(c, answer) ==
  /\ c = <<"builds">> => answer = AzureC06!BuildsOf(AzureC06!Matched) /\ Got(<<"releases">>)
  /\ c = <<"setup">> =>
       /\ answer = world.setup /\ heard[<<"releases">>] # Unasked
       /\ Got(<<"releases">>) /\ AzureC06!Matched # {} => heard[<<"builds">>] # Unasked
  /\ c = <<"alerts">> => answer = world.alerts /\ heard[<<"setup">>] # Unasked

LEMMA AzureC06Reads ==
  ASSUME AzureC06Inv, NEW c \in AzureC06!ScaCall, NEW answer, Get(c, answer), AzureC06Told(c, answer),
           AzureC06ToldOfScans(c, answer)
  PROVE  AzureC06Inv'
<1>1. PICK a \in {answer, Failed} : heard' = [heard EXCEPT ![c] = a]
  BY DEF Get
<1>2. heard[c] = Unasked /\ status = Undecided /\ UNCHANGED <<world, status, seen>>
  BY DEF Get
<1>3. DOMAIN heard = AzureC06!ScaCall
  BY DEF AzureC06Inv, AzureC06!ScaTypeOK, AzureC06!SurveyTypeOK
<1>4. \A d \in AzureC06!ScaCall : heard'[d] = IF d = c THEN a ELSE heard[d]
  BY <1>1, <1>3
<1>5. {<<"releases">>, <<"builds">>, <<"setup">>, <<"alerts">>} \subseteq AzureC06!ScaCall
  BY DEF AzureC06!ScaCall, AzureC06!Call
<1>6. \A d \in AzureC06!ScaCall : heard[d] # Unasked => heard'[d] = heard[d] /\ d # c
  BY <1>4, <1>2
<1>7. Got(<<"releases">>) => Got(<<"releases">>)'
  BY <1>5, <1>6 DEF Got
\* The pipelines that matched are those that matched when the builds were asked for.
<1>8. heard[<<"releases">>] # Unasked => AzureC06!Matched' = AzureC06!Matched
  BY AzureC06ReadsOfPipelines DEF AzureC06Inv, AzureC06Heard, AzureC06HeardOfPipelines
<1>9. heard'[<<"builds">>] # Unasked => Got(<<"releases">>) /\ Got(<<"releases">>)'
  BY <1>4, <1>5, <1>7 DEF AzureC06Inv, AzureC06Heard, AzureC06HeardOfScans, AzureC06ToldOfScans
<1>10. heard'[<<"builds">>] \in Outcomes({AzureC06!BuildsOf(AzureC06!Matched)'})
  <2>1. CASE heard'[<<"builds">>] = Unasked
    BY <2>1 DEF Outcomes
  <2>2. CASE heard'[<<"builds">>] # Unasked
    <3>1. AzureC06!Matched' = AzureC06!Matched
      BY <2>2, <1>8, <1>9 DEF Got
    <3>2. AzureC06!BuildsOf(AzureC06!Matched)' = AzureC06!BuildsOf(AzureC06!Matched)
      BY <3>1, <1>2 DEF AzureC06!BuildsOf
    <3>3. heard'[<<"builds">>] \in Outcomes({AzureC06!BuildsOf(AzureC06!Matched)})
      BY <1>4, <1>5 DEF AzureC06Inv, AzureC06Heard, AzureC06HeardOfScans, Outcomes,
         AzureC06ToldOfScans
    <3> QED
      BY <3>2, <3>3
  <2> QED
    BY <2>1, <2>2
<1>11. heard'[<<"setup">>] \in Outcomes({world'.setup}) /\ heard'[<<"alerts">>] \in Outcomes({world'.alerts})
  BY <1>2, <1>4, <1>5 DEF AzureC06Inv, AzureC06Heard, AzureC06HeardOfScans, Outcomes,
     AzureC06ToldOfScans
<1>12. ASSUME heard'[<<"setup">>] # Unasked
       PROVE  /\ heard'[<<"releases">>] # Unasked
              /\ Got(<<"releases">>)' /\ AzureC06!Matched' # {} => heard'[<<"builds">>] # Unasked
  <2>1. /\ heard[<<"releases">>] # Unasked
        /\ Got(<<"releases">>) /\ AzureC06!Matched # {} => heard[<<"builds">>] # Unasked
    BY <1>4, <1>5, <1>12 DEF AzureC06Inv, AzureC06Heard, AzureC06HeardOfScans, AzureC06ToldOfScans
  <2>2. heard'[<<"releases">>] = heard[<<"releases">>] /\ AzureC06!Matched' = AzureC06!Matched
    BY <2>1, <1>5, <1>6, <1>8
  <2> QED
    BY <2>1, <2>2, <1>5, <1>6 DEF Got
<1>13. heard'[<<"alerts">>] # Unasked => heard'[<<"setup">>] # Unasked
  <2>1. heard'[<<"alerts">>] # Unasked => heard[<<"setup">>] # Unasked
    BY <1>4, <1>5 DEF AzureC06Inv, AzureC06Heard, AzureC06HeardOfScans, AzureC06ToldOfScans
  <2> QED
    BY <2>1, <1>5, <1>6
<1>14. AzureC06HeardOfScans'
  BY <1>9, <1>10, <1>11, <1>12, <1>13 DEF AzureC06HeardOfScans
<1> QED
  BY <1>14, AzureC06ReadsOfPipelines DEF AzureC06Inv, AzureC06Heard

LEMMA AzureC06Starts == AzureC06!ScaInit => AzureC06Inv
<1> SUFFICES ASSUME AzureC06!ScaInit PROVE AzureC06Inv
  OBVIOUS
<1>1. /\ world \in AzureC06!Worlds /\ seen = {world} /\ status = Undecided
      /\ heard = [c \in AzureC06!ScaCall |-> Unasked]
  BY SettingsAssumption DEF AzureC06!ScaInit, AzureC06!InitWith
<1>2. AzureC06!ScaTypeOK /\ AzureC06!AccountedFor
  BY <1>1 DEF AzureC06!ScaTypeOK, AzureC06!SurveyTypeOK, AzureC06!AccountedFor
<1>3. AzureC06HeardOfPipelines
  BY <1>1 DEF AzureC06HeardOfPipelines, Outcomes, Got, AzureC06!ScaCall, AzureC06!Call
<1>4. AzureC06HeardOfScans
  BY <1>1 DEF AzureC06HeardOfScans, Outcomes, Got, AzureC06!ScaCall, AzureC06!Call
<1> QED
  BY <1>2, <1>3, <1>4 DEF AzureC06Inv, AzureC06Heard

\* A step after which all answers are the same.
LEMMA AzureC06Same ==
  ASSUME AzureC06Inv, UNCHANGED <<world, heard, seen>>
  PROVE  /\ AzureC06Heard'
         /\ \A c, s : AzureC06!Accounted(c, s)' <=> AzureC06!Accounted(c, s)
<1>1. /\ AzureC06!Matched' = AzureC06!Matched /\ AzureC06!Skipped' = AzureC06!Skipped
           /\ AzureC06!Read' = AzureC06!Read
      /\ \A t \in Tool : AzureC06!HasFile(t)' <=> AzureC06!HasFile(t)
  BY AzureC06Stable
<1>2. /\ AzureC06!Named' = AzureC06!Named /\ AzureC06!date' = AzureC06!date
      /\ AzureC06!Dropped' = AzureC06!Dropped /\ AzureC06!BuildsLost' = AzureC06!BuildsLost
  BY DEF AzureC06!Named, AzureC06!date, AzureC06!Dropped, AzureC06!BuildsLost
<1>3. AzureC06!BuildsOf(AzureC06!Matched)' = AzureC06!BuildsOf(AzureC06!Matched)
  BY <1>1 DEF AzureC06!BuildsOf
<1>4. AzureC06Inspected' <=> AzureC06Inspected
  BY <1>1 DEF AzureC06Inspected, Got
<1>5. AzureC06Heard'
  <2>1. AzureC06HeardOfPipelines'
    BY <1>4 DEF AzureC06Inv, AzureC06Heard, AzureC06HeardOfPipelines, Got
  <2>2. AzureC06HeardOfScans'
    BY <1>1, <1>3 DEF AzureC06Inv, AzureC06Heard, AzureC06HeardOfScans, Got
  <2> QED
    BY <2>1, <2>2 DEF AzureC06Heard
<1>6. AzureC06!NoRepository' <=> AzureC06!NoRepository
  <2>1. AzureC06!Inspected' <=> AzureC06!Inspected
    BY DEF AzureC06!Inspected, AzureC06!Asked, AzureC06!Got, AzureC06!HasFile, AzureC06!Definition
  <2> QED
    BY <2>1 DEF AzureC06!NoRepository, AzureC06!Lost
<1>7. /\ AzureC06!Scanners(world)' = AzureC06!Scanners(world) /\ AzureC06!Unread' = AzureC06!Unread
      /\ \A t : AzureC06!Plain(world, t)' <=> AzureC06!Plain(world, t)
      /\ \A c : AzureC06!Lost(c)' <=> AzureC06!Lost(c)
  BY DEF AzureC06!Scanners, AzureC06!Plain, AzureC06!Unread, AzureC06!Lost
<1>8. AzureC06!Scans(world)' = AzureC06!Scans(world) /\ AzureC06!Vouched' = AzureC06!Vouched
  BY <1>1, <1>7 DEF AzureC06!Scans, AzureC06!Vouched
<1>10. (AzureC06!Unscanned' <=> AzureC06!Unscanned) /\ (AzureC06!AtOnce' <=> AzureC06!AtOnce)
  BY <1>2, <1>8 DEF AzureC06!Unscanned, AzureC06!AtOnce
<1>9. ASSUME NEW c, NEW s
      PROVE  AzureC06!Accounted(c, s)' <=> AzureC06!Accounted(c, s)
  <2>1. AzureC06!Rubric(c, s)' <=> AzureC06!Rubric(c, s)
    BY <1>1, <1>2, <1>6, <1>7, <1>8, <1>10 DEF AzureC06!Rubric
  <2>2. AzureC06!Deviates(c, s)' <=> AzureC06!Deviates(c, s)
    BY <1>1, <1>7, <1>8, <1>10 DEF AzureC06!Deviates
  <2> QED
    BY <2>1, <2>2 DEF AzureC06!Accounted
<1> QED
  BY <1>5, <1>9

LEMMA AzureC06Settled ==
  ASSUME AzureC06Inv, heard[<<"alerts">>] # Unasked
  PROVE  /\ heard[<<"releases">>] # Unasked
         /\ AzureC06!setup \in {Failed, world.setup} /\ world.setup \in {"on", "off"}
         /\ AzureC06!alerts \in {Failed, world.alerts}
         /\ "on" # Failed /\ "off" # Failed
BY MarkersAssumption DEF AzureC06Inv, AzureC06Heard, AzureC06HeardOfScans, Outcomes,
   AzureC06!setup, AzureC06!alerts, AzureC06!ScaTypeOK, AzureC06!SurveyTypeOK, AzureC06!Worlds

LEMMA AzureC06Runs ==
  ASSUME AzureC06Inv, heard[<<"alerts">>] # Unasked, AzureC06!Got(<<"releases">>)
  PROVE  /\ AzureC06!runs \subseteq AzureC06!Scans(world)
         /\ AzureC06!BuildsLost \/ AzureC06!runs = AzureC06!Scans(world)
         /\ AzureC06!runs # {} => AzureC06!Matched # {}
<1>1. AzureC06!Scans(world) = AzureC06!BuildsOf(AzureC06!Matched)
  BY AzureC06Settled, AzureC06Tools DEF AzureC06!Scans, AzureC06!BuildsOf
<1>2. AzureC06!Matched = {} => AzureC06!BuildsOf(AzureC06!Matched) = {}
  BY DEF AzureC06!BuildsOf
<1>3. heard[<<"builds">>] \in {Unasked, Failed, AzureC06!BuildsOf(AzureC06!Matched)}
  BY DEF AzureC06Inv, AzureC06Heard, AzureC06HeardOfScans, Outcomes
<1>4. heard[<<"builds">>] = Unasked => AzureC06!Matched = {}
  BY DEF AzureC06Inv, AzureC06Heard, AzureC06HeardOfScans, AzureC06!Got, Got
<1> QED
  BY <1>1, <1>2, <1>3, <1>4 DEF AzureC06!runs, AzureC06!Got, AzureC06!BuildsLost

LEMMA AzureC06ToolConfiguredMeans ==
  ASSUME AzureC06Inv, heard[<<"alerts">>] # Unasked, NEW v, v = AzureC06!ScaToolConfigured
  PROVE  v \in Statuses /\ AzureC06!Accounted("tool-configured", v)
<1> USE DEF Pass, Fail, Partial, NotCheckable, AzureC06!Pass, AzureC06!Fail, AzureC06!Partial,
      AzureC06!NotCheckable
<1>1. /\ AzureC06!Strong => \E t \in AzureC06!Scanners(world) : world.pipeline[t].file = "strong"
      /\ AzureC06!Matched # {} => AzureC06!Scanners(world) # {}
      /\ AzureC06!Matched = {} => AzureC06!Scanners(world) \cap AzureC06!Read = {}
  BY AzureC06Settled, AzureC06Tools DEF AzureC06!Strong
<1>2. AzureC06!Skipped = {} /\ AzureC06!Matched = {} => Tool \ AzureC06!Unread \subseteq AzureC06!Vouched
  BY AzureC06Settled, AzureC06Tools DEF AzureC06!Unread, AzureC06!Lost, AzureC06!Vouched
<1>3. \/ v = NotCheckable /\ AzureC06!Matched = {} /\ (AzureC06!setup = Failed \/ AzureC06!Skipped # {})
      \/ v = Pass /\ (AzureC06!Strong \/ AzureC06!setup = "on")
      \/ v = Partial /\ AzureC06!setup # "on" /\ AzureC06!Matched # {}
      \/ v = Fail /\ AzureC06!Matched = {} /\ AzureC06!setup # "on" /\ AzureC06!setup # Failed
           /\ AzureC06!Skipped = {}
  BY DEF AzureC06!ScaToolConfigured, AzureC06!ConfiguredVerdict
<1>4. /\ AzureC06!setup = Failed <=> AzureC06!Lost(<<"setup">>)
      /\ AzureC06!setup = "on" => world.setup = "on"
      /\ AzureC06!setup # "on" => AzureC06!Lost(<<"setup">>) \/ world.setup = "off"
  BY AzureC06Settled DEF AzureC06!Lost, AzureC06!setup
<1> QED
  <2>1. CASE v # Fail
    BY <2>1, <1>1, <1>3, <1>4 DEF AzureC06!Accounted, AzureC06!Rubric, Statuses
  <2>2. CASE v = Fail
    <3>1. world.setup = "off" /\ Tool \ AzureC06!Unread \subseteq AzureC06!Vouched
      BY <2>2, <1>2, <1>3, <1>4, AzureC06Settled DEF AzureC06!Lost, AzureC06!setup
    <3> QED
      BY <2>2, <3>1 DEF AzureC06!Accounted, AzureC06!Rubric, AzureC06!Deviates, Statuses
  <2> QED
    BY <2>1, <2>2

\* A run that counts for a release.
AzureC06Counts(x, r, S, firsts, date) ==
  x.commit = r.commit \/ (r \in firsts /\ AzureC06!InWindow(x, r, S, date))

LEMMA AzureC06Coverage ==
  ASSUME NEW S, NEW firsts, NEW date, NEW runs, NEW dropped, NEW verdict,
         verdict = AzureC06!CoverageVerdict(AzureC06!Covering(S, firsts, date, runs), dropped)
  PROVE  \/ verdict = Partial /\ S = {} /\ dropped # {}
         \/ verdict = NotCheckable /\ S = {} /\ dropped = {}
         \/ /\ verdict = Fail /\ S # {}
            /\ \E r \in S : \A x \in runs : ~AzureC06Counts(x, r, S, firsts, date)
         \/ /\ verdict = Pass /\ S # {} /\ dropped = {}
            /\ \A r \in S : \E x \in runs : x.success /\ AzureC06Counts(x, r, S, firsts, date)
         \/ /\ verdict = Partial /\ S # {}
            /\ dropped # {} \/ \E r \in S : \E x \in runs : AzureC06Counts(x, r, S, firsts, date)
<1> DEFINE covering == AzureC06!Covering(S, firsts, date, runs)
<1>1. /\ DOMAIN covering = S
      /\ \A r \in S : covering[r] = {x \in runs : AzureC06Counts(x, r, S, firsts, date)}
  BY DEF AzureC06!Covering, AzureC06Counts
<1> HIDE DEF covering
<1>2. AzureC06!Missing(covering) # {} => \E r \in S : \A x \in runs : ~AzureC06Counts(x, r, S, firsts, date)
  BY <1>1 DEF AzureC06!Missing
<1>3. AzureC06!Missing(covering) = {} /\ AzureC06!Unclean(covering) = {} =>
        \A r \in S : \E x \in runs : x.success /\ AzureC06Counts(x, r, S, firsts, date)
  BY <1>1 DEF AzureC06!Unclean
<1>4. AzureC06!Missing(covering) = {} /\ S # {} => \E r \in S : \E x \in runs : AzureC06Counts(x, r, S,
        firsts, date)
  BY <1>1 DEF AzureC06!Missing
<1>5. verdict = AzureC06!CoverageVerdict(covering, dropped)
  BY DEF covering
<1> QED
  BY <1>1, <1>2, <1>3, <1>4, <1>5 DEF AzureC06!CoverageVerdict, Pass, Fail, Partial, NotCheckable,
     AzureC06!Pass, AzureC06!Fail, AzureC06!Partial, AzureC06!NotCheckable

LEMMA AzureC06RanPerReleaseMeans ==
  ASSUME AzureC06Inv, heard[<<"alerts">>] # Unasked, AzureC06!Got(<<"releases">>),
         NEW S \in AzureC06!Selections(AzureC06!Resolved, AzureC06!date),
           NEW firsts \in AzureC06!Firsts(S, AzureC06!date), NEW v,
         v = AzureC06!ScaRanPerRelease(AzureC06!Covering(S, firsts, AzureC06!date, AzureC06!runs))
  PROVE  v \in Statuses /\ AzureC06!Accounted("ran-per-release", v)
<1> USE DEF Pass, Fail, Partial, NotCheckable, AzureC06!Pass, AzureC06!Fail, AzureC06!Partial,
      AzureC06!NotCheckable
<1> DEFINE date == AzureC06!date
           runs == AzureC06!runs
           Counts(x, r) == AzureC06Counts(x, r, S, firsts, date)
           covering == AzureC06!Covering(S, firsts, date, runs)
           cv == AzureC06!CoverageVerdict(covering, AzureC06!Dropped)
<1>1. DOMAIN covering = S
  BY DEF AzureC06!Covering
<1> HIDE DEF date, runs, covering, cv
<1>2. \/ cv = Partial /\ S = {} /\ AzureC06!Dropped # {}
      \/ cv = NotCheckable /\ S = {} /\ AzureC06!Dropped = {}
      \/ cv = Fail /\ S # {} /\ \E r \in S : \A x \in runs : ~Counts(x, r)
      \/ cv = Pass /\ S # {} /\ AzureC06!Dropped = {} /\ \A r \in S : \E x \in runs : x.success /\ Counts(x, r)
      \/ cv = Partial /\ S # {} /\ (AzureC06!Dropped # {} \/ runs # {})
  <2>1. cv = AzureC06!CoverageVerdict(AzureC06!Covering(S, firsts, date, runs), AzureC06!Dropped)
    BY DEF cv, covering
  <2> QED
    BY <2>1, AzureC06Coverage
<1>3. AzureC06!Got(<<"releases">>) /\ ~AzureC06!Lost(<<"releases">>)
  BY DEF AzureC06!Got, AzureC06!Lost
<1>4. \/ v = NotCheckable /\ AzureC06!Matched = {} /\ (AzureC06!setup # "off" \/ AzureC06!Skipped # {})
      \/ v = NotCheckable /\ AzureC06!BuildsLost
      \/ /\ v = cv /\ ~(S # {} /\ AzureC06!BuildsLost)
         /\ ~(AzureC06!Matched = {} /\ (AzureC06!setup # "off" \/ AzureC06!Skipped # {}))
  BY <1>1, <1>3 DEF AzureC06!ScaRanPerRelease, cv, covering, date, runs
<1>5. /\ AzureC06!Matched = {} <=> AzureC06!Scanners(world) \cap AzureC06!Read = {}
      /\ AzureC06!setup = "off" => world.setup = "off"
      /\ AzureC06!setup # "off" => world.setup = "on" \/ AzureC06!Lost(<<"setup">>)
  BY AzureC06Settled, AzureC06Tools DEF AzureC06!setup, AzureC06!Lost
<1>6. CASE v = NotCheckable /\ AzureC06!Matched = {} /\ (AzureC06!setup # "off" \/ AzureC06!Skipped # {})
  BY <1>5, <1>6 DEF AzureC06!Accounted, AzureC06!Rubric, Statuses
<1>7. CASE v = NotCheckable /\ AzureC06!BuildsLost
  BY <1>7 DEF AzureC06!Accounted, AzureC06!Rubric, Statuses
<1>8. CASE v = cv /\ cv = NotCheckable /\ S = {} /\ AzureC06!Dropped = {}
  <2>1. AzureC06!Recent(AzureC06!Named, AzureC06!date) = {}
    BY <1>8, <1>3, AzureC06Releases
  <2> QED
    BY <1>8, <2>1 DEF AzureC06!Accounted, AzureC06!Rubric, Statuses
<1>9. CASE v = cv /\ cv = Partial
  <2>1. AzureC06!Dropped # {} \/ runs # {}
    BY <1>2, <1>9
  <2>2. runs # {} => AzureC06!Scans(world) # {}
    BY AzureC06Runs DEF runs
  <2> QED
    BY <1>9, <2>1, <2>2 DEF AzureC06!Accounted, AzureC06!Rubric, Statuses
<1>10. CASE /\ v = cv /\ cv = Pass /\ AzureC06!Dropped = {}
            /\ \A r \in S : \E x \in runs : x.success /\ Counts(x, r)
  <2>1. S \in AzureC06!Selections(world.history.releases, date)
    BY <1>3, <1>10, AzureC06Releases DEF date
  <2>2. runs \subseteq AzureC06!Scans(world)
    BY AzureC06Runs DEF runs
  <2>3. \A x, r : Counts(x, r) => x.commit = r.commit \/ AzureC06!InWindow(x, r, S, date)
    BY DEF AzureC06Counts
  <2>4. AzureC06!AllScanned(world.history.releases, date, AzureC06!Scans(world))
    BY <1>10, <2>1, <2>2, <2>3 DEF AzureC06!AllScanned
  <2> QED
    BY <1>10, <2>4 DEF AzureC06!Accounted, AzureC06!Rubric, Statuses, date
<1>11. ASSUME v = cv, cv = Fail, ~AzureC06!BuildsLost, ~(AzureC06!Matched = {}
                /\ (AzureC06!setup # "off" \/ AzureC06!Skipped # {})),
              NEW r \in S, \A x \in runs : ~Counts(x, r)
       PROVE  v \in Statuses /\ AzureC06!Accounted("ran-per-release", v)
  <2> DEFINE R == world.history.releases
             xs == AzureC06!Scans(world)
  <2>0. xs = runs
    BY <1>11, AzureC06Runs DEF runs
  <2> HIDE DEF R, xs
  <2>1. S \subseteq AzureC06!Recent(R, date) /\ S \subseteq {q \in R : q.named}
    BY <1>3, AzureC06Releases DEF R, date
  <2>2. \A x \in xs : x.commit # r.commit
    BY <1>11, <2>0 DEF AzureC06Counts
  <2>3. ASSUME r \in firsts PROVE AzureC06!SomeUnscanned(R, date, xs)
    <3>1. \A x \in xs : ~AzureC06!InWindow(x, r, S, date)
      BY <1>11, <2>0, <2>3 DEF AzureC06Counts
    <3>2. \A x \in xs : ~AzureC06!InWindow(x, r, {q \in R : q.named}, date)
      BY <3>1, <2>1 DEF AzureC06!InWindow
    <3> QED
      BY <2>1, <2>2, <3>2 DEF AzureC06!SomeUnscanned
  <2>4. ASSUME r \notin firsts PROVE AzureC06!SomeUnscanned(R, date, xs)
    <3>1. PICK f \in firsts : date[f] = date[r]
      BY DEF AzureC06!Firsts, date
    <3>2. f \in S /\ f # r
      BY <2>4 DEF AzureC06!Firsts
    <3> QED
      BY <2>1, <2>2, <3>1, <3>2 DEF AzureC06!SomeUnscanned
  <2>5. AzureC06!SomeUnscanned(R, date, xs)
    BY <2>3, <2>4
  <2>6. AzureC06!Unscanned \/ AzureC06!AtOnce
    BY <2>5 DEF R, xs, date, AzureC06!SomeUnscanned, AzureC06!ZeroRuns, AzureC06!Tied,
       AzureC06!Unscanned, AzureC06!AtOnce
  <2>7. AzureC06!Scanners(world) \cap AzureC06!Read # {} \/ (world.setup = "off" /\ AzureC06!Skipped = {})
    BY <1>5, <1>11
  <2> QED
    BY <1>11, <2>6, <2>7 DEF AzureC06!Accounted, AzureC06!Rubric, AzureC06!Deviates, Statuses
<1> QED
  BY <1>2, <1>4, <1>6, <1>7, <1>8, <1>9, <1>10, <1>11

LEMMA AzureC06AlertsTriagedMeans ==
  ASSUME AzureC06Inv, heard[<<"alerts">>] # Unasked, NEW v, v = AzureC06!AlertsTriaged
  PROVE  v \in Statuses /\ AzureC06!Accounted("alerts-triaged", v)
<1> USE DEF Pass, Fail, Partial, NotCheckable, AzureC06!Pass, AzureC06!Fail, AzureC06!Partial,
      AzureC06!NotCheckable
<1>1. world.alerts # Disabled => \A a \in world.alerts : a.dated \in BOOLEAN /\ a.overdue \in BOOLEAN
  BY DEF AzureC06Inv, AzureC06!ScaTypeOK, AzureC06!SurveyTypeOK, AzureC06!Worlds,
     AzureC06!CriticalAlerts
<1>2. \/ v = NotCheckable /\ AzureC06!Lost(<<"alerts">>)
      \/ /\ ~AzureC06!Lost(<<"alerts">>)
         /\ \/ v = Fail /\ AzureC06!alerts = Disabled
            \/ v = Partial /\ AzureC06!alerts # Disabled /\ AzureC06!alerts # {}
                 /\ \A a \in AzureC06!alerts : ~a.dated
            \/ v = Partial /\ AzureC06!alerts # Disabled /\ \E a \in AzureC06!alerts : a.dated /\ a.overdue
            \/ v = Pass /\ AzureC06!alerts # Disabled /\ ~\E a \in AzureC06!alerts : a.dated /\ a.overdue
  BY DEF AzureC06!AlertsTriaged
<1>3. ~AzureC06!Lost(<<"alerts">>) => AzureC06!alerts = world.alerts
  BY AzureC06Settled DEF AzureC06!Lost, AzureC06!alerts
<1>4. CASE v # Pass
  BY <1>1, <1>2, <1>3, <1>4 DEF AzureC06!Accounted, AzureC06!Rubric, Statuses
<1>5. CASE v = Pass
  <2>1. /\ world.alerts # Disabled
        /\ world.alerts # {} => \E a \in world.alerts : a.dated
        /\ \A a \in world.alerts : a.overdue => ~a.dated
    BY <1>1, <1>2, <1>3, <1>5 DEF AzureC06!AlertsTriaged
  <2>2. CASE \A a \in world.alerts : ~a.overdue
    BY <1>5, <2>1, <2>2 DEF AzureC06!Accounted, AzureC06!Rubric, Statuses
  <2>3. CASE \E a \in world.alerts : a.overdue
    BY <1>5, <2>1, <2>3 DEF AzureC06!Accounted, AzureC06!Deviates, Statuses
  <2> QED
    BY <2>2, <2>3
<1> QED
  BY <1>4, <1>5

LEMMA AzureC06Verdicts ==
  ASSUME AzureC06Inv, AzureC06!ScaDecide
  PROVE  /\ status' \in [AzureC06!Checks -> Statuses] /\ UNCHANGED <<world, heard, seen>>
         /\ \A c \in AzureC06!Checks : AzureC06!Accounted(c, status'[c])
<1> USE DEF Pass, Fail, Partial, NotCheckable, AzureC06!Pass, AzureC06!Fail, AzureC06!Partial,
      AzureC06!NotCheckable
<1>1. UNCHANGED <<world, heard, seen>>
  BY DEF AzureC06!ScaDecide, AzureC06!Emit
<1>2. CASE AzureC06!NoRepository /\ status' = AzureC06!Nothing(AzureC06!Checks)
  BY <1>1, <1>2 DEF AzureC06!Nothing, AzureC06!Accounted, AzureC06!Rubric, Statuses
<1>3. ASSUME heard[<<"alerts">>] # Unasked, NEW covering \in AzureC06!Coverings,
             status' = [c \in AzureC06!Checks |->
               CASE c = "tool-configured"   -> AzureC06!ScaToolConfigured
                 [] c = "ran-per-release"   -> AzureC06!ScaRanPerRelease(covering)
                 [] c = "dependabot-config" -> AzureC06!DependabotConfig
                 [] c = "dependency-review" -> AzureC06!DependencyReview
                 [] c = "alerts-triaged"    -> AzureC06!AlertsTriaged]
      PROVE  /\ status' \in [AzureC06!Checks -> Statuses]
             /\ \A c \in AzureC06!Checks : AzureC06!Accounted(c, status'[c])
  <2>1. /\ status'["tool-configured"] = AzureC06!ScaToolConfigured
        /\ status'["ran-per-release"] = AzureC06!ScaRanPerRelease(covering)
        /\ status'["dependabot-config"] = NotCheckable
        /\ status'["dependency-review"] = NotCheckable
        /\ status'["alerts-triaged"] = AzureC06!AlertsTriaged
        /\ status' = [c \in AzureC06!Checks |-> status'[c]]
    BY <1>3 DEF AzureC06!Checks, AzureC06!DependabotConfig, AzureC06!DependencyReview
  <2>2. status'["tool-configured"] \in Statuses /\ AzureC06!Accounted("tool-configured",
          status'["tool-configured"])
    BY <1>3, <2>1, AzureC06ToolConfiguredMeans
  <2>3. status'["ran-per-release"] \in Statuses /\ AzureC06!Accounted("ran-per-release",
          status'["ran-per-release"])
    <3>1. CASE AzureC06!Lost(<<"releases">>)
      BY <2>1, <3>1 DEF AzureC06!ScaRanPerRelease, AzureC06!Accounted, AzureC06!Rubric, Statuses
    <3>2. CASE ~AzureC06!Lost(<<"releases">>)
      <4>1. AzureC06!Got(<<"releases">>)
        BY <1>3, <3>2, AzureC06Settled DEF AzureC06!Lost, AzureC06!Got
      <4>2. PICK S \in AzureC06!Selections(AzureC06!Resolved, AzureC06!date) :
              \E firsts \in AzureC06!Firsts(S, AzureC06!date) : covering = AzureC06!Covering(S, firsts,
                AzureC06!date, AzureC06!runs)
        BY <1>3, <3>2 DEF AzureC06!Coverings
      <4>3. PICK firsts \in AzureC06!Firsts(S, AzureC06!date) : covering = AzureC06!Covering(S, firsts,
              AzureC06!date, AzureC06!runs)
        BY <4>2
      <4> QED
        BY <1>3, <2>1, <4>1, <4>3, AzureC06RanPerReleaseMeans
    <3> QED
      BY <3>1, <3>2
  <2>4. status'["alerts-triaged"] \in Statuses /\ AzureC06!Accounted("alerts-triaged",
          status'["alerts-triaged"])
    BY <1>3, <2>1, AzureC06AlertsTriagedMeans
  <2>5. \A c \in {"dependabot-config", "dependency-review"} :
          status'[c] \in Statuses /\ AzureC06!Accounted(c, status'[c])
    BY <2>1 DEF AzureC06!Accounted, AzureC06!Rubric, Statuses
  <2> QED
    BY <2>1, <2>2, <2>3, <2>4, <2>5 DEF AzureC06!Checks
<1> QED
  BY <1>1, <1>2, <1>3 DEF AzureC06!ScaDecide, AzureC06!Emit, AzureC06!Heard

LEMMA AzureC06Goes == AzureC06Inv /\ [AzureC06!ScaNext]_vars => AzureC06Inv'
<1> SUFFICES ASSUME AzureC06Inv, [AzureC06!ScaNext]_vars PROVE AzureC06Inv'
  OBVIOUS
<1>1. CASE AzureC06!ReadRepositories
  <2>1. Get(<<"repositories">>, world.found) /\ <<"repositories">> \in AzureC06!ScaCall
    BY <1>1 DEF AzureC06!ReadRepositories, AzureC06!Get, Get, AzureC06!ScaCall, AzureC06!Call
  <2> QED
    BY <2>1, AzureC06Reads DEF AzureC06Told, AzureC06ToldOfScans
<1>2. CASE AzureC06!ListPipelines
  <2>1. Get(<<"pipelines">>, TRUE) /\ Got(<<"repositories">>) /\ <<"pipelines">> \in AzureC06!ScaCall
    BY <1>2 DEF AzureC06!ListPipelines, AzureC06!Get, Get, AzureC06!ScaCall, AzureC06!Call,
       AzureC06!Got, Got
  <2> QED
    BY <2>1, AzureC06Reads DEF AzureC06Told, AzureC06ToldOfScans
<1>3. ASSUME NEW t \in Tool, AzureC06!FetchDefinition(t)
      PROVE  AzureC06Inv'
  <2>1. /\ Get(<<"definition", t>>, world.pipeline[t]) /\ Got(<<"pipelines">>)
        /\ <<"definition", t>> \in AzureC06!ScaCall
    BY <1>3 DEF AzureC06!FetchDefinition, AzureC06!Get, Get, AzureC06!ScaCall, AzureC06!Call,
       AzureC06!Got, Got
  <2> QED
    BY <2>1, AzureC06Reads DEF AzureC06Told, AzureC06ToldOfScans
<1>4. ASSUME NEW t \in Tool, AzureC06!FetchFile(t)
      PROVE  AzureC06Inv'
  <2> DEFINE content == [found |-> world.pipeline[t].file, template |-> world.pipeline[t].template]
  <2>1. Get(<<"file", t>>, content) /\ AzureC06!HasFile(t) /\ <<"file", t>> \in AzureC06!ScaCall
    BY <1>4 DEF AzureC06!FetchFile, AzureC06!Get, Get, AzureC06!ScaCall, AzureC06!Call
  <2>2. AzureC06Told(<<"file", t>>, content)
    BY <2>1 DEF AzureC06Told
  <2> HIDE DEF content
  <2> QED
    BY <2>1, <2>2, AzureC06Reads DEF AzureC06ToldOfScans
<1>5. CASE AzureC06!ListTags
  <2>1. /\ AzureC06!Inspected /\ heard[<<"repositories">>] /\ <<"releases">> \in AzureC06!ScaCall
        /\ Get(<<"releases">>, world.history.releases)
    BY <1>5 DEF AzureC06!ListTags, AzureC06!Get, Get, AzureC06!ScaCall, AzureC06!Call
  <2>2. Got(<<"repositories">>)
    BY <2>1 DEF AzureC06!Inspected, AzureC06!Got, Got, AzureC06Inv, AzureC06Heard,
       AzureC06HeardOfPipelines
  <2>3. AzureC06Inspected
    BY <2>1, <2>2 DEF AzureC06!Inspected, AzureC06!Asked, AzureC06!Got, Got, AzureC06Inspected
  <2> QED
    BY <2>1, <2>3, AzureC06Reads DEF AzureC06Told, AzureC06ToldOfScans
<1>6. ASSUME NEW r \in Release, AzureC06!FetchAnnotation(r)
      PROVE  AzureC06Inv'
  <2>1. Get(<<"annotation", r>>, r.at) /\ <<"annotation", r>> \in AzureC06!ScaCall
    BY <1>6 DEF AzureC06!FetchAnnotation, AzureC06!Get, Get, AzureC06!ScaCall, AzureC06!Call
  <2> QED
    BY <2>1, AzureC06Reads DEF AzureC06Told, AzureC06ToldOfScans
<1>7. ASSUME NEW r \in Release, AzureC06!FetchCommit(r)
      PROVE  AzureC06Inv'
  <2>1. Get(<<"commit", r>>, r.committed) /\ <<"commit", r>> \in AzureC06!ScaCall
    BY <1>7 DEF AzureC06!FetchCommit, AzureC06!Get, Get, AzureC06!ScaCall, AzureC06!Call
  <2> QED
    BY <2>1, AzureC06Reads DEF AzureC06Told, AzureC06ToldOfScans
<1>8. CASE AzureC06!FetchBuilds
  <2> DEFINE answers == AzureC06!BuildsOf(AzureC06!Matched)
  <2>1. Get(<<"builds">>, answers) /\ <<"builds">> \in AzureC06!ScaCall /\ Got(<<"releases">>)
    BY <1>8 DEF AzureC06!FetchBuilds, AzureC06!Get, Get, AzureC06!ScaCall, AzureC06!Call,
       AzureC06!Got, Got
  <2>2. AzureC06Told(<<"builds">>, answers) /\ AzureC06ToldOfScans(<<"builds">>, answers)
    BY <2>1 DEF AzureC06Told, AzureC06ToldOfScans
  <2> HIDE DEF answers
  <2> QED
    BY <2>1, <2>2, AzureC06Reads
<1>9. CASE AzureC06!ReadEnablement
  <2>1. /\ Get(<<"setup">>, world.setup) /\ <<"setup">> \in AzureC06!ScaCall
        /\ heard[<<"releases">>] # Unasked
        /\ Got(<<"releases">>) /\ AzureC06!Matched # {} => heard[<<"builds">>] # Unasked
    BY <1>9, MarkersAssumption DEF AzureC06!ReadEnablement, AzureC06!HistoryRead, AzureC06!Lost,
       AzureC06!Get, Get, AzureC06!ScaCall, AzureC06!Call, AzureC06!Got, Got
  <2> QED
    BY <2>1, AzureC06Reads DEF AzureC06Told, AzureC06ToldOfScans
<1>10. CASE AzureC06!ReadAlerts
  <2>1. Get(<<"alerts">>, world.alerts) /\ <<"alerts">> \in AzureC06!ScaCall /\ heard[<<"setup">>] # Unasked
    BY <1>10 DEF AzureC06!ReadAlerts, AzureC06!Heard, AzureC06!Get, Get, AzureC06!ScaCall
  <2> QED
    BY <2>1, AzureC06Reads DEF AzureC06Told, AzureC06ToldOfScans
<1>11. CASE AzureC06!ScaDecide
  BY <1>11, AzureC06Verdicts, AzureC06Same DEF AzureC06Inv, AzureC06!ScaTypeOK,
     AzureC06!SurveyTypeOK, AzureC06!AccountedFor, Statuses, Pass, Fail, Partial, NotCheckable,
     AzureC06!Pass, AzureC06!Fail, AzureC06!Partial, AzureC06!NotCheckable
<1>12. CASE UNCHANGED vars
  BY <1>12, AzureC06Same DEF vars, AzureC06Inv, AzureC06!ScaTypeOK, AzureC06!SurveyTypeOK,
     AzureC06!AccountedFor
<1> QED
  BY <1>1, <1>2, <1>3, <1>4, <1>5, <1>6, <1>7, <1>8, <1>9, <1>10, <1>11, <1>12 DEF AzureC06!ScaNext
-----------------------------------------------------------------------------
\* The instances of a standard module have its operators under names of their own.
LEMMA SameJobCount ==
  ASSUME NEW S
  PROVE  GitLabC06!Cardinality(S) = Cardinality(S)
BY DEF GitLabC06!Cardinality, Cardinality

LEMMA GitLabC06Chosen ==
  ASSUME NEW R, NEW date, NEW S \in GitLabC06!Selections(R, date)
  PROVE  /\ S \subseteq GitLabC06!Recent(R, date)
         /\ S = {} => GitLabC06!Recent(R, date) = {}
<1>1. Lookback # 0 /\ GitLabC06!Cardinality({}) = 0
  BY HistoryAssumption, FS_EmptySet, SameJobCount
<1> QED
  BY <1>1 DEF GitLabC06!Selections

GitLabC06InWindow(jobs) == {j \in jobs : j.finished /\ j.at >= WindowStart}

(***************************************************************************)
(* As in C05: the walk finds jobs of the window only, and, unless it is cut *)
(* short, all of them, if they finished in the order of their ids: a job   *)
(* that ends it is then older than any of the window.                      *)
(***************************************************************************)
LEMMA GitLabC06Walked ==
  ASSUME NEW h \in JobHistory
  PROVE  /\ GitLabC06!Walk(h.jobs).runs \subseteq GitLabC06InWindow(h.jobs)
         /\ ~GitLabC06!Walk(h.jobs).truncated /\ GitLabC06!InOrder(h.jobs) =>
              GitLabC06InWindow(h.jobs) \subseteq GitLabC06!Walk(h.jobs).runs
         /\ GitLabC06!Walk(h.jobs).truncated => GitLabC06!Cardinality(h.jobs) >= MaxJobs
<1> DEFINE jobs == h.jobs
           Newer(j) == {k \in jobs : k.id > j.id}
<1>1. /\ \A j \in jobs : j.id \in Nat /\ j.at \in Nat /\ j.finished \in BOOLEAN
      /\ IsFiniteSet(jobs)
      /\ \A j, k \in jobs : j.id = k.id => j = k
      /\ MaxJobs \in Nat /\ WindowStart \in Nat
  BY JobAssumption, HistoryAssumption DEF GitLabC06!JobHistories, GitLabC06!Jobs
<1> HIDE DEF jobs
<1>2. \A j \in jobs : j \in GitLabC06!Reachable(jobs) <=> Cardinality(Newer(j)) < MaxJobs
  BY SameJobCount DEF GitLabC06!Reachable
<1> HIDE DEF Newer
<1>3. GitLabC06!Reachable(jobs) \subseteq jobs
  BY DEF GitLabC06!Reachable
<1>4. GitLabC06!Walk(jobs).runs \subseteq GitLabC06InWindow(jobs)
  <2>1. \A j \in GitLabC06!Walk(jobs).runs : j \in GitLabC06!Reachable(jobs) /\ j.finished /\ ~GitLabC06!Ends(j)
    BY <1>1, <1>3 DEF GitLabC06!Walk
  <2> QED
    BY <2>1, <1>1, <1>3 DEF GitLabC06!Ends, GitLabC06InWindow
<1>5. GitLabC06!Walk(jobs).truncated => GitLabC06!Cardinality(jobs) >= MaxJobs
  BY DEF GitLabC06!Walk
<1>6. ASSUME ~GitLabC06!Walk(jobs).truncated, GitLabC06!InOrder(jobs), NEW j \in GitLabC06InWindow(jobs)
      PROVE  j \in GitLabC06!Walk(jobs).runs
  <2>1. j \in jobs /\ j.finished /\ j.at >= WindowStart
    BY DEF GitLabC06InWindow
  <2>2. ASSUME NEW k \in jobs, k.id >= j.id
        PROVE  ~GitLabC06!Ends(k)
    <3>1. CASE k.id = j.id
      BY <3>1, <2>1, <2>2, <1>1 DEF GitLabC06!Ends
    <3>2. CASE k.id > j.id /\ k.finished
      <4>1. j.at <= k.at
        BY <3>2, <2>1, <2>2, <1>1, <1>6 DEF GitLabC06!InOrder
      <4> QED
        BY <4>1, <2>1, <2>2, <1>1 DEF GitLabC06!Ends
    <3> QED
      BY <3>1, <3>2, <2>1, <2>2, <1>1 DEF GitLabC06!Ends
  <2>3. \A k \in jobs : Newer(k) \subseteq jobs /\ IsFiniteSet(Newer(k)) /\ Cardinality(Newer(k)) \in Nat
    BY <1>1, FS_Subset, FS_CardinalityType DEF Newer
  <2>4. j \in GitLabC06!Reachable(jobs)
    <3>1. CASE Cardinality(jobs) < MaxJobs
      <4>1. Cardinality(Newer(j)) <= Cardinality(jobs) /\ Cardinality(jobs) \in Nat
        BY <2>1, <2>3, <1>1, FS_Subset, FS_CardinalityType
      <4> QED
        BY <4>1, <3>1, <2>1, <2>3, <1>1, <1>2
    <3>2. CASE \E k \in GitLabC06!Reachable(jobs) : GitLabC06!Ends(k)
      <4>1. PICK k \in GitLabC06!Reachable(jobs) : GitLabC06!Ends(k)
        BY <3>2
      <4>2. k \in jobs /\ k.id < j.id
        BY <4>1, <2>1, <2>2, <1>1, <1>3
      <4>3. Newer(j) \subseteq Newer(k)
        BY <4>2, <2>1, <1>1 DEF Newer
      <4>4. Cardinality(Newer(j)) <= Cardinality(Newer(k))
        BY <4>2, <4>3, <2>3, FS_Subset
      <4> QED
        BY <4>1, <4>2, <4>4, <2>1, <2>3, <1>1, <1>2
    <3>3. \/ ~(GitLabC06!Cardinality(jobs) >= MaxJobs)
          \/ \E k \in GitLabC06!Reachable(jobs) : GitLabC06!Ends(k)
      BY <1>6 DEF GitLabC06!Walk
    <3>4. Cardinality(jobs) \in Nat
      BY <1>1, FS_CardinalityType
    <3> QED
      BY <3>1, <3>2, <3>3, <3>4, <1>1, SameJobCount
  <2> QED
    BY <2>1, <2>2, <2>4, <1>3 DEF GitLabC06!Walk
<1> QED
  BY <1>4, <1>5, <1>6 DEF jobs

-----------------------------------------------------------------------------
(* C06.sca-history: on GitLab. *)
GitLabC06Heard ==
  /\ heard[<<"client">>] \in Outcomes({TRUE})
  /\ heard[<<"lint">>] \in Outcomes({world.config})
  /\ heard[<<"releases">>] \in Outcomes({world.history.releases})
  /\ heard[<<"jobs">>] \in Outcomes({GitLabC06!Walk(world.history.jobs)})
  /\ heard[<<"scanned">>] \in Outcomes({world.scanned})
  /\ heard[<<"tree">>] \in Outcomes({world.manifests})
  /\ heard[<<"findings">>] \in Outcomes({world.findings})
  /\ heard[<<"releases">>] # Unasked => heard[<<"lint">>] # Unasked
  /\ heard[<<"jobs">>] # Unasked => heard[<<"releases">>] # Unasked
  /\ heard[<<"scanned">>] # Unasked => heard[<<"jobs">>] # Unasked
  /\ heard[<<"tree">>] # Unasked => heard[<<"scanned">>] # Unasked
  /\ heard[<<"findings">>] # Unasked => heard[<<"tree">>] # Unasked

GitLabC06Inv == GitLabC06!ScaTypeOK /\ GitLabC06Heard /\ GitLabC06!AccountedFor

LEMMA GitLabC06Starts == GitLabC06!ScaInit => GitLabC06Inv
BY SettingsAssumption DEF GitLabC06!ScaInit, GitLabC06!InitWith, GitLabC06Inv, GitLabC06!ScaTypeOK,
   GitLabC06!SurveyTypeOK, GitLabC06Heard, Outcomes, Got, GitLabC06!AccountedFor,
   GitLabC06!ScaCall, GitLabC06!Call

LEMMA GitLabC06Same ==
  ASSUME UNCHANGED <<world, heard, seen>>
  PROVE  /\ GitLabC06Heard' <=> GitLabC06Heard
         /\ \A c, s : GitLabC06!Accounted(c, s)' <=> GitLabC06!Accounted(c, s)
<1>1. GitLabC06Heard' <=> GitLabC06Heard
  BY DEF GitLabC06Heard, Got
<1>2. \A c, s : GitLabC06!Accounted(c, s)' <=> GitLabC06!Accounted(c, s)
  BY DEF GitLabC06!Accounted, GitLabC06!Rubric, GitLabC06!Lost, GitLabC06!Scanners,
     GitLabC06!config, GitLabC06!RanWellOn, GitLabC06!Scans, GitLabC06!RanOn, GitLabC06!Truncated,
     GitLabC06!runs, GitLabC06!Matched, GitLabC06!ConfigKnown, GitLabC06!Overdue,
     GitLabC06!Unclear, GitLabC06!Deviates
<1> QED
  BY <1>1, <1>2

LEMMA GitLabC06Reads ==
  ASSUME GitLabC06Inv, NEW c \in GitLabC06!ScaCall, NEW a, Get(c, a),
         c = <<"client">> => a = TRUE,
         c = <<"lint">> => a = world.config,
         c = <<"releases">> => a = world.history.releases /\ heard[<<"lint">>] # Unasked,
         c = <<"jobs">> => a = GitLabC06!Walk(world.history.jobs) /\ heard[<<"releases">>] # Unasked,
         c = <<"scanned">> => a = world.scanned /\ heard[<<"jobs">>] # Unasked,
         c = <<"tree">> => a = world.manifests /\ heard[<<"scanned">>] # Unasked,
         c = <<"findings">> => a = world.findings /\ heard[<<"tree">>] # Unasked
  PROVE  GitLabC06Inv'
<1>1. /\ DOMAIN heard = GitLabC06!ScaCall /\ DOMAIN heard' = GitLabC06!ScaCall
      /\ heard[c] = Unasked /\ heard'[c] \in {a, Failed}
      /\ \A d \in GitLabC06!ScaCall : heard'[d] = IF d = c THEN heard'[c] ELSE heard[d]
      /\ \A d \in GitLabC06!ScaCall : heard[d] # Unasked => heard'[d] = heard[d] /\ d # c
      /\ status = Undecided /\ UNCHANGED <<world, status, seen>>
  BY Answer DEF GitLabC06Inv, GitLabC06!ScaTypeOK, GitLabC06!SurveyTypeOK
<1>2. GitLabC06!ScaTypeOK' /\ GitLabC06!AccountedFor'
  BY <1>1 DEF GitLabC06Inv, GitLabC06!ScaTypeOK, GitLabC06!SurveyTypeOK, GitLabC06!AccountedFor
<1>3. /\ <<"client">> \in GitLabC06!ScaCall
      /\ <<"lint">> \in GitLabC06!ScaCall
      /\ <<"releases">> \in GitLabC06!ScaCall
      /\ <<"jobs">> \in GitLabC06!ScaCall
      /\ <<"scanned">> \in GitLabC06!ScaCall
      /\ <<"tree">> \in GitLabC06!ScaCall
      /\ <<"findings">> \in GitLabC06!ScaCall
  BY DEF GitLabC06!ScaCall, GitLabC06!Call
<1>4. heard'[<<"client">>] \in Outcomes({TRUE})
  BY <1>1, <1>3 DEF GitLabC06Inv, GitLabC06Heard, Outcomes
<1>5. heard'[<<"lint">>] \in Outcomes({world.config})
  BY <1>1, <1>3 DEF GitLabC06Inv, GitLabC06Heard, Outcomes
<1>6. heard'[<<"releases">>] \in Outcomes({world.history.releases})
  BY <1>1, <1>3 DEF GitLabC06Inv, GitLabC06Heard, Outcomes
<1>7. heard'[<<"jobs">>] \in Outcomes({GitLabC06!Walk(world.history.jobs)})
  BY <1>1, <1>3 DEF GitLabC06Inv, GitLabC06Heard, Outcomes
<1>8. heard'[<<"scanned">>] \in Outcomes({world.scanned})
  BY <1>1, <1>3 DEF GitLabC06Inv, GitLabC06Heard, Outcomes
<1>9. heard'[<<"tree">>] \in Outcomes({world.manifests})
  BY <1>1, <1>3 DEF GitLabC06Inv, GitLabC06Heard, Outcomes
<1>10. heard'[<<"findings">>] \in Outcomes({world.findings})
  BY <1>1, <1>3 DEF GitLabC06Inv, GitLabC06Heard, Outcomes
<1>11. ASSUME heard'[<<"releases">>] # Unasked
      PROVE  (heard[<<"lint">>] # Unasked)'
  <2>1. heard[<<"lint">>] # Unasked
    BY <1>1, <1>3, <1>11 DEF GitLabC06Inv, GitLabC06Heard
  <2>2. QED
    BY <1>1, <1>3, <2>1 DEF Got
<1>12. ASSUME heard'[<<"jobs">>] # Unasked
      PROVE  (heard[<<"releases">>] # Unasked)'
  <2>1. heard[<<"releases">>] # Unasked
    BY <1>1, <1>3, <1>12 DEF GitLabC06Inv, GitLabC06Heard
  <2>2. QED
    BY <1>1, <1>3, <2>1 DEF Got
<1>13. ASSUME heard'[<<"scanned">>] # Unasked
      PROVE  (heard[<<"jobs">>] # Unasked)'
  <2>1. heard[<<"jobs">>] # Unasked
    BY <1>1, <1>3, <1>13 DEF GitLabC06Inv, GitLabC06Heard
  <2>2. QED
    BY <1>1, <1>3, <2>1 DEF Got
<1>14. ASSUME heard'[<<"tree">>] # Unasked
      PROVE  (heard[<<"scanned">>] # Unasked)'
  <2>1. heard[<<"scanned">>] # Unasked
    BY <1>1, <1>3, <1>14 DEF GitLabC06Inv, GitLabC06Heard
  <2>2. QED
    BY <1>1, <1>3, <2>1 DEF Got
<1>15. ASSUME heard'[<<"findings">>] # Unasked
      PROVE  (heard[<<"tree">>] # Unasked)'
  <2>1. heard[<<"tree">>] # Unasked
    BY <1>1, <1>3, <1>15 DEF GitLabC06Inv, GitLabC06Heard
  <2>2. QED
    BY <1>1, <1>3, <2>1 DEF Got
<1>16. GitLabC06Heard'
  BY <1>1, <1>4, <1>5, <1>6, <1>7, <1>8, <1>9, <1>10, <1>11, <1>12, <1>13, <1>14, <1>15 DEF
     GitLabC06Heard
<1> QED
  BY <1>2, <1>16 DEF GitLabC06Inv

LEMMA GitLabC06Settled ==
  ASSUME GitLabC06Inv, heard[<<"findings">>] # Unasked
  PROVE  /\ heard[<<"lint">>] \in {Failed, world.config} /\ heard[<<"lint">>] # Unasked
         /\ heard[<<"releases">>] \in {Failed, world.history.releases} /\ heard[<<"releases">>] # Unasked
         /\ heard[<<"jobs">>] \in {Failed, GitLabC06!Walk(world.history.jobs)} /\ heard[<<"jobs">>] # Unasked
         /\ heard[<<"scanned">>] \in {Failed, world.scanned} /\ heard[<<"tree">>] \in {Failed, world.manifests}
         /\ heard[<<"findings">>] \in {Failed, world.findings}
BY DEF GitLabC06Inv, GitLabC06Heard, Outcomes

LEMMA GitLabC06Config ==
  ASSUME GitLabC06Inv, heard[<<"findings">>] # Unasked
  PROVE  /\ ~GitLabC06!ConfigKnown => GitLabC06!Lost(<<"lint">>) \/ world.config = Unusable
         /\ GitLabC06!ConfigKnown => /\ GitLabC06!Matched = GitLabC06!Scanners(world)
                                     /\ world.config # Unusable
                                     /\ GitLabC06!config = world.config
         /\ GitLabC06!Matched \subseteq GitLabC06!Scanners(world)
BY GitLabC06Settled DEF GitLabC06!ConfigKnown, GitLabC06!Matched, GitLabC06!Scanners,
   GitLabC06!config, GitLabC06!Lost

LEMMA GitLabC06Runs ==
  ASSUME GitLabC06Inv, heard[<<"findings">>] # Unasked, ~GitLabC06!Lost(<<"jobs">>)
  PROVE  /\ GitLabC06!runs \subseteq GitLabC06!Scans(world)
         /\ GitLabC06!ConfigKnown /\ ~GitLabC06!Truncated /\ GitLabC06!InOrder(world.history.jobs) =>
              GitLabC06!runs = GitLabC06!Scans(world)
<1>1. heard[<<"jobs">>] = GitLabC06!Walk(world.history.jobs)
  BY GitLabC06Settled DEF GitLabC06!Lost
<1>2. world.history \in JobHistory
  BY DEF GitLabC06Inv, GitLabC06!ScaTypeOK, GitLabC06!SurveyTypeOK, GitLabC06!Worlds
<1>3. GitLabC06!Scans(world) =
        {j \in GitLabC06InWindow(world.history.jobs) : j.tool \in GitLabC06!Scanners(world) \/ j.report}
  BY DEF GitLabC06!Scans, GitLabC06InWindow
<1>4. GitLabC06!runs =
        {j \in GitLabC06!Walk(world.history.jobs).runs : j.tool \in GitLabC06!Matched \/ j.report}
  BY <1>1 DEF GitLabC06!runs
<1> QED
  BY <1>1, <1>2, <1>3, <1>4, GitLabC06Walked, GitLabC06Config DEF GitLabC06!Truncated

LEMMA GitLabC06ToolConfigured ==
  ASSUME GitLabC06Inv, heard[<<"findings">>] # Unasked, NEW v, v = GitLabC06!ScaToolConfigured
  PROVE  v \in Statuses /\ GitLabC06!Accounted("tool-configured", v)
<1>1. "off" # Failed /\ "off" # "on"
  BY MarkersAssumption
<1>2. v = IF ~GitLabC06!ConfigKnown THEN NotCheckable
          ELSE IF GitLabC06!Strong THEN Pass
          ELSE IF GitLabC06!Matched # {} THEN Partial ELSE Fail
  BY <1>1 DEF GitLabC06!ScaToolConfigured, GitLabC06!ToolConfigured, GitLabC06!ConfiguredVerdict,
     Pass, Fail, Partial, NotCheckable, GitLabC06!Pass, GitLabC06!Fail, GitLabC06!Partial,
     GitLabC06!NotCheckable
<1>3. GitLabC06!ConfigKnown => world.config \in [Tool -> GitLabC06!Evidence]
        /\ GitLabC06!Scanners(world) \subseteq Tool
  BY GitLabC06Config DEF GitLabC06Inv, GitLabC06!ScaTypeOK, GitLabC06!SurveyTypeOK,
     GitLabC06!Worlds, GitLabC06!Scanners
<1>4. GitLabC06!ConfigKnown => \A t \in GitLabC06!Scanners(world) : world.config[t] \in {"weak", "strong"}
  BY <1>3, GitLabC06Config DEF GitLabC06!Scanners, GitLabC06!Evidence
<1>5. GitLabC06!ConfigKnown
        => (GitLabC06!Strong <=> \E t \in GitLabC06!Scanners(world) : world.config[t] = "strong")
  BY GitLabC06Config DEF GitLabC06!Strong
<1> QED
  BY <1>2, <1>4, <1>5, GitLabC06Config DEF GitLabC06!Accounted, GitLabC06!Rubric, Statuses, Pass,
     Fail, Partial, NotCheckable, GitLabC06!Pass, GitLabC06!Fail, GitLabC06!Partial,
     GitLabC06!NotCheckable

LEMMA GitLabC06RanPerRelease ==
  ASSUME GitLabC06Inv, heard[<<"findings">>] # Unasked,
         NEW S \in GitLabC06!Selections(GitLabC06!Listed, GitLabC06!date), NEW v,
           v = GitLabC06!ScaRanPerRelease(S)
  PROVE  v \in Statuses /\ GitLabC06!Accounted("ran-per-release", v)
<1> USE DEF Pass, Fail, Partial, NotCheckable, GitLabC06!Pass, GitLabC06!Fail, GitLabC06!Partial,
      GitLabC06!NotCheckable
<1> DEFINE covering == GitLabC06!CoveringByCommit(S)
<1>1. /\ DOMAIN covering = S
      /\ \A r \in S : covering[r] = {j \in GitLabC06!runs : j.commit = r.commit}
  BY DEF GitLabC06!CoveringByCommit
<1> HIDE DEF covering
<1>2. GitLabC06!Missing(covering) # {} => \E r \in S : \A j \in GitLabC06!runs : j.commit # r.commit
  BY <1>1 DEF GitLabC06!Missing
<1>3. GitLabC06!Missing(covering) = {} => \A r \in S : \E j \in GitLabC06!runs : j.commit = r.commit
  BY <1>1 DEF GitLabC06!Missing
<1>4. GitLabC06!Missing(covering) = {} /\ GitLabC06!Unclean(covering) = {} =>
        \A r \in S : \E j \in GitLabC06!runs : j.success /\ j.commit = r.commit
  BY <1>1 DEF GitLabC06!Unclean
<1>5. GitLabC06!Missing(covering) = {} /\ GitLabC06!Unclean(covering) # {} =>
        \E r \in S : \E j \in GitLabC06!runs : j.commit = r.commit /\ ~j.success
  BY <1>1 DEF GitLabC06!Missing, GitLabC06!Unclean
<1>6. \/ /\ v = NotCheckable
         /\ ~GitLabC06!ConfigKnown \/ ~GitLabC06!Got(<<"releases">>) \/ ~GitLabC06!Got(<<"jobs">>)
      \/ /\ GitLabC06!ConfigKnown /\ GitLabC06!Got(<<"releases">>) /\ GitLabC06!Got(<<"jobs">>)
         /\ \/ v = NotCheckable /\ (S = {} \/ (GitLabC06!Truncated /\ GitLabC06!Missing(covering) # {}))
            \/ v = Fail /\ GitLabC06!Missing(covering) # {} /\ ~GitLabC06!Truncated
            \/ v = Pass /\ S # {} /\ GitLabC06!Missing(covering) = {} /\ GitLabC06!Unclean(covering) = {}
            \/ v = Partial /\ S # {} /\ GitLabC06!Missing(covering) = {} /\ GitLabC06!Unclean(covering) # {}
  BY <1>1 DEF GitLabC06!ScaRanPerRelease, GitLabC06!RanPerRelease, GitLabC06!CoverageVerdict,
     covering
<1>7. /\ ~GitLabC06!Got(<<"releases">>) => GitLabC06!Lost(<<"releases">>)
      /\ GitLabC06!Got(<<"releases">>) => GitLabC06!Listed = world.history.releases
      /\ ~GitLabC06!Got(<<"jobs">>) <=> GitLabC06!Lost(<<"jobs">>)
  BY GitLabC06Settled DEF GitLabC06!Got, GitLabC06!Lost, GitLabC06!Listed
<1>8. /\ S \subseteq GitLabC06!Recent(GitLabC06!Listed, GitLabC06!date)
      /\ S = {} => GitLabC06!Recent(GitLabC06!Listed, GitLabC06!date) = {}
  BY GitLabC06Chosen
<1>9. CASE ~GitLabC06!ConfigKnown \/ ~GitLabC06!Got(<<"releases">>) \/ ~GitLabC06!Got(<<"jobs">>)
  BY <1>6, <1>7, <1>9, GitLabC06Config DEF GitLabC06!Accounted, GitLabC06!Rubric, Statuses
<1>10. CASE GitLabC06!ConfigKnown /\ GitLabC06!Got(<<"releases">>) /\ GitLabC06!Got(<<"jobs">>)
  <2>1. GitLabC06!runs \subseteq GitLabC06!Scans(world)
    BY <1>7, <1>10, GitLabC06Runs
  <2>2. S \in GitLabC06!Selections(world.history.releases, GitLabC06!date)
        /\ S \subseteq GitLabC06!Recent(world.history.releases, GitLabC06!date)
        /\ (S = {} => GitLabC06!Recent(world.history.releases, GitLabC06!date) = {})
    BY <1>7, <1>8, <1>10
  <2>3. CASE v = NotCheckable
    BY <1>2, <1>6, <1>10, <2>2, <2>3 DEF GitLabC06!Accounted, GitLabC06!Rubric, Statuses
  <2>4. CASE v = Fail
    <3>1. GitLabC06!InOrder(world.history.jobs) => GitLabC06!runs = GitLabC06!Scans(world)
      BY <1>6, <1>7, <1>10, <2>4, GitLabC06Runs
    <3>2. GitLabC06!InOrder(world.history.jobs) =>
            \E r \in GitLabC06!Recent(world.history.releases, GitLabC06!date) : ~GitLabC06!RanOn(r)
      BY <1>2, <1>6, <2>2, <2>4, <3>1 DEF GitLabC06!RanOn
    <3>3. GitLabC06!Recent(world.history.releases, GitLabC06!date) # {}
      BY <1>2, <1>6, <2>2, <2>4
    <3>4. QED
      BY <2>4, <3>2, <3>3 DEF GitLabC06!Accounted, GitLabC06!Rubric, GitLabC06!Deviates, Statuses
  <2>5. CASE v = Pass
    <3>1. S # {} /\ \A r \in S : GitLabC06!RanWellOn(r)
      BY <1>4, <1>6, <2>1, <2>5 DEF GitLabC06!RanWellOn
    <3>2. QED
      BY <2>2, <2>5, <3>1 DEF GitLabC06!Accounted, GitLabC06!Rubric, Statuses
  <2>6. CASE v = Partial
    <3>1. (\A r \in S : GitLabC06!RanOn(r)) /\ \E r \in S : \E j \in GitLabC06!Scans(world) : j.commit
            = r.commit /\ ~j.success
      BY <1>3, <1>5, <1>6, <2>1, <2>6 DEF GitLabC06!RanOn
    <3>2. QED
      BY <2>2, <2>6, <3>1 DEF GitLabC06!Accounted, GitLabC06!Rubric, Statuses
  <2>7. QED
    BY <1>6, <2>3, <2>4, <2>5, <2>6
<1> QED
  BY <1>9, <1>10

LEMMA GitLabC06Verdicts ==
  ASSUME GitLabC06Inv, GitLabC06!ScaDecide
  PROVE  /\ status' \in [GitLabC06!Checks -> Statuses] /\ UNCHANGED <<world, heard, seen>>
         /\ \A c \in GitLabC06!Checks : GitLabC06!Accounted(c, status'[c])
<1> USE DEF Pass, Fail, Partial, NotCheckable, GitLabC06!Pass, GitLabC06!Fail, GitLabC06!Partial,
      GitLabC06!NotCheckable
<1>1. UNCHANGED <<world, heard, seen>>
  BY DEF GitLabC06!ScaDecide, GitLabC06!Emit
<1>2. CASE GitLabC06!Lost(<<"client">>) /\ status' = GitLabC06!Nothing(GitLabC06!Checks)
  BY <1>1, <1>2 DEF GitLabC06!Nothing, GitLabC06!Accounted, GitLabC06!Rubric, Statuses
<1>3. ASSUME heard[<<"findings">>] # Unasked, NEW S \in GitLabC06!Selections(GitLabC06!Listed, GitLabC06!date),
             status' = [c \in GitLabC06!Checks |->
               CASE c = "tool-configured"   -> GitLabC06!ScaToolConfigured
                 [] c = "ran-per-release"   -> GitLabC06!ScaRanPerRelease(S)
                 [] c = "dependabot-config" -> GitLabC06!ManifestCoverage
                 [] c = "dependency-review" -> GitLabC06!DependencyReview
                 [] c = "alerts-triaged"    -> GitLabC06!AlertsTriaged]
      PROVE  /\ status' \in [GitLabC06!Checks -> Statuses]
             /\ \A c \in GitLabC06!Checks : GitLabC06!Accounted(c, status'[c])
  <2>1. /\ status'["tool-configured"] = GitLabC06!ScaToolConfigured
        /\ status'["ran-per-release"] = GitLabC06!ScaRanPerRelease(S)
        /\ status'["dependabot-config"] = GitLabC06!ManifestCoverage
        /\ status'["dependency-review"] = GitLabC06!DependencyReview
        /\ status'["alerts-triaged"] = GitLabC06!AlertsTriaged
        /\ status' = [c \in GitLabC06!Checks |-> status'[c]]
    BY <1>3 DEF GitLabC06!Checks
  <2>2. status'["tool-configured"] \in Statuses /\ GitLabC06!Accounted("tool-configured",
          status'["tool-configured"])
    BY <1>3, <2>1, GitLabC06ToolConfigured
  <2>3. status'["ran-per-release"] \in Statuses /\ GitLabC06!Accounted("ran-per-release",
          status'["ran-per-release"])
    BY <1>3, <2>1, GitLabC06RanPerRelease
  <2>4. GitLabC06!ManifestCoverage \in Statuses /\ GitLabC06!Accounted("dependabot-config",
          GitLabC06!ManifestCoverage)
    BY <1>3, GitLabC06Settled DEF GitLabC06!Accounted, GitLabC06!Rubric,
       GitLabC06!ManifestCoverage, GitLabC06!Lost, Statuses
  <2>5. GitLabC06!DependencyReview \in Statuses /\ GitLabC06!Accounted("dependency-review",
          GitLabC06!DependencyReview)
    BY DEF GitLabC06!Accounted, GitLabC06!Rubric, GitLabC06!DependencyReview, Statuses
  <2>6. GitLabC06!AlertsTriaged \in Statuses /\ GitLabC06!Accounted("alerts-triaged", GitLabC06!AlertsTriaged)
    BY <1>3, GitLabC06Settled DEF GitLabC06!Accounted, GitLabC06!Rubric, GitLabC06!AlertsTriaged,
       GitLabC06!Lost, GitLabC06!Overdue, GitLabC06!Unclear, Statuses
  <2>7. QED
    BY <2>1, <2>2, <2>3, <2>4, <2>5, <2>6 DEF GitLabC06!Checks
<1>4. QED
  BY <1>1, <1>2, <1>3 DEF GitLabC06!ScaDecide, GitLabC06!Emit, GitLabC06!Heard

LEMMA GitLabC06Goes == GitLabC06Inv /\ [GitLabC06!ScaNext]_vars => GitLabC06Inv'
<1> SUFFICES ASSUME GitLabC06Inv, [GitLabC06!ScaNext]_vars PROVE GitLabC06Inv'
  OBVIOUS
<1>1. CASE GitLabC06!NewClient
  BY <1>1, GitLabC06Reads DEF GitLabC06!NewClient, GitLabC06!Get, Get, GitLabC06!ScaCall,
     GitLabC06!Call
<1>2. CASE GitLabC06!Lint
  BY <1>2, GitLabC06Reads DEF GitLabC06!Lint, GitLabC06!Get, Get, GitLabC06!ScaCall, GitLabC06!Call
<1>3. CASE GitLabC06!ListReleases
  BY <1>3, GitLabC06Reads DEF GitLabC06!ListReleases, GitLabC06!Get, Get, GitLabC06!ScaCall,
     GitLabC06!Call
<1>4. CASE GitLabC06!WalkJobs
  BY <1>4, GitLabC06Reads DEF GitLabC06!WalkJobs, GitLabC06!Get, Get, GitLabC06!ScaCall,
     GitLabC06!Call
<1>5. CASE GitLabC06!ReadScanned
  BY <1>5, GitLabC06Reads DEF GitLabC06!ReadScanned, GitLabC06!Get, Get, GitLabC06!ScaCall,
     GitLabC06!Call, GitLabC06!Heard
<1>6. CASE GitLabC06!ReadTree
  BY <1>6, GitLabC06Reads DEF GitLabC06!ReadTree, GitLabC06!Get, Get, GitLabC06!ScaCall,
     GitLabC06!Call, GitLabC06!Heard
<1>7. CASE GitLabC06!ReadFindings
  BY <1>7, GitLabC06Reads DEF GitLabC06!ReadFindings, GitLabC06!Get, Get, GitLabC06!ScaCall,
     GitLabC06!Call, GitLabC06!Heard
<1>8. CASE GitLabC06!ScaDecide
  BY <1>8, GitLabC06Verdicts, GitLabC06Same DEF GitLabC06Inv, GitLabC06!ScaTypeOK,
     GitLabC06!SurveyTypeOK, GitLabC06!AccountedFor, Statuses, Pass, Fail, Partial, NotCheckable,
     GitLabC06!Pass, GitLabC06!Fail, GitLabC06!Partial, GitLabC06!NotCheckable
<1>9. CASE UNCHANGED vars
  BY <1>9, GitLabC06Same DEF vars, GitLabC06Inv, GitLabC06!ScaTypeOK, GitLabC06!SurveyTypeOK,
     GitLabC06!AccountedFor
<1> QED
  BY <1>1, <1>2, <1>3, <1>4, <1>5, <1>6, <1>7, <1>8, <1>9 DEF GitLabC06!ScaNext
-----------------------------------------------------------------------------
\* The instances of a standard module have its operators under names of their own.
LEMMA SameReleaseCount ==
  ASSUME NEW S
  PROVE  C07!Cardinality(S) = Cardinality(S)
BY DEF C07!Cardinality, Cardinality

\* What one verdict per release comes to.
LEMMA C07Rolled ==
  ASSUME NEW v
  PROVE  \/ C07!RollUp(v) = NotCheckable /\ DOMAIN v = {}
         \/ C07!RollUp(v) = Fail /\ \E r \in DOMAIN v : v[r] = "failed"
         \/ /\ C07!RollUp(v) = Partial
            /\ \A r \in DOMAIN v : v[r] # "failed"
            /\ \E r \in DOMAIN v : v[r] = "unresolved"
         \/ C07!RollUp(v) = Pass /\ DOMAIN v # {} /\ \A r \in DOMAIN v : v[r] \notin {"failed", "unresolved"}
BY DEF C07!RollUp, Pass, Fail, Partial, NotCheckable, C07!Pass, C07!Fail, C07!Partial, C07!NotCheckable

\* Where no release is chosen there is none to choose from.
LEMMA C07NoneChosen ==
  ASSUME NEW R, {} \in C07!Selections(R, C07!date)
  PROVE  C07!Recent(R, C07!date) = {}
<1>1. Cardinality({}) = 0
  BY FS_EmptySet
<1>2. QED
  BY <1>1, SameReleaseCount, HistoryAssumption DEF C07!Selections
-----------------------------------------------------------------------------
(* C07.provenance: on GitLab. *)
GitLabC07Heard ==
  /\ heard[<<"client">>] \in Outcomes({TRUE})
  /\ heard[<<"releases">>] \in Outcomes(C07!Selections(world.releases, C07!date))
  /\ \A r \in Release : heard[<<"signature", r>>] \in Outcomes({world.signature[r]})

GitLabC07Inv == C07!GitLabTypeOK /\ GitLabC07Heard /\ C07!GitLabRubricHolds

LEMMA GitLabC07Starts == C07!GitLabInit => GitLabC07Inv
BY SettingsAssumption DEF C07!GitLabInit, C07!InitWith, GitLabC07Inv, C07!GitLabTypeOK,
   C07!SurveyTypeOK, GitLabC07Heard, Outcomes, Got, C07!GitLabRubricHolds, C07!GitLabCall

LEMMA GitLabC07Same ==
  ASSUME UNCHANGED <<world, heard, seen>>
  PROVE  /\ GitLabC07Heard' <=> GitLabC07Heard
         /\ \A c, s : C07!GitLabRubric(c, s)' <=> C07!GitLabRubric(c, s)
<1>1. GitLabC07Heard' <=> GitLabC07Heard
  BY DEF GitLabC07Heard, Got
<1>2. \A c, s : C07!GitLabRubric(c, s)' <=> C07!GitLabRubric(c, s)
  BY DEF C07!GitLabRubric, C07!Lost, C07!Got, C07!Of
<1> QED
  BY <1>1, <1>2

LEMMA GitLabC07Reads ==
  ASSUME GitLabC07Inv, NEW c \in C07!GitLabCall, NEW a, Get(c, a),
         c = <<"client">> => a = TRUE,
         c = <<"releases">> => a \in C07!Selections(world.releases, C07!date),
         \A r \in Release : c = <<"signature", r>> => a = world.signature[r]
  PROVE  GitLabC07Inv'
<1>1. /\ DOMAIN heard = C07!GitLabCall /\ DOMAIN heard' = C07!GitLabCall
      /\ heard[c] = Unasked /\ heard'[c] \in {a, Failed}
      /\ \A d \in C07!GitLabCall : heard'[d] = IF d = c THEN heard'[c] ELSE heard[d]
      /\ \A d \in C07!GitLabCall : heard[d] # Unasked => heard'[d] = heard[d] /\ d # c
      /\ status = Undecided /\ UNCHANGED <<world, status, seen>>
  BY Answer DEF GitLabC07Inv, C07!GitLabTypeOK, C07!SurveyTypeOK
<1>2. C07!GitLabTypeOK' /\ C07!GitLabRubricHolds'
  BY <1>1 DEF GitLabC07Inv, C07!GitLabTypeOK, C07!SurveyTypeOK, C07!GitLabRubricHolds
<1>3. /\ <<"client">> \in C07!GitLabCall
      /\ <<"releases">> \in C07!GitLabCall
      /\ \A r \in Release : <<"signature", r>> \in C07!GitLabCall
  BY DEF C07!GitLabCall
<1>4. heard'[<<"client">>] \in Outcomes({TRUE})
  BY <1>1, <1>3 DEF GitLabC07Inv, GitLabC07Heard, Outcomes
<1>5. heard'[<<"releases">>] \in Outcomes(C07!Selections(world.releases, C07!date))
  BY <1>1, <1>3 DEF GitLabC07Inv, GitLabC07Heard, Outcomes
<1>6. \A r \in Release : heard'[<<"signature", r>>] \in Outcomes({world.signature[r]})
  BY <1>1, <1>3 DEF GitLabC07Inv, GitLabC07Heard, Outcomes
<1>7. GitLabC07Heard'
  BY <1>1, <1>4, <1>5, <1>6 DEF GitLabC07Heard
<1> QED
  BY <1>2, <1>7 DEF GitLabC07Inv

LEMMA GitLabC07Verdicts ==
  ASSUME GitLabC07Inv, C07!GitLabDecide
  PROVE  /\ status' \in [C07!Checks -> Statuses] /\ UNCHANGED <<world, heard, seen>>
         /\ \A c \in C07!Checks : C07!GitLabRubric(c, status'[c])
<1> USE DEF Pass, Fail, Partial, NotCheckable, C07!Pass, C07!Fail, C07!Partial, C07!NotCheckable
<1> DEFINE emitted == [c \in C07!Checks |->
     CASE c = "tags-signed" -> C07!GitLabTagsSigned
       [] c = "checksums"   -> C07!GitLabChecksums
       [] c = "signatures"  -> C07!GitLabSignatures
       [] OTHER             -> C07!Unlinked]
<1>1. \/ (C07!Lost(<<"client">>) \/ C07!Lost(<<"releases">>)) /\ status' = C07!Nothing(C07!Checks)
      \/ (C07!Got(<<"releases">>) /\ C07!Heard({<<"signature", r>> : r \in C07!GitLabRecents}))
           /\ status' = emitted
  BY DEF C07!GitLabDecide, C07!Emit
<1>2. UNCHANGED <<world, heard, seen>>
  BY DEF C07!GitLabDecide, C07!Emit
<1>3. CASE (C07!Lost(<<"client">>) \/ C07!Lost(<<"releases">>)) /\ status' = C07!Nothing(C07!Checks)
  BY <1>2, <1>3 DEF C07!Nothing, C07!GitLabRubric, Statuses
<1>4. CASE (C07!Got(<<"releases">>) /\ C07!Heard({<<"signature", r>> : r \in C07!GitLabRecents}))
             /\ status' = emitted
  <2>1. /\ status'["tags-signed"] = C07!GitLabTagsSigned
        /\ status'["checksums"] = C07!GitLabChecksums
        /\ status'["signatures"] = C07!GitLabSignatures
        /\ status'["workflow"] = C07!Unlinked
        /\ status'["commit-linkage"] = C07!Unlinked
        /\ status' = [c \in C07!Checks |-> status'[c]]
    BY <1>4 DEF C07!Checks
  <2>2. C07!GitLabRecents \in C07!Selections(world.releases, C07!date)
    BY <1>4 DEF C07!GitLabRecents, C07!Got, GitLabC07Inv, GitLabC07Heard, Outcomes
  <2>3. C07!GitLabRecents \subseteq Release /\ (C07!GitLabRecents = {} => C07!Recent(world.releases,
          C07!date) = {})
    <3>1. C07!GitLabRecents \subseteq world.releases
      BY <2>2 DEF C07!Selections, C07!Recent
    <3>2. world.releases \subseteq Release
      BY DEF GitLabC07Inv, C07!GitLabTypeOK, C07!SurveyTypeOK, C07!GitLabWorlds
    <3>3. QED
      BY <2>2, <3>1, <3>2, C07NoneChosen
  <2>4. \A r \in C07!GitLabRecents : heard[<<"signature", r>>] \in {Failed, world.signature[r]}
          /\ world.signature[r] \in C07!Signature
    BY <1>4, <2>3 DEF C07!Heard, GitLabC07Inv, GitLabC07Heard, Outcomes, C07!GitLabTypeOK,
       C07!SurveyTypeOK, C07!GitLabWorlds
  <2>5. C07!GitLabTagsSigned \in Statuses /\ C07!GitLabRubric("tags-signed", C07!GitLabTagsSigned)
    <3> DEFINE S == C07!GitLabRecents
    <3> DEFINE v == [r \in S |-> CASE heard[<<"signature", r>>] = "verified"        -> "passed"
                               [] heard[<<"signature", r>>] \in {"blank", Failed} -> "unresolved"
                               [] OTHER                                         -> "failed"]
    <3>1. DOMAIN v = S /\ \A r \in S : v[r] = CASE heard[<<"signature", r>>] = "verified"        -> "passed"
                                            [] heard[<<"signature", r>>] \in {"blank", Failed} -> "unresolved"
                                            [] OTHER                                         -> "failed"
      OBVIOUS
    <3>2. \/ C07!GitLabTagsSigned = NotCheckable /\ DOMAIN v = {}
          \/ C07!GitLabTagsSigned = Fail /\ \E r \in DOMAIN v : v[r] = "failed"
          \/ /\ C07!GitLabTagsSigned = Partial
             /\ \A r \in DOMAIN v : v[r] # "failed"
             /\ \E r \in DOMAIN v : v[r] = "unresolved"
          \/ C07!GitLabTagsSigned = Pass /\ DOMAIN v # {} /\ \A r \in DOMAIN v : v[r] \notin {"failed",
               "unresolved"}
      BY C07Rolled DEF C07!GitLabTagsSigned
    <3> HIDE DEF v
    <3>3. \A r \in S : /\ v[r] = "failed" => world.signature[r] \in {"unverified", "404"}
                       /\ v[r] = "unresolved" => C07!Lost(<<"signature", r>>) \/ world.signature[r] = "blank"
                       /\ v[r] # "failed" /\ C07!Got(<<"signature", r>>)
                            => world.signature[r] \in {"verified", "blank"}
                       /\ v[r] \notin {"failed", "unresolved"} => world.signature[r] = "verified"
      BY <2>4, <3>1, MarkersAssumption DEF C07!Signature, C07!Lost, C07!Got
    <3>4. QED
      BY <2>2, <2>3, <3>1, <3>2, <3>3 DEF C07!GitLabRubric, C07!Of, Statuses
  <2>6. C07!GitLabChecksums \in Statuses /\ C07!GitLabRubric("checksums", C07!GitLabChecksums)
    <3> DEFINE S == C07!GitLabRecents
    <3> DEFINE v == [r \in S |-> IF world.asset[r].checksum THEN "passed" ELSE "failed"]
    <3>1. DOMAIN v = S /\ \A r \in S : v[r] = IF world.asset[r].checksum THEN "passed" ELSE "failed"
      OBVIOUS
    <3>2. \/ C07!GitLabChecksums = NotCheckable /\ DOMAIN v = {}
          \/ C07!GitLabChecksums = Fail /\ \E r \in DOMAIN v : v[r] = "failed"
          \/ /\ C07!GitLabChecksums = Partial
             /\ \A r \in DOMAIN v : v[r] # "failed"
             /\ \E r \in DOMAIN v : v[r] = "unresolved"
          \/ C07!GitLabChecksums = Pass /\ DOMAIN v # {} /\ \A r \in DOMAIN v : v[r] \notin {"failed",
               "unresolved"}
      BY C07Rolled DEF C07!GitLabChecksums
    <3> HIDE DEF v
    <3>3. QED
      BY <2>2, <2>3, <3>1, <3>2 DEF C07!GitLabRubric, C07!Of, Statuses
  <2>7. C07!GitLabSignatures \in Statuses /\ C07!GitLabRubric("signatures", C07!GitLabSignatures)
    <3> DEFINE S == C07!GitLabRecents
    <3> DEFINE v == [r \in S |-> IF world.asset[r].signature THEN "passed" ELSE "failed"]
    <3>1. DOMAIN v = S /\ \A r \in S : v[r] = IF world.asset[r].signature THEN "passed" ELSE "failed"
      OBVIOUS
    <3>2. \/ C07!GitLabSignatures = NotCheckable /\ DOMAIN v = {}
          \/ C07!GitLabSignatures = Fail /\ \E r \in DOMAIN v : v[r] = "failed"
          \/ /\ C07!GitLabSignatures = Partial
             /\ \A r \in DOMAIN v : v[r] # "failed"
             /\ \E r \in DOMAIN v : v[r] = "unresolved"
          \/ C07!GitLabSignatures = Pass /\ DOMAIN v # {} /\ \A r \in DOMAIN v : v[r] \notin {"failed",
               "unresolved"}
      BY C07Rolled DEF C07!GitLabSignatures
    <3> HIDE DEF v
    <3>3. QED
      BY <2>2, <2>3, <3>1, <3>2 DEF C07!GitLabRubric, C07!Of, Statuses
  <2>8. C07!Unlinked \in Statuses /\ C07!GitLabRubric("workflow", C07!Unlinked)
    BY DEF C07!GitLabRubric, C07!Unlinked, Statuses
  <2>9. C07!Unlinked \in Statuses /\ C07!GitLabRubric("commit-linkage", C07!Unlinked)
    BY DEF C07!GitLabRubric, C07!Unlinked, Statuses
  <2> QED
    BY <1>2, <2>1, <2>5, <2>6, <2>7, <2>8, <2>9 DEF C07!Checks
<1> QED
  BY <1>1, <1>3, <1>4

LEMMA GitLabC07Goes == GitLabC07Inv /\ [C07!GitLabNext]_vars => GitLabC07Inv'
<1> SUFFICES ASSUME GitLabC07Inv, [C07!GitLabNext]_vars PROVE GitLabC07Inv'
  OBVIOUS
<1>1. CASE C07!NewClient
  <2>1. Get(<<"client">>, TRUE)
    BY <1>1 DEF C07!NewClient, C07!Ask, C07!Get, Get
  <2>2. <<"client">> \in C07!GitLabCall
    BY DEF C07!GitLabCall
  <2>3. QED
    BY <2>1, <2>2, GitLabC07Reads
<1>2. CASE C07!GitLabListReleases
  <2>1. PICK S \in C07!Selections(world.releases, C07!date) : Get(<<"releases">>, S)
    BY <1>2 DEF C07!GitLabListReleases, C07!Ask, C07!Get, Get
  <2>2. <<"releases">> \in C07!GitLabCall
    BY DEF C07!GitLabCall
  <2>3. QED
    BY <2>1, <2>2, GitLabC07Reads
<1>3. ASSUME NEW r \in Release, C07!ReadSignature(r) PROVE GitLabC07Inv'
  <2>1. Get(<<"signature", r>>, world.signature[r])
    BY <1>3 DEF C07!ReadSignature, C07!Ask, C07!Get, Get
  <2>2. <<"signature", r>> \in C07!GitLabCall
    BY DEF C07!GitLabCall
  <2>3. QED
    BY <2>1, <2>2, GitLabC07Reads
<1>4. CASE C07!GitLabDecide
  BY <1>4, GitLabC07Verdicts, GitLabC07Same DEF GitLabC07Inv, C07!GitLabTypeOK, C07!SurveyTypeOK,
     C07!GitLabRubricHolds, Statuses, Pass, Fail, Partial, NotCheckable, C07!Pass, C07!Fail,
     C07!Partial, C07!NotCheckable
<1>5. CASE UNCHANGED vars
  BY <1>5, GitLabC07Same DEF vars, GitLabC07Inv, C07!GitLabTypeOK, C07!SurveyTypeOK,
     C07!GitLabRubricHolds
<1> QED
  BY <1>1, <1>2, <1>3, <1>4, <1>5 DEF C07!GitLabNext

-----------------------------------------------------------------------------
(* C07.provenance: on GitHub. *)
GitHubC07FilesRead == Got(<<"workflows">>) /\ \A t \in DOMAIN world.workflow \cap Tool : heard[<<"file",
  t>>] # Unasked

GitHubC07Heard ==
  /\ heard[<<"repository">>] \in Outcomes({TRUE})
  /\ heard[<<"workflows">>] \in Outcomes({DOMAIN world.workflow})
  /\ \A t \in Tool : heard[<<"file", t>>] \in Outcomes({world.workflow[t]})
  /\ heard[<<"releases">>] \in Outcomes(C07!Selections(world.releases, C07!date))
  /\ \A r \in Release : heard[<<"ref", r>>] \in Outcomes({r.annotated})
  /\ \A r \in Release : heard[<<"tag", r>>] \in Outcomes({(r \in world.verified)})
  /\ \A r \in Release : heard[<<"runs", r>>] \in Outcomes({(r.commit \in world.built)})
  /\ \A r \in Release, k \in 1..MaxLookups : heard[<<"attestation", r,
       k>>] \in Outcomes({world.asset[r].attested[k]})
  /\ \A t \in Tool : heard[<<"file", t>>] # Unasked => t \in DOMAIN world.workflow
  /\ heard[<<"releases">>] # Unasked => GitHubC07FilesRead
  /\ \A r \in Release, k \in 1..MaxLookups : heard[<<"attestation", r, k>>] # Unasked => k \in C07!Digests(r)

GitHubC07Inv == C07!GitHubTypeOK /\ GitHubC07Heard /\ C07!GitHubAccountedFor

LEMMA GitHubC07Starts == C07!GitHubInit => GitHubC07Inv
BY SettingsAssumption DEF C07!GitHubInit, C07!InitWith, GitHubC07Inv, C07!GitHubTypeOK,
   C07!SurveyTypeOK, GitHubC07Heard, Outcomes, Got, C07!GitHubAccountedFor, C07!GitHubCall,
   GitHubC07FilesRead, C07!Digests

LEMMA GitHubC07Same ==
  ASSUME UNCHANGED <<world, heard, seen>>
  PROVE  /\ GitHubC07Heard' <=> GitHubC07Heard
         /\ \A c, s : C07!GitHubAccounted(c, s)' <=> C07!GitHubAccounted(c, s)
<1>1. GitHubC07Heard' <=> GitHubC07Heard
  BY DEF GitHubC07Heard, Got, GitHubC07FilesRead, C07!Digests
<1>2. \A c, s : C07!GitHubAccounted(c, s)' <=> C07!GitHubAccounted(c, s)
  BY DEF C07!GitHubAccounted, C07!GitHubRubric, C07!GiveUp, C07!Lost, C07!NoRelease, C07!Genuine,
     C07!Resolvable, C07!Got, C07!Of, C07!AttestedAtAll, C07!LookupLost, C07!Tools, C07!Skipped,
     C07!Traceable, C07!GitHubDeviates, C07!AttestedBeyond, C07!Digests
<1> QED
  BY <1>1, <1>2

LEMMA GitHubC07Reads ==
  ASSUME GitHubC07Inv, NEW c \in C07!GitHubCall, NEW a, Get(c, a),
         c = <<"repository">> => a = TRUE,
         c = <<"workflows">> => a = DOMAIN world.workflow,
         \A t \in Tool : c = <<"file", t>> => a = world.workflow[t] /\ t \in DOMAIN world.workflow,
         c = <<"releases">> => a \in C07!Selections(world.releases, C07!date) /\ GitHubC07FilesRead,
         \A r \in Release : c = <<"ref", r>> => a = r.annotated,
         \A r \in Release : c = <<"tag", r>> => a = (r \in world.verified),
         \A r \in Release : c = <<"runs", r>> => a = (r.commit \in world.built),
         \A r \in Release, k \in 1..MaxLookups : c = <<"attestation", r, k>>
           => a = world.asset[r].attested[k] /\ k \in C07!Digests(r)
  PROVE  GitHubC07Inv'
<1>1. /\ DOMAIN heard = C07!GitHubCall /\ DOMAIN heard' = C07!GitHubCall
      /\ heard[c] = Unasked /\ heard'[c] \in {a, Failed}
      /\ \A d \in C07!GitHubCall : heard'[d] = IF d = c THEN heard'[c] ELSE heard[d]
      /\ \A d \in C07!GitHubCall : heard[d] # Unasked => heard'[d] = heard[d] /\ d # c
      /\ status = Undecided /\ UNCHANGED <<world, status, seen>>
  BY Answer DEF GitHubC07Inv, C07!GitHubTypeOK, C07!SurveyTypeOK
<1>2. C07!GitHubTypeOK' /\ C07!GitHubAccountedFor'
  BY <1>1 DEF GitHubC07Inv, C07!GitHubTypeOK, C07!SurveyTypeOK, C07!GitHubAccountedFor
<1>3. /\ <<"repository">> \in C07!GitHubCall
      /\ <<"workflows">> \in C07!GitHubCall
      /\ \A t \in Tool : <<"file", t>> \in C07!GitHubCall
      /\ <<"releases">> \in C07!GitHubCall
      /\ \A r \in Release : <<"ref", r>> \in C07!GitHubCall
      /\ \A r \in Release : <<"tag", r>> \in C07!GitHubCall
      /\ \A r \in Release : <<"runs", r>> \in C07!GitHubCall
      /\ \A r \in Release, k \in 1..MaxLookups : <<"attestation", r, k>> \in C07!GitHubCall
  BY DEF C07!GitHubCall
<1>4. heard'[<<"repository">>] \in Outcomes({TRUE})
  BY <1>1, <1>3 DEF GitHubC07Inv, GitHubC07Heard, Outcomes
<1>5. heard'[<<"workflows">>] \in Outcomes({DOMAIN world.workflow})
  BY <1>1, <1>3 DEF GitHubC07Inv, GitHubC07Heard, Outcomes
<1>6. \A t \in Tool : heard'[<<"file", t>>] \in Outcomes({world.workflow[t]})
  BY <1>1, <1>3 DEF GitHubC07Inv, GitHubC07Heard, Outcomes
<1>7. heard'[<<"releases">>] \in Outcomes(C07!Selections(world.releases, C07!date))
  BY <1>1, <1>3 DEF GitHubC07Inv, GitHubC07Heard, Outcomes
<1>8. \A r \in Release : heard'[<<"ref", r>>] \in Outcomes({r.annotated})
  BY <1>1, <1>3 DEF GitHubC07Inv, GitHubC07Heard, Outcomes
<1>9. \A r \in Release : heard'[<<"tag", r>>] \in Outcomes({(r \in world.verified)})
  BY <1>1, <1>3 DEF GitHubC07Inv, GitHubC07Heard, Outcomes
<1>10. \A r \in Release : heard'[<<"runs", r>>] \in Outcomes({(r.commit \in world.built)})
  BY <1>1, <1>3 DEF GitHubC07Inv, GitHubC07Heard, Outcomes
<1>11. ASSUME NEW r \in Release, NEW k \in 1..MaxLookups
      PROVE  heard'[<<"attestation", r, k>>] \in Outcomes({world.asset[r].attested[k]})
  <2>1. <<"attestation", r, k>> \in C07!GitHubCall /\ heard[<<"attestation", r,
          k>>] \in Outcomes({world.asset[r].attested[k]})
    BY <1>3 DEF GitHubC07Inv, GitHubC07Heard
  <2>2. c = <<"attestation", r, k>> => a = world.asset[r].attested[k]
    OBVIOUS
  <2>3. QED
    BY <1>1, <2>1, <2>2 DEF Outcomes
<1>12. ASSUME NEW t \in Tool, heard'[<<"file", t>>] # Unasked
      PROVE  (t \in DOMAIN world.workflow)'
  <2>1. t \in DOMAIN world.workflow
    BY <1>1, <1>3, <1>12 DEF GitHubC07Inv, GitHubC07Heard
  <2>2. QED
    BY <1>1, <1>3, <2>1 DEF Got, GitHubC07FilesRead, C07!Digests
<1>13. ASSUME heard'[<<"releases">>] # Unasked
      PROVE  GitHubC07FilesRead'
  <2>1. GitHubC07FilesRead
    BY <1>1, <1>3, <1>13 DEF GitHubC07Inv, GitHubC07Heard
  <2>2. QED
    BY <1>1, <1>3, <2>1 DEF Got, GitHubC07FilesRead, C07!Digests
<1>14. ASSUME NEW r \in Release, NEW k \in 1..MaxLookups, heard'[<<"attestation", r, k>>] # Unasked
      PROVE  (k \in C07!Digests(r))'
  <2>1. k \in C07!Digests(r)
    <3>1. <<"attestation", r, k>> \in C07!GitHubCall /\ (heard[<<"attestation", r, k>>] # Unasked
            => k \in C07!Digests(r)) /\ (c = <<"attestation", r, k>> => k \in C07!Digests(r))
      BY <1>3 DEF GitHubC07Inv, GitHubC07Heard
    <3>2. QED
      BY <1>1, <1>14, <3>1
  <2>2. QED
    BY <1>1, <2>1 DEF C07!Digests
<1>15. GitHubC07Heard'
  BY <1>1, <1>4, <1>5, <1>6, <1>7, <1>8, <1>9, <1>10, <1>11, <1>12, <1>13, <1>14 DEF
     GitHubC07Heard, GitHubC07FilesRead, C07!Digests
<1> QED
  BY <1>2, <1>15 DEF GitHubC07Inv

LEMMA GitHubC07Recents ==
  ASSUME GitHubC07Inv, C07!Got(<<"releases">>)
  PROVE  /\ C07!GitHubRecents \in C07!Selections(world.releases, C07!date)
         /\ C07!GitHubRecents \subseteq Release
         /\ C07!GitHubRecents = {} => C07!Recent(world.releases, C07!date) = {}
<1>1. C07!GitHubRecents \in C07!Selections(world.releases, C07!date)
  BY DEF C07!GitHubRecents, C07!Got, GitHubC07Inv, GitHubC07Heard, Outcomes
<1>2. C07!GitHubRecents \subseteq world.releases
  BY <1>1 DEF C07!Selections, C07!Recent
<1>3. world.releases \subseteq Release
  BY DEF GitHubC07Inv, C07!GitHubTypeOK, C07!SurveyTypeOK, C07!GitHubWorlds
<1> QED
  BY <1>1, <1>2, <1>3, C07NoneChosen

\* The workflows matched are tools, and all of them but for the files that were lost.
LEMMA GitHubC07Matched ==
  ASSUME GitHubC07Inv, C07!Got(<<"releases">>)
  PROVE  /\ \A t \in C07!Matched : t \in C07!Tools /\ heard[<<"file", t>>] = world.workflow[t]
         /\ \A t \in C07!Tools : t \in C07!Matched \/ t \in C07!Skipped
<1>1. \A t \in Tool : C07!Got(<<"file", t>>) => heard[<<"file", t>>] = world.workflow[t]
        /\ t \in DOMAIN world.workflow
  BY DEF C07!Got, GitHubC07Inv, GitHubC07Heard, Outcomes
<1>2. DOMAIN world.workflow \subseteq Tool
  BY DEF GitHubC07Inv, C07!GitHubTypeOK, C07!SurveyTypeOK, C07!GitHubWorlds
<1>3. \A t \in DOMAIN world.workflow : heard[<<"file", t>>] # Unasked
  BY <1>2 DEF C07!Got, GitHubC07Inv, GitHubC07Heard, GitHubC07FilesRead
<1> QED
  BY <1>1, <1>2, <1>3 DEF C07!Matched, C07!Tools, C07!Skipped, C07!Got, C07!Lost

\* What is known of the tags, the digests and the runs of a release is true of it.
LEMMA GitHubC07Known ==
  ASSUME GitHubC07Inv, NEW r \in Release
  PROVE  /\ C07!Resolvable(r) => (heard[<<"ref", r>>] = TRUE /\ heard[<<"tag", r>>] = TRUE <=> C07!Genuine(r))
         /\ C07!Got(<<"runs", r>>) => (heard[<<"runs", r>>] = TRUE <=> C07!Traceable(r))
         /\ C07!Attested(r) => C07!AttestedAtAll(r)
         /\ C07!LookedUp(r) /\ ~C07!Signed(r) /\ ~C07!LookupLost(r) =>
              \A k \in C07!Digests(r) : ~world.asset[r].attested[k]
<1>0. r.annotated \in BOOLEAN
  BY HistoryAssumption DEF GitHubC06!Releases
<1>1. /\ C07!Got(<<"ref", r>>) => heard[<<"ref", r>>] = r.annotated
      /\ heard[<<"tag", r>>] \in {Unasked, Failed, (r \in world.verified)}
      /\ C07!Got(<<"runs", r>>) => heard[<<"runs", r>>] = (r.commit \in world.built)
  BY DEF C07!Got, GitHubC07Inv, GitHubC07Heard, Outcomes
<1>2. \A k \in 1..MaxLookups : C07!Got(<<"attestation", r, k>>) =>
        heard[<<"attestation", r, k>>] = world.asset[r].attested[k] /\ k \in C07!Digests(r)
  BY DEF C07!Got, GitHubC07Inv, GitHubC07Heard, Outcomes
<1>3. ASSUME C07!Resolvable(r)
      PROVE  heard[<<"ref", r>>] = TRUE /\ heard[<<"tag", r>>] = TRUE <=> C07!Genuine(r)
  BY <1>0, <1>1, <1>3, MarkersAssumption DEF C07!Resolvable, C07!Got, C07!Genuine
<1>4. ASSUME C07!Got(<<"runs", r>>)
      PROVE  heard[<<"runs", r>>] = TRUE <=> C07!Traceable(r)
  BY <1>1, <1>4 DEF C07!Traceable
<1>5. ASSUME C07!Attested(r)
      PROVE  C07!AttestedAtAll(r)
  BY <1>2, <1>5 DEF C07!Attested, C07!AttestedAtAll, C07!Digests
<1>6. ASSUME C07!LookedUp(r), ~C07!Signed(r), ~C07!LookupLost(r), NEW k \in C07!Digests(r),
             world.asset[r].attested[k]
      PROVE  FALSE
  <2>2. k \in 1..MaxLookups
    BY DEF C07!Digests
  <2>3. heard[<<"attestation", r, k>>] # Unasked
    BY <1>6, <2>2 DEF C07!LookedUp, C07!Signed, C07!Heard
  <2>4. C07!Got(<<"attestation", r, k>>)
    BY <1>6, <2>2, <2>3 DEF C07!LookupLost, C07!Lost, C07!Got
  <2>5. QED
    BY <1>2, <1>6, <2>2, <2>4 DEF C07!Signed, C07!Attested
<1> QED
  BY <1>3, <1>4, <1>5, <1>6

LEMMA GitHubC07Verdicts ==
  ASSUME GitHubC07Inv, C07!GitHubDecide
  PROVE  /\ status' \in [C07!Checks -> Statuses] /\ UNCHANGED <<world, heard, seen>>
         /\ \A c \in C07!Checks : C07!GitHubAccounted(c, status'[c])
<1> USE DEF Pass, Fail, Partial, NotCheckable, C07!Pass, C07!Fail, C07!Partial, C07!NotCheckable
<1> DEFINE emitted == [c \in C07!Checks |->
     CASE c = "tags-signed"    -> C07!GitHubTagsSigned
       [] c = "checksums"      -> C07!GitHubChecksums
       [] c = "signatures"     -> C07!GitHubSignatures
       [] c = "workflow"       -> C07!Workflow
       [] c = "commit-linkage" -> C07!CommitLinkage]
<1>1. \/ C07!GiveUp /\ status' = C07!Nothing(C07!Checks)
      \/ (C07!Got(<<"releases">>) /\ \A r \in C07!GitHubRecents : C07!TagRead(r) /\ C07!LookedUp(r)
           /\ (C07!Resolvable(r) => C07!Heard({<<"runs", r>>}))) /\ status' = emitted
  BY DEF C07!GitHubDecide, C07!Emit
<1>2. UNCHANGED <<world, heard, seen>>
  BY DEF C07!GitHubDecide, C07!Emit
<1>3. CASE C07!GiveUp /\ status' = C07!Nothing(C07!Checks)
  BY <1>2, <1>3 DEF C07!Nothing, C07!GitHubAccounted, Statuses, C07!GitHubRubric
<1>4. CASE (C07!Got(<<"releases">>) /\ \A r \in C07!GitHubRecents : C07!TagRead(r) /\ C07!LookedUp(r)
             /\ (C07!Resolvable(r) => C07!Heard({<<"runs", r>>}))) /\ status' = emitted
  <2>1. /\ status'["tags-signed"] = C07!GitHubTagsSigned
        /\ status'["checksums"] = C07!GitHubChecksums
        /\ status'["signatures"] = C07!GitHubSignatures
        /\ status'["workflow"] = C07!Workflow
        /\ status'["commit-linkage"] = C07!CommitLinkage
        /\ status' = [c \in C07!Checks |-> status'[c]]
    BY <1>4 DEF C07!Checks
  <2>2. C07!GitHubRecents \in C07!Selections(world.releases, C07!date)
    BY <1>4, GitHubC07Recents
  <2>3. C07!GitHubRecents \subseteq Release /\ (C07!GitHubRecents = {} => C07!Recent(world.releases,
          C07!date) = {})
    BY <1>4, GitHubC07Recents
  <2>4. C07!GitHubTagsSigned \in Statuses /\ C07!GitHubAccounted("tags-signed", C07!GitHubTagsSigned)
    <3> DEFINE S == C07!GitHubRecents
    <3> DEFINE v == [r \in S |-> C07!Verdict(C07!Resolvable(r), heard[<<"ref", r>>] = TRUE
                 /\ heard[<<"tag", r>>] = TRUE)]
    <3>1. DOMAIN v = S /\ \A r \in S : v[r] = C07!Verdict(C07!Resolvable(r), heard[<<"ref", r>>] = TRUE
            /\ heard[<<"tag", r>>] = TRUE)
      OBVIOUS
    <3>2. \/ C07!GitHubTagsSigned = NotCheckable /\ DOMAIN v = {}
          \/ C07!GitHubTagsSigned = Fail /\ \E r \in DOMAIN v : v[r] = "failed"
          \/ /\ C07!GitHubTagsSigned = Partial
             /\ \A r \in DOMAIN v : v[r] # "failed"
             /\ \E r \in DOMAIN v : v[r] = "unresolved"
          \/ C07!GitHubTagsSigned = Pass /\ DOMAIN v # {} /\ \A r \in DOMAIN v : v[r] \notin {"failed",
               "unresolved"}
      BY C07Rolled DEF C07!GitHubTagsSigned
    <3> HIDE DEF v
    <3>3. \A r \in S : /\ v[r] = "failed" => C07!Resolvable(r) /\ ~C07!Genuine(r)
                       /\ v[r] = "unresolved" => ~C07!Resolvable(r)
                       /\ v[r] # "failed" /\ C07!Resolvable(r) => C07!Genuine(r)
                       /\ v[r] \notin {"failed", "unresolved"} => C07!Genuine(r)
      BY <2>3, <3>1, GitHubC07Known DEF C07!Verdict
    <3>4. CASE C07!GitHubTagsSigned = NotCheckable /\ DOMAIN v = {}
      BY <2>3, <3>1, <3>4 DEF C07!GitHubAccounted, C07!GitHubRubric, C07!NoRelease, Statuses
    <3>5. CASE C07!GitHubTagsSigned = Fail /\ \E r \in DOMAIN v : v[r] = "failed"
      BY <2>2, <3>1, <3>3, <3>5 DEF C07!GitHubAccounted, C07!GitHubRubric, C07!Of, Statuses
    <3>6. CASE /\ C07!GitHubTagsSigned = Partial
               /\ \A r \in DOMAIN v : v[r] # "failed"
               /\ \E r \in DOMAIN v : v[r] = "unresolved"
      BY <2>2, <3>1, <3>3, <3>6 DEF C07!GitHubAccounted, C07!GitHubRubric, C07!Of, Statuses
    <3>7. CASE C07!GitHubTagsSigned = Pass /\ DOMAIN v # {}
                 /\ \A r \in DOMAIN v : v[r] \notin {"failed", "unresolved"}
      BY <2>2, <3>1, <3>3, <3>7 DEF C07!GitHubAccounted, C07!GitHubRubric, C07!Of, Statuses
    <3>8. QED
      BY <3>2, <3>4, <3>5, <3>6, <3>7
  <2>5. C07!GitHubChecksums \in Statuses /\ C07!GitHubAccounted("checksums", C07!GitHubChecksums)
    <3> DEFINE S == C07!GitHubRecents
    <3> DEFINE v == [r \in S |-> C07!Verdict(TRUE, world.asset[r].checksum)]
    <3>1. DOMAIN v = S /\ \A r \in S : v[r] = C07!Verdict(TRUE, world.asset[r].checksum)
      OBVIOUS
    <3>2. \/ C07!GitHubChecksums = NotCheckable /\ DOMAIN v = {}
          \/ C07!GitHubChecksums = Fail /\ \E r \in DOMAIN v : v[r] = "failed"
          \/ /\ C07!GitHubChecksums = Partial
             /\ \A r \in DOMAIN v : v[r] # "failed"
             /\ \E r \in DOMAIN v : v[r] = "unresolved"
          \/ C07!GitHubChecksums = Pass /\ DOMAIN v # {} /\ \A r \in DOMAIN v : v[r] \notin {"failed",
               "unresolved"}
      BY C07Rolled DEF C07!GitHubChecksums
    <3> HIDE DEF v
    <3>3. \A r \in S : /\ v[r] = "failed" => ~world.asset[r].checksum
                       /\ v[r] # "unresolved"
                       /\ v[r] # "failed" => world.asset[r].checksum
      BY <3>1 DEF C07!Verdict
    <3>4. CASE C07!GitHubChecksums = NotCheckable /\ DOMAIN v = {}
      BY <2>3, <3>1, <3>4 DEF C07!GitHubAccounted, C07!GitHubRubric, C07!NoRelease, Statuses
    <3>5. CASE C07!GitHubChecksums = Fail /\ \E r \in DOMAIN v : v[r] = "failed"
      BY <2>2, <3>1, <3>3, <3>5 DEF C07!GitHubAccounted, C07!GitHubRubric, C07!Of, Statuses
    <3>6. CASE /\ C07!GitHubChecksums = Partial
               /\ \A r \in DOMAIN v : v[r] # "failed"
               /\ \E r \in DOMAIN v : v[r] = "unresolved"
      BY <2>2, <3>1, <3>3, <3>6 DEF C07!GitHubAccounted, C07!GitHubRubric, C07!Of, Statuses
    <3>7. CASE C07!GitHubChecksums = Pass /\ DOMAIN v # {} /\ \A r \in DOMAIN v : v[r] \notin {"failed",
                 "unresolved"}
      BY <2>2, <3>1, <3>3, <3>7 DEF C07!GitHubAccounted, C07!GitHubRubric, C07!Of, Statuses
    <3>8. QED
      BY <3>2, <3>4, <3>5, <3>6, <3>7
  <2>6. C07!GitHubSignatures \in Statuses /\ C07!GitHubAccounted("signatures", C07!GitHubSignatures)
    <3> DEFINE S == C07!GitHubRecents
    <3> DEFINE v == [r \in S |-> C07!Verdict(C07!Signed(r) \/ ~C07!LookupLost(r), C07!Signed(r))]
    <3>1. DOMAIN v = S /\ \A r \in S : v[r] = C07!Verdict(C07!Signed(r) \/ ~C07!LookupLost(r), C07!Signed(r))
      OBVIOUS
    <3>2. \/ C07!GitHubSignatures = NotCheckable /\ DOMAIN v = {}
          \/ C07!GitHubSignatures = Fail /\ \E r \in DOMAIN v : v[r] = "failed"
          \/ /\ C07!GitHubSignatures = Partial
             /\ \A r \in DOMAIN v : v[r] # "failed"
             /\ \E r \in DOMAIN v : v[r] = "unresolved"
          \/ C07!GitHubSignatures = Pass /\ DOMAIN v # {} /\ \A r \in DOMAIN v : v[r] \notin {"failed",
               "unresolved"}
      BY C07Rolled DEF C07!GitHubSignatures
    <3> HIDE DEF v
    <3>3. \A r \in S : /\ v[r] = "failed" => /\ ~world.asset[r].signature /\ ~C07!LookupLost(r)
                                            /\ \A k \in C07!Digests(r) : ~world.asset[r].attested[k]
                       /\ v[r] = "unresolved" => C07!LookupLost(r)
                       /\ v[r] \notin {"failed", "unresolved"} => world.asset[r].signature
                            \/ C07!AttestedAtAll(r)
      <4> SUFFICES ASSUME NEW r \in S
          PROVE  /\ v[r] = "failed" => /\ ~world.asset[r].signature /\ ~C07!LookupLost(r)
                                            /\ \A k \in C07!Digests(r) : ~world.asset[r].attested[k]
                 /\ v[r] = "unresolved" => C07!LookupLost(r)
                 /\ v[r] \notin {"failed", "unresolved"} => world.asset[r].signature \/ C07!AttestedAtAll(r)
        OBVIOUS
      <4>1. r \in Release /\ C07!LookedUp(r)
        BY <1>4, <2>3
      <4>2. C07!Signed(r) <=> world.asset[r].signature \/ C07!Attested(r)
        BY DEF C07!Signed
      <4>3. QED
        BY <3>1, <4>1, <4>2, GitHubC07Known DEF C07!Verdict
    <3>4. CASE C07!GitHubSignatures = NotCheckable /\ DOMAIN v = {}
      BY <2>3, <3>1, <3>4 DEF C07!GitHubAccounted, C07!GitHubRubric, C07!NoRelease, Statuses
    <3>5. CASE C07!GitHubSignatures = Fail /\ \E r \in DOMAIN v : v[r] = "failed"
      <4>1. PICK r \in S : v[r] = "failed"
        BY <3>1, <3>5
      <4>2. CASE C07!AttestedAtAll(r)
        <5>1. C07!AttestedBeyond(r)
          BY <3>3, <4>1, <4>2 DEF C07!AttestedBeyond
        <5>2. QED
          BY <2>2, <3>5, <4>1, <5>1 DEF C07!GitHubAccounted, C07!GitHubDeviates, C07!Of, Statuses
      <4>3. CASE ~C07!AttestedAtAll(r)
        BY <2>2, <3>3, <3>5, <4>1, <4>3 DEF C07!GitHubAccounted, C07!GitHubRubric, C07!Of, Statuses
      <4>4. QED
        BY <4>2, <4>3
    <3>6. CASE /\ C07!GitHubSignatures = Partial
               /\ \A r \in DOMAIN v : v[r] # "failed"
               /\ \E r \in DOMAIN v : v[r] = "unresolved"
      BY <2>2, <3>1, <3>3, <3>6 DEF C07!GitHubAccounted, C07!GitHubRubric, C07!Of, Statuses
    <3>7. CASE C07!GitHubSignatures = Pass /\ DOMAIN v # {}
                 /\ \A r \in DOMAIN v : v[r] \notin {"failed", "unresolved"}
      BY <2>2, <3>1, <3>3, <3>7 DEF C07!GitHubAccounted, C07!GitHubRubric, C07!Of, Statuses
    <3>8. QED
      BY <3>2, <3>4, <3>5, <3>6, <3>7
  <2>7. C07!Workflow \in Statuses /\ C07!GitHubAccounted("workflow", C07!Workflow)
    <3>1. C07!Got(<<"releases">>)
      BY <1>4
    <3>2. QED
      BY <3>1, GitHubC07Matched DEF C07!GitHubAccounted, C07!GitHubRubric, C07!Workflow,
         C07!ToolVerdict, C07!Strong, Statuses
  <2>8. C07!CommitLinkage \in Statuses /\ C07!GitHubAccounted("commit-linkage", C07!CommitLinkage)
    <3> DEFINE S == C07!GitHubRecents
    <3> DEFINE v == [r \in S |-> C07!Verdict(C07!Got(<<"runs", r>>), heard[<<"runs", r>>] = TRUE)]
    <3>1. DOMAIN v = S /\ \A r \in S : v[r] = C07!Verdict(C07!Got(<<"runs", r>>), heard[<<"runs", r>>] = TRUE)
      OBVIOUS
    <3>2. \/ C07!CommitLinkage = NotCheckable /\ DOMAIN v = {}
          \/ C07!CommitLinkage = Fail /\ \E r \in DOMAIN v : v[r] = "failed"
          \/ /\ C07!CommitLinkage = Partial
             /\ \A r \in DOMAIN v : v[r] # "failed"
             /\ \E r \in DOMAIN v : v[r] = "unresolved"
          \/ C07!CommitLinkage = Pass /\ DOMAIN v # {} /\ \A r \in DOMAIN v : v[r] \notin {"failed",
               "unresolved"}
      BY C07Rolled DEF C07!CommitLinkage
    <3> HIDE DEF v
    <3>3. \A r \in S : /\ v[r] = "failed" => C07!Got(<<"runs", r>>) /\ ~C07!Traceable(r)
                       /\ v[r] = "unresolved" => C07!Lost(<<"runs", r>>) \/ ~C07!Resolvable(r)
                       /\ v[r] \notin {"failed", "unresolved"} => C07!Traceable(r)
      <4> SUFFICES ASSUME NEW r \in S
          PROVE  /\ v[r] = "failed" => C07!Got(<<"runs", r>>) /\ ~C07!Traceable(r)
                 /\ v[r] = "unresolved" => C07!Lost(<<"runs", r>>) \/ ~C07!Resolvable(r)
                 /\ v[r] \notin {"failed", "unresolved"} => C07!Traceable(r)
        OBVIOUS
      <4>1. r \in Release /\ (C07!Resolvable(r) => heard[<<"runs", r>>] # Unasked)
        BY <1>4, <2>3 DEF C07!Heard
      <4>2. ~C07!Got(<<"runs", r>>) => C07!Lost(<<"runs", r>>) \/ ~C07!Resolvable(r)
        BY <4>1 DEF C07!Got, C07!Lost
      <4>3. QED
        BY <3>1, <4>1, <4>2, GitHubC07Known DEF C07!Verdict
    <3>4. CASE C07!CommitLinkage = NotCheckable /\ DOMAIN v = {}
      BY <2>3, <3>1, <3>4 DEF C07!GitHubAccounted, C07!GitHubRubric, C07!NoRelease, Statuses
    <3>5. CASE C07!CommitLinkage = Fail /\ \E r \in DOMAIN v : v[r] = "failed"
      BY <2>2, <3>1, <3>3, <3>5 DEF C07!GitHubAccounted, C07!GitHubRubric, C07!Of, Statuses
    <3>6. CASE /\ C07!CommitLinkage = Partial
               /\ \A r \in DOMAIN v : v[r] # "failed"
               /\ \E r \in DOMAIN v : v[r] = "unresolved"
      BY <2>2, <3>1, <3>3, <3>6 DEF C07!GitHubAccounted, C07!GitHubRubric, C07!Of, Statuses
    <3>7. CASE C07!CommitLinkage = Pass /\ DOMAIN v # {} /\ \A r \in DOMAIN v : v[r] \notin {"failed",
                 "unresolved"}
      BY <2>2, <3>1, <3>3, <3>7 DEF C07!GitHubAccounted, C07!GitHubRubric, C07!Of, Statuses
    <3>8. QED
      BY <3>2, <3>4, <3>5, <3>6, <3>7
  <2> QED
    BY <1>2, <2>1, <2>4, <2>5, <2>6, <2>7, <2>8 DEF C07!Checks
<1> QED
  BY <1>1, <1>3, <1>4

LEMMA GitHubC07Goes == GitHubC07Inv /\ [C07!GitHubNext]_vars => GitHubC07Inv'
<1> SUFFICES ASSUME GitHubC07Inv, [C07!GitHubNext]_vars PROVE GitHubC07Inv'
  OBVIOUS
<1>1. CASE C07!ReadRepository
  <2>1. Get(<<"repository">>, TRUE)
    BY <1>1 DEF C07!ReadRepository, C07!Ask, C07!Get, Get
  <2>2. <<"repository">> \in C07!GitHubCall
    BY DEF C07!GitHubCall
  <2>3. QED
    BY <2>1, <2>2, GitHubC07Reads
<1>2. CASE C07!ListWorkflows
  <2>1. Get(<<"workflows">>, DOMAIN world.workflow)
    BY <1>2 DEF C07!ListWorkflows, C07!Ask, C07!Get, Get
  <2>2. <<"workflows">> \in C07!GitHubCall
    BY DEF C07!GitHubCall
  <2>3. QED
    BY <2>1, <2>2, GitHubC07Reads
<1>3. CASE C07!GitHubListReleases
  <2>1. PICK S \in C07!Selections(world.releases, C07!date) : Get(<<"releases">>, S)
    BY <1>3 DEF C07!GitHubListReleases, C07!Ask, C07!Get, Get
  <2>2. Got(<<"workflows">>) /\ C07!Listed = DOMAIN world.workflow
    BY <1>3 DEF C07!GitHubListReleases, C07!Got, Got, C07!Listed, GitHubC07Inv, GitHubC07Heard,
       Outcomes
  <2>3. GitHubC07FilesRead
    BY <1>3, <2>2 DEF C07!GitHubListReleases, C07!Heard, GitHubC07FilesRead
  <2>4. <<"releases">> \in C07!GitHubCall
    BY DEF C07!GitHubCall
  <2>5. QED
    BY <2>1, <2>3, <2>4, GitHubC07Reads
<1>4. ASSUME NEW t \in Tool, C07!ReadFile(t) PROVE GitHubC07Inv'
  <2>1. Get(<<"file", t>>, world.workflow[t]) /\ t \in DOMAIN world.workflow
    BY <1>4 DEF C07!ReadFile, C07!Ask, C07!Get, Get, C07!Listed, C07!Got, GitHubC07Inv,
       GitHubC07Heard, Outcomes
  <2>2. <<"file", t>> \in C07!GitHubCall
    BY DEF C07!GitHubCall
  <2>3. QED
    BY <2>1, <2>2, GitHubC07Reads
<1>5. ASSUME NEW r \in Release, C07!ReadRef(r) PROVE GitHubC07Inv'
  <2>1. Get(<<"ref", r>>, r.annotated)
    BY <1>5 DEF C07!ReadRef, C07!Ask, C07!Get, Get
  <2>2. <<"ref", r>> \in C07!GitHubCall
    BY DEF C07!GitHubCall
  <2>3. QED
    BY <2>1, <2>2, GitHubC07Reads
<1>6. ASSUME NEW r \in Release, C07!ReadTag(r) PROVE GitHubC07Inv'
  <2>1. Get(<<"tag", r>>, (r \in world.verified))
    BY <1>6 DEF C07!ReadTag, C07!Ask, C07!Get, Get
  <2>2. <<"tag", r>> \in C07!GitHubCall
    BY DEF C07!GitHubCall
  <2>3. QED
    BY <2>1, <2>2, GitHubC07Reads
<1>7. ASSUME NEW r \in Release, C07!ReadRuns(r) PROVE GitHubC07Inv'
  <2>1. Get(<<"runs", r>>, (r.commit \in world.built))
    BY <1>7 DEF C07!ReadRuns, C07!Ask, C07!Get, Get
  <2>2. <<"runs", r>> \in C07!GitHubCall
    BY DEF C07!GitHubCall
  <2>3. QED
    BY <2>1, <2>2, GitHubC07Reads
<1>8. ASSUME NEW r \in Release, NEW k \in 1..MaxLookups, C07!LookUp(r, k) PROVE GitHubC07Inv'
  <2>1. Get(<<"attestation", r, k>>, world.asset[r].attested[k]) /\ k \in C07!Digests(r)
    BY <1>8 DEF C07!LookUp, C07!Ask, C07!Get, Get
  <2>2. <<"attestation", r, k>> \in C07!GitHubCall
    BY DEF C07!GitHubCall
  <2>3. QED
    BY <2>1, <2>2, GitHubC07Reads
<1>9. CASE C07!GitHubDecide
  BY <1>9, GitHubC07Verdicts, GitHubC07Same DEF GitHubC07Inv, C07!GitHubTypeOK, C07!SurveyTypeOK,
     C07!GitHubAccountedFor, Statuses, Pass, Fail, Partial, NotCheckable, C07!Pass, C07!Fail,
     C07!Partial, C07!NotCheckable
<1>10. CASE UNCHANGED vars
  BY <1>10, GitHubC07Same DEF vars, GitHubC07Inv, C07!GitHubTypeOK, C07!SurveyTypeOK,
     C07!GitHubAccountedFor
<1> QED
  BY <1>1, <1>2, <1>3, <1>4, <1>5, <1>6, <1>7, <1>8, <1>9, <1>10 DEF C07!GitHubNext
-----------------------------------------------------------------------------
(* C07.provenance: on Azure DevOps. *)

LEMMA AzureC07SameCount ==
  ASSUME NEW S
  PROVE  AzureC07!Cardinality(S) = Cardinality(S)
BY DEF AzureC07!Cardinality, Cardinality

LEMMA AzureC07Chosen ==
  ASSUME NEW R, NEW date, NEW S \in AzureC07!Selections(R, date)
  PROVE  /\ S \subseteq AzureC07!Recent(R, date)
         /\ S = {} => AzureC07!Recent(R, date) = {}
<1>1. Lookback # 0 /\ AzureC07!Cardinality({}) = 0
  BY HistoryAssumption, FS_EmptySet, AzureC07SameCount
<1> QED
  BY <1>1 DEF AzureC07!Selections

\* The pipelines were all inspected before the tags were asked for.
AzureC07Inspected ==
  /\ Got(<<"repositories">>) /\ Got(<<"pipelines">>)
  /\ \A t \in Tool : heard[<<"definition", t>>] # Unasked
  /\ \A t \in Tool : AzureC07!HasFile(t) => heard[<<"file", t>>] # Unasked

\* Nothing changes on Azure DevOps during a collection, so that all answers are about one world.
AzureC07HeardOfPipelines ==
  /\ seen = {world}
  /\ heard[<<"repositories">>] \in Outcomes({world.found})
  /\ \A t \in Tool : heard[<<"definition", t>>] \in Outcomes({world.pipeline[t]})
  /\ \A t \in Tool : heard[<<"file", t>>] \in
       Outcomes({[found |-> world.pipeline[t].file, template |-> world.pipeline[t].template]})
  /\ heard[<<"releases">>] \in Outcomes({world.history.releases})
  /\ Got(<<"pipelines">>) => Got(<<"repositories">>)
  /\ heard[<<"releases">>] # Unasked => AzureC07Inspected

(***************************************************************************)
(* The builds are those since a date that is known once all tags are       *)
(* dated: from then on, no tag is asked for again.                         *)
(***************************************************************************)
AzureC07HeardOfBuilds ==
  /\ heard[<<"builds">>] \in Outcomes({{x \in world.history.runs : x.at >= AzureC07!SearchStart}})
  /\ heard[<<"builds">>] # Unasked => Got(<<"releases">>) /\ AzureC07!Dated
  /\ \A r \in Release :
       /\ heard[<<"annotation", r>>] # Unasked => Got(<<"releases">>) /\ r \in AzureC07!Named /\ r.annotated
       /\ heard[<<"commit", r>>] # Unasked =>
            /\ Got(<<"releases">>) /\ r \in AzureC07!Named
            /\ r.annotated => heard[<<"annotation", r>>] = Failed

AzureC07Heard == AzureC07HeardOfPipelines /\ AzureC07HeardOfBuilds

AzureC07Inv == AzureC07!ProvTypeOK /\ AzureC07Heard /\ AzureC07!AccountedFor

LEMMA AzureC07Tools ==
  ASSUME AzureC07Inv, heard[<<"releases">>] # Unasked
  PROVE  /\ AzureC07!Matched = AzureC07!Scanners(world) \cap AzureC07!Read
         /\ \A t \in AzureC07!Matched : AzureC07!Content(t).found = world.pipeline[t].file
         /\ AzureC07!Skipped = {} =>
              \A t \in Tool : world.pipeline[t].repository = "this" =>
                \/ heard[<<"definition", t>>] = Failed
                \/ AzureC07!Plain(world, t) /\ (t \in AzureC07!Scanners(world) => t \in AzureC07!Matched)
<1>1. \A t \in Tool : heard[<<"definition", t>>] \in {Failed, world.pipeline[t]}
                      /\ heard[<<"definition", t>>] # Unasked
  BY DEF AzureC07Inv, AzureC07Heard, AzureC07HeardOfPipelines, AzureC07Inspected, Outcomes, Got
<1>2. \A t \in Tool : AzureC07!HasFile(t) =>
        /\ heard[<<"file", t>>] # Unasked
        /\ heard[<<"file", t>>] \in
             {Failed, [found |-> world.pipeline[t].file, template |-> world.pipeline[t].template]}
  BY DEF AzureC07Inv, AzureC07Heard, AzureC07HeardOfPipelines, AzureC07Inspected, Outcomes, Got
<1>3. \A t \in Tool : AzureC07!HasFile(t) <=>
        heard[<<"definition", t>>] # Failed /\ world.pipeline[t].process = "yaml"
  BY <1>1 DEF AzureC07!HasFile, AzureC07!Definition, AzureC07!Got
<1>4. \A t \in Tool : t \in AzureC07!Ours <=>
        heard[<<"definition", t>>] # Failed /\ world.pipeline[t].repository = "this"
  BY <1>1 DEF AzureC07!Ours, AzureC07!Definition, AzureC07!Got
<1>5. \A t \in Tool : t \in AzureC07!Read <=>
        t \in AzureC07!Ours /\ AzureC07!HasFile(t) /\ heard[<<"file", t>>] # Failed
  BY <1>2, <1>4 DEF AzureC07!Read, AzureC07!Got, AzureC07!Ours
<1>6. ASSUME NEW t \in AzureC07!Read
      PROVE  /\ t \in Tool
             /\ AzureC07!Content(t).found = world.pipeline[t].file
             /\ AzureC07!Content(t).template = world.pipeline[t].template
  <2>1. t \in Tool
    BY DEF AzureC07!Read, AzureC07!Ours
  <2>2. heard[<<"file", t>>] = [found |-> world.pipeline[t].file, template |-> world.pipeline[t].template]
    BY <2>1, <1>2, <1>5
  <2> QED
    BY <2>1, <2>2 DEF AzureC07!Content
<1>7. AzureC07!Matched = AzureC07!Scanners(world) \cap AzureC07!Read
  BY <1>3, <1>4, <1>5, <1>6 DEF AzureC07!Matched, AzureC07!Scanners
<1>8. ASSUME AzureC07!Skipped = {}, NEW t \in Tool, world.pipeline[t].repository = "this",
             heard[<<"definition", t>>] # Failed
      PROVE  AzureC07!Plain(world, t) /\ (t \in AzureC07!Scanners(world) => t \in AzureC07!Matched)
  <2>1. t \in AzureC07!Ours /\ AzureC07!Definition(t) = world.pipeline[t]
    BY <1>1, <1>4, <1>8 DEF AzureC07!Definition
  <2>2. world.pipeline[t].process # "pathless"
    BY <2>1, <1>8 DEF AzureC07!Skipped
  <2>3. world.pipeline[t] \in AzureC07!Pipelines
    BY PipelineAssumption DEF AzureC07Inv, AzureC07!ProvTypeOK, AzureC07!SurveyTypeOK,
       AzureC07!Worlds, AzureC07!Pipelines, AzureC06!Pipelines, AzureC07!Evidence,
       AzureC06!Evidence
  <2>4. world.pipeline[t].process \in {"yaml", "classic"}
    BY <2>2, <2>3 DEF AzureC07!Pipelines
  <2>5. CASE world.pipeline[t].process = "classic"
    BY <2>5 DEF AzureC07!Plain, AzureC07!Scanners
  <2>6. CASE world.pipeline[t].process = "yaml"
    <3>1. AzureC07!HasFile(t)
      BY <2>6, <1>3, <1>8
    <3>2. heard[<<"file", t>>] # Failed
      BY <3>1, <2>1, <1>8 DEF AzureC07!Skipped
    <3>3. t \in AzureC07!Read
      BY <3>1, <3>2, <2>1, <1>5
    <3>4. ~AzureC07!Content(t).template
      BY <3>3, <2>1, <1>8 DEF AzureC07!Skipped
    <3> QED
      BY <3>3, <3>4, <2>6, <1>6, <1>7 DEF AzureC07!Plain
  <2> QED
    BY <2>4, <2>5, <2>6
<1> QED
  BY <1>6, <1>7, <1>8

\* The releases that were read, and those a verdict is about.
LEMMA AzureC07Releases ==
  ASSUME AzureC07Inv, AzureC07!Got(<<"releases">>), NEW S \in AzureC07!Selections(AzureC07!Resolved,
           AzureC07!date)
  PROVE  /\ heard[<<"releases">>] = world.history.releases
         /\ S \subseteq AzureC07!Recent(AzureC07!Resolved, AzureC07!date)
         /\ S = {} => AzureC07!Recent(AzureC07!Resolved, AzureC07!date) = {}
         /\ AzureC07!Resolved \subseteq AzureC07!Named
         /\ S \subseteq AzureC07!Recent(world.history.releases, AzureC07!date)
         /\ S \subseteq {q \in world.history.releases : q.named}
         /\ AzureC07!Recent(world.history.releases, AzureC07!date) = AzureC07!Recent(AzureC07!Named,
              AzureC07!date)
         /\ AzureC07!Dropped = {} =>
              /\ AzureC07!Recent(AzureC07!Named, AzureC07!date) = AzureC07!Recent(AzureC07!Resolved,
                   AzureC07!date)
              /\ S \in AzureC07!Selections(world.history.releases, AzureC07!date)
<1> DEFINE date == AzureC07!date
<1> HIDE DEF date
<1>1. heard[<<"releases">>] = world.history.releases
  BY DEF AzureC07Inv, AzureC07Heard, AzureC07HeardOfPipelines, Outcomes, AzureC07!Got
<1>2. S \subseteq AzureC07!Recent(AzureC07!Resolved, date)
        /\ (S = {} => AzureC07!Recent(AzureC07!Resolved, date) = {})
  BY AzureC07Chosen DEF date
<1>3. AzureC07!Resolved \subseteq AzureC07!Named /\ (AzureC07!Dropped = {}
        => AzureC07!Resolved = AzureC07!Named)
  BY DEF AzureC07!Resolved
<1>4. AzureC07!Recent(world.history.releases, date) = AzureC07!Recent(AzureC07!Named, date)
  BY <1>1 DEF AzureC07!Recent, AzureC07!Named
<1>5. S \subseteq AzureC07!Recent(world.history.releases, date)
        /\ S \subseteq {q \in world.history.releases : q.named}
  BY <1>1, <1>2, <1>3 DEF AzureC07!Recent, AzureC07!Named
<1>6. AzureC07!Dropped = {} => S \in AzureC07!Selections(world.history.releases, date)
  BY <1>3, <1>4 DEF AzureC07!Selections, date
<1> QED
  BY <1>1, <1>2, <1>3, <1>4, <1>5, <1>6 DEF date

\* What the answers in hand make of the pipelines depends on those about the pipelines alone.
LEMMA AzureC07Stable ==
  ASSUME \A t \in Tool : /\ heard'[<<"definition", t>>] = heard[<<"definition", t>>]
                         /\ heard'[<<"file", t>>] = heard[<<"file", t>>]
  PROVE  /\ AzureC07!Ours' = AzureC07!Ours /\ AzureC07!Read' = AzureC07!Read
         /\ AzureC07!Matched' = AzureC07!Matched /\ AzureC07!Skipped' = AzureC07!Skipped
         /\ \A t \in Tool : AzureC07!HasFile(t)' <=> AzureC07!HasFile(t)
<1>1. \A t \in Tool : AzureC07!HasFile(t)' <=> AzureC07!HasFile(t)
  BY DEF AzureC07!HasFile, AzureC07!Definition, AzureC07!Got
<1>2. AzureC07!Ours' = AzureC07!Ours
  BY DEF AzureC07!Ours, AzureC07!Definition, AzureC07!Got
<1>3. AzureC07!Ours \subseteq Tool
  BY DEF AzureC07!Ours
<1>4. AzureC07!Read' = AzureC07!Read
  BY <1>1, <1>2, <1>3 DEF AzureC07!Read, AzureC07!Got
<1>5. AzureC07!Read \subseteq Tool
  BY <1>3 DEF AzureC07!Read
<1>6. AzureC07!Matched' = AzureC07!Matched
  BY <1>4, <1>5 DEF AzureC07!Matched, AzureC07!Content
<1>7. AzureC07!Skipped' = AzureC07!Skipped
  BY <1>1, <1>2, <1>3, <1>4 DEF AzureC07!Skipped, AzureC07!Content, AzureC07!Definition
<1> QED
  BY <1>1, <1>2, <1>4, <1>6, <1>7

\* An answer about the pipelines or the tags is the true one, and comes in order.
AzureC07Told(c, answer) ==
  /\ c = <<"repositories">> => answer = world.found
  /\ c = <<"pipelines">> => Got(<<"repositories">>)
  /\ \A t \in Tool : c = <<"definition", t>> => answer = world.pipeline[t] /\ Got(<<"pipelines">>)
  /\ \A t \in Tool : c = <<"file", t>> =>
       /\ answer = [found |-> world.pipeline[t].file, template |-> world.pipeline[t].template]
       /\ AzureC07!HasFile(t)
  /\ c = <<"releases">> => answer = world.history.releases /\ AzureC07Inspected

LEMMA AzureC07ReadsOfPipelines ==
  ASSUME AzureC07Inv, NEW c \in AzureC07!ProvCall, NEW answer, Get(c, answer), AzureC07Told(c, answer)
  PROVE  /\ AzureC07HeardOfPipelines' /\ AzureC07!ProvTypeOK' /\ AzureC07!AccountedFor'
         /\ AzureC07Inspected => /\ AzureC07Inspected' /\ AzureC07!Matched' = AzureC07!Matched
                          /\ AzureC07!Skipped' = AzureC07!Skipped /\ AzureC07!Read' = AzureC07!Read
<1>1. PICK a \in {answer, Failed} : heard' = [heard EXCEPT ![c] = a]
  BY DEF Get
<1>2. heard[c] = Unasked /\ status = Undecided /\ UNCHANGED <<world, status, seen>>
  BY DEF Get
<1>3. AzureC07!ProvTypeOK' /\ AzureC07!AccountedFor'
  BY <1>1, <1>2 DEF AzureC07Inv, AzureC07!ProvTypeOK, AzureC07!SurveyTypeOK, AzureC07!AccountedFor
<1>4. DOMAIN heard = AzureC07!ProvCall
  BY DEF AzureC07Inv, AzureC07!ProvTypeOK, AzureC07!SurveyTypeOK
<1>5. /\ {<<"repositories">>, <<"pipelines">>, <<"releases">>} \subseteq AzureC07!ProvCall
      /\ \A t \in Tool : <<"definition", t>> \in AzureC07!ProvCall /\ <<"file", t>> \in AzureC07!ProvCall
  BY DEF AzureC07!ProvCall, AzureC07!Call
<1>6. \A d \in AzureC07!ProvCall : heard'[d] = IF d = c THEN a ELSE heard[d]
  BY <1>1, <1>4
<1>7. seen' = {world'} /\ world' = world
  BY <1>2 DEF AzureC07Inv, AzureC07Heard, AzureC07HeardOfPipelines
<1>8. /\ heard'[<<"repositories">>] \in Outcomes({world'.found})
      /\ heard'[<<"releases">>] \in Outcomes({world'.history.releases})
  BY <1>5, <1>6, <1>7 DEF AzureC07Inv, AzureC07Heard, AzureC07HeardOfPipelines, Outcomes,
     AzureC07Told
<1>9. ASSUME NEW t \in Tool
      PROVE  heard'[<<"definition", t>>] \in Outcomes({world'.pipeline[t]})
  <2>1. \/ heard'[<<"definition", t>>] = heard[<<"definition", t>>]
        \/ heard'[<<"definition", t>>] \in {world.pipeline[t], Failed}
    BY <1>5, <1>6 DEF AzureC07Told
  <2>2. heard[<<"definition", t>>] \in Outcomes({world.pipeline[t]})
    BY DEF AzureC07Inv, AzureC07Heard, AzureC07HeardOfPipelines
  <2> QED
    BY <2>1, <2>2, <1>7 DEF Outcomes
<1>10. ASSUME NEW t \in Tool
       PROVE  heard'[<<"file", t>>] \in
                Outcomes({[found |-> world'.pipeline[t].file, template |-> world'.pipeline[t].template]})
  <2> DEFINE content == [found |-> world.pipeline[t].file, template |-> world.pipeline[t].template]
  <2>1. heard'[<<"file", t>>] = heard[<<"file", t>>] \/ heard'[<<"file", t>>] \in {content, Failed}
    BY <1>5, <1>6 DEF AzureC07Told
  <2>2. heard[<<"file", t>>] \in Outcomes({content})
    BY DEF AzureC07Inv, AzureC07Heard, AzureC07HeardOfPipelines
  <2>3. content = [found |-> world'.pipeline[t].file, template |-> world'.pipeline[t].template]
    BY <1>7
  <2> HIDE DEF content
  <2> QED
    BY <2>1, <2>2, <2>3 DEF Outcomes
<1>11. \A d \in AzureC07!ProvCall : Got(d) => Got(d)' /\ d # c
  BY <1>6, <1>2 DEF Got
\* Once the releases have been asked for, the pipelines are what they are.
<1>12. ASSUME AzureC07Inspected
       PROVE  /\ AzureC07Inspected' /\ AzureC07!Matched' = AzureC07!Matched
              /\ AzureC07!Skipped' = AzureC07!Skipped /\ AzureC07!Read' = AzureC07!Read
  <2>1. \A t \in Tool : c # <<"definition", t>> /\ (AzureC07!HasFile(t) => c # <<"file", t>>)
    BY <1>12, <1>2 DEF AzureC07Inspected
  <2>2. \A t \in Tool : c # <<"file", t>>
    BY <2>1 DEF AzureC07Told
  <2>3. \A t \in Tool : /\ heard'[<<"definition", t>>] = heard[<<"definition", t>>]
                        /\ heard'[<<"file", t>>] = heard[<<"file", t>>]
    BY <2>1, <2>2, <1>5, <1>6
  <2>4. Got(<<"repositories">>)' /\ Got(<<"pipelines">>)'
    BY <1>5, <1>11, <1>12 DEF AzureC07Inspected
  <2> QED
    BY <2>3, <2>4, <1>12, AzureC07Stable DEF AzureC07Inspected
<1>13. heard'[<<"releases">>] # Unasked => AzureC07Inspected'
  BY <1>5, <1>6, <1>12 DEF AzureC07Inv, AzureC07Heard, AzureC07HeardOfPipelines, AzureC07Told
<1>14. Got(<<"pipelines">>)' => Got(<<"repositories">>)'
  BY <1>5, <1>6, <1>11 DEF AzureC07Inv, AzureC07Heard, AzureC07HeardOfPipelines, AzureC07Told, Got
<1> QED
  BY <1>3, <1>7, <1>8, <1>9, <1>10, <1>12, <1>13, <1>14 DEF AzureC07HeardOfPipelines

AzureC07ToldOfBuilds(c, answer) ==
  /\ c = <<"builds">> => /\ answer = {x \in world.history.runs : x.at >= AzureC07!SearchStart}
                         /\ Got(<<"releases">>) /\ AzureC07!Dated
  /\ \A r \in Release : c = <<"annotation", r>> =>
       Got(<<"releases">>) /\ r \in AzureC07!Named /\ r.annotated
  /\ \A r \in Release : c = <<"commit", r>> =>
       /\ Got(<<"releases">>) /\ r \in AzureC07!Named
       /\ r.annotated => heard[<<"annotation", r>>] = Failed

\* The date builds are asked for from depends on the releases and their dates alone.
LEMMA AzureC07SameStart ==
  ASSUME heard'[<<"releases">>] = heard[<<"releases">>],
         \A r \in Release : /\ heard'[<<"annotation", r>>] = heard[<<"annotation", r>>]
                            /\ heard'[<<"commit", r>>] = heard[<<"commit", r>>],
         AzureC07!Named \subseteq Release
  PROVE  /\ AzureC07!Named' = AzureC07!Named /\ AzureC07!date' = AzureC07!date
              /\ AzureC07!SearchStart' = AzureC07!SearchStart
         /\ AzureC07!Dropped' = AzureC07!Dropped /\ AzureC07!Resolved' = AzureC07!Resolved
         /\ AzureC07!Dated' <=> AzureC07!Dated
<1>1. AzureC07!Named' = AzureC07!Named
  BY DEF AzureC07!Named
<1>2. AzureC07!date' = AzureC07!date
  BY DEF AzureC07!date
<1>3. AzureC07!Dropped' = AzureC07!Dropped
  BY <1>1 DEF AzureC07!Dropped
<1>4. AzureC07!Resolved' = AzureC07!Resolved
  BY <1>1, <1>3 DEF AzureC07!Resolved
<1>5. AzureC07!Oldest' = AzureC07!Oldest
  BY <1>2, <1>4 DEF AzureC07!Oldest
<1>6. AzureC07!SearchStart' = AzureC07!SearchStart
  BY <1>5 DEF AzureC07!SearchStart
<1>7. AzureC07!Dated' <=> AzureC07!Dated
  BY <1>1 DEF AzureC07!Dated, AzureC07!Got
<1> QED
  BY <1>1, <1>2, <1>3, <1>4, <1>6, <1>7

LEMMA AzureC07NamedAre ==
  ASSUME AzureC07Inv, Got(<<"releases">>)
  PROVE  AzureC07!Named \subseteq Release
<1>1. heard[<<"releases">>] = world.history.releases
  BY DEF AzureC07Inv, AzureC07Heard, AzureC07HeardOfPipelines, Outcomes, Got
<1>2. world.history \in AzureC07!Histories
  BY HistoryAssumption DEF AzureC07Inv, AzureC07!ProvTypeOK, AzureC07!SurveyTypeOK,
     AzureC07!Worlds, AzureC07!Histories, GitHubC06!Histories
<1>3. world.history.releases \subseteq Release
  BY <1>2 DEF AzureC07!Histories
<1> QED
  BY <1>1, <1>3 DEF AzureC07!Named

LEMMA AzureC07Reads ==
  ASSUME AzureC07Inv, NEW c \in AzureC07!ProvCall, NEW answer, Get(c, answer), AzureC07Told(c, answer),
           AzureC07ToldOfBuilds(c, answer)
  PROVE  AzureC07Inv'
<1>1. PICK a \in {answer, Failed} : heard' = [heard EXCEPT ![c] = a]
  BY DEF Get
<1>2. heard[c] = Unasked /\ status = Undecided /\ UNCHANGED <<world, status, seen>>
  BY DEF Get
<1>3. DOMAIN heard = AzureC07!ProvCall
  BY DEF AzureC07Inv, AzureC07!ProvTypeOK, AzureC07!SurveyTypeOK
<1>4. \A d \in AzureC07!ProvCall : heard'[d] = IF d = c THEN a ELSE heard[d]
  BY <1>1, <1>3
<1>5. /\ <<"releases">> \in AzureC07!ProvCall /\ <<"builds">> \in AzureC07!ProvCall
      /\ \A r \in Release : <<"annotation", r>> \in AzureC07!ProvCall /\ <<"commit", r>> \in AzureC07!ProvCall
  BY DEF AzureC07!ProvCall, AzureC07!Call
<1>6. \A d \in AzureC07!ProvCall : Got(d) => Got(d)' /\ d # c /\ heard'[d] = heard[d]
  BY <1>4, <1>2 DEF Got
<1>7. Got(<<"releases">>) => AzureC07!Named' = AzureC07!Named
  BY <1>5, <1>6 DEF AzureC07!Named
<1>8. ASSUME NEW r \in Release, heard'[<<"annotation", r>>] # Unasked
      PROVE  Got(<<"releases">>)' /\ r \in AzureC07!Named' /\ r.annotated
  <2>1. Got(<<"releases">>) /\ r \in AzureC07!Named /\ r.annotated
    BY <1>4, <1>5, <1>8 DEF AzureC07Inv, AzureC07Heard, AzureC07HeardOfBuilds, AzureC07ToldOfBuilds
  <2> QED
    BY <2>1, <1>5, <1>6, <1>7
<1>9. ASSUME NEW r \in Release, heard'[<<"commit", r>>] # Unasked
      PROVE  /\ Got(<<"releases">>)' /\ r \in AzureC07!Named'
             /\ r.annotated => heard'[<<"annotation", r>>] = Failed
  <2>1. /\ Got(<<"releases">>) /\ r \in AzureC07!Named
        /\ r.annotated => heard[<<"annotation", r>>] = Failed
    BY <1>4, <1>5, <1>9 DEF AzureC07Inv, AzureC07Heard, AzureC07HeardOfBuilds, AzureC07ToldOfBuilds
  <2>2. heard[<<"annotation", r>>] = Failed => heard'[<<"annotation", r>>] = Failed
    BY <1>2, <1>4, <1>5, MarkersAssumption
  <2> QED
    BY <2>1, <2>2, <1>5, <1>6, <1>7
\* Once all tags are dated, the date is what it is.
<1>10. ASSUME Got(<<"releases">>), AzureC07!Dated
       PROVE  AzureC07!SearchStart' = AzureC07!SearchStart /\ AzureC07!Dated'
  <2>1. \A r \in AzureC07!Named : Got(<<"annotation", r>>) \/ heard[<<"commit", r>>] # Unasked
    BY <1>10 DEF AzureC07!Dated, AzureC07!Got, Got
  <2>2. ASSUME NEW r \in Release
        PROVE  c # <<"annotation", r>> /\ c # <<"commit", r>>
    <3>1. CASE c = <<"annotation", r>>
      <4>1. r \in AzureC07!Named /\ r.annotated
        BY <3>1 DEF AzureC07ToldOfBuilds
      <4>2. heard[<<"commit", r>>] # Unasked
        BY <1>2, <2>1, <3>1, <4>1 DEF Got
      <4>3. heard[<<"annotation", r>>] = Failed
        BY <4>1, <4>2 DEF AzureC07Inv, AzureC07Heard, AzureC07HeardOfBuilds
      <4> QED
        BY <1>2, <3>1, <4>3, MarkersAssumption
    <3>2. CASE c = <<"commit", r>>
      <4>1. r \in AzureC07!Named /\ (r.annotated => heard[<<"annotation", r>>] = Failed)
        BY <3>2 DEF AzureC07ToldOfBuilds
      <4>2. Got(<<"annotation", r>>)
        BY <1>2, <2>1, <3>2, <4>1
      <4>3. r.annotated
        BY <4>2 DEF AzureC07Inv, AzureC07Heard, AzureC07HeardOfBuilds, Got
      <4> QED
        BY <4>1, <4>2, <4>3 DEF Got
    <3> QED
      BY <3>1, <3>2
  <2>3. \A r \in Release : /\ heard'[<<"annotation", r>>] = heard[<<"annotation", r>>]
                           /\ heard'[<<"commit", r>>] = heard[<<"commit", r>>]
    BY <2>2, <1>4, <1>5
  <2>4. heard'[<<"releases">>] = heard[<<"releases">>] /\ AzureC07!Named \subseteq Release
    BY <1>5, <1>6, <1>10, AzureC07NamedAre
  <2> QED
    BY <2>3, <2>4, <1>10, AzureC07SameStart
<1>11. ASSUME heard'[<<"builds">>] # Unasked
       PROVE  Got(<<"releases">>) /\ AzureC07!Dated /\ Got(<<"releases">>)' /\ AzureC07!Dated'
  <2>1. Got(<<"releases">>) /\ AzureC07!Dated
    BY <1>4, <1>5, <1>11 DEF AzureC07Inv, AzureC07Heard, AzureC07HeardOfBuilds, AzureC07ToldOfBuilds
  <2> QED
    BY <2>1, <1>5, <1>6, <1>10
<1>12. heard'[<<"builds">>] \in Outcomes({{x \in world'.history.runs : x.at >= AzureC07!SearchStart'}})
  <2>1. CASE heard'[<<"builds">>] = Unasked
    BY <2>1 DEF Outcomes
  <2>2. CASE heard'[<<"builds">>] # Unasked
    <3> DEFINE answers == {x \in world.history.runs : x.at >= AzureC07!SearchStart}
    <3>1. AzureC07!SearchStart' = AzureC07!SearchStart /\ world' = world
      BY <2>2, <1>2, <1>10, <1>11
    <3>2. {x \in world'.history.runs : x.at >= AzureC07!SearchStart'} = answers
      BY <3>1
    <3>3. heard[<<"builds">>] \in Outcomes({answers}) /\ (c = <<"builds">> => answer = answers)
      BY DEF AzureC07Inv, AzureC07Heard, AzureC07HeardOfBuilds, AzureC07ToldOfBuilds
    <3> HIDE DEF answers
    <3>4. heard'[<<"builds">>] \in Outcomes({answers})
      BY <3>3, <1>4, <1>5 DEF Outcomes
    <3> QED
      BY <3>2, <3>4
  <2> QED
    BY <2>1, <2>2
<1>13. AzureC07HeardOfBuilds'
  BY <1>8, <1>9, <1>11, <1>12 DEF AzureC07HeardOfBuilds
<1> QED
  BY <1>13, AzureC07ReadsOfPipelines DEF AzureC07Inv, AzureC07Heard

LEMMA AzureC07Starts == AzureC07!ProvInit => AzureC07Inv
<1> SUFFICES ASSUME AzureC07!ProvInit PROVE AzureC07Inv
  OBVIOUS
<1>1. /\ world \in AzureC07!Worlds /\ seen = {world} /\ status = Undecided
      /\ heard = [c \in AzureC07!ProvCall |-> Unasked]
  BY SettingsAssumption DEF AzureC07!ProvInit, AzureC07!InitWith
<1>2. AzureC07!ProvTypeOK /\ AzureC07!AccountedFor
  BY <1>1 DEF AzureC07!ProvTypeOK, AzureC07!SurveyTypeOK, AzureC07!AccountedFor
<1>3. AzureC07HeardOfPipelines
  BY <1>1 DEF AzureC07HeardOfPipelines, Outcomes, Got, AzureC07!ProvCall, AzureC07!Call
<1>4. AzureC07HeardOfBuilds
  BY <1>1 DEF AzureC07HeardOfBuilds, Outcomes, Got, AzureC07!ProvCall, AzureC07!Call
<1> QED
  BY <1>2, <1>3, <1>4 DEF AzureC07Inv, AzureC07Heard

\* A step after which all answers are the same.
LEMMA AzureC07Same ==
  ASSUME AzureC07Inv, UNCHANGED <<world, heard, seen>>
  PROVE  /\ AzureC07Heard'
         /\ \A c, s : AzureC07!Accounted(c, s)' <=> AzureC07!Accounted(c, s)
<1>1. /\ AzureC07!Matched' = AzureC07!Matched /\ AzureC07!Skipped' = AzureC07!Skipped
           /\ AzureC07!Read' = AzureC07!Read
      /\ \A t \in Tool : AzureC07!HasFile(t)' <=> AzureC07!HasFile(t)
  BY AzureC07Stable
<1>2. /\ AzureC07!Named' = AzureC07!Named /\ AzureC07!date' = AzureC07!date
      /\ AzureC07!Dropped' = AzureC07!Dropped /\ AzureC07!BuildsLost' = AzureC07!BuildsLost
  BY DEF AzureC07!Named, AzureC07!date, AzureC07!Dropped, AzureC07!BuildsLost
<1>3. AzureC07!Resolved' = AzureC07!Resolved
  BY <1>2 DEF AzureC07!Resolved
<1>4. AzureC07!Oldest' = AzureC07!Oldest
  BY <1>2, <1>3 DEF AzureC07!Oldest
<1>5. AzureC07!SearchStart' = AzureC07!SearchStart
  BY <1>4 DEF AzureC07!SearchStart
<1>6. AzureC07!Dated' <=> AzureC07!Dated
  BY <1>2 DEF AzureC07!Dated, AzureC07!Got
<1>7. AzureC07Inspected' <=> AzureC07Inspected
  BY <1>1 DEF AzureC07Inspected, Got
<1>8. AzureC07Heard'
  <2>1. AzureC07HeardOfPipelines'
    BY <1>7 DEF AzureC07Inv, AzureC07Heard, AzureC07HeardOfPipelines, Got
  <2>2. AzureC07HeardOfBuilds'
    BY <1>2, <1>5, <1>6 DEF AzureC07Inv, AzureC07Heard, AzureC07HeardOfBuilds, Got
  <2> QED
    BY <2>1, <2>2 DEF AzureC07Heard
<1>9. AzureC07!NoEvidence' <=> AzureC07!NoEvidence
  <2>1. AzureC07!Inspected' <=> AzureC07!Inspected
    BY DEF AzureC07!Inspected, AzureC07!Asked, AzureC07!Got, AzureC07!HasFile, AzureC07!Definition
  <2> QED
    BY <2>1 DEF AzureC07!NoEvidence, AzureC07!Lost
<1>10. /\ AzureC07!Scanners(world)' = AzureC07!Scanners(world)
       /\ \A t : AzureC07!Plain(world, t)' <=> AzureC07!Plain(world, t)
  BY DEF AzureC07!Scanners, AzureC07!Plain
<1>11. /\ \A r : AzureC07!Built(r)' <=> AzureC07!Built(r)
       /\ \A r : AzureC07!BuiltLately(r)' <=> AzureC07!BuiltLately(r)
       /\ AzureC07!Unread' = AzureC07!Unread
  BY <1>5 DEF AzureC07!Built, AzureC07!BuiltLately, AzureC07!Unread, AzureC07!Lost
<1>13. AzureC07!Vouched' = AzureC07!Vouched
  BY <1>10, <1>11 DEF AzureC07!Vouched
<1>12. ASSUME NEW c, NEW s
       PROVE  AzureC07!Accounted(c, s)' <=> AzureC07!Accounted(c, s)
  BY <1>1, <1>2, <1>3, <1>9, <1>10, <1>11, <1>13 DEF AzureC07!Accounted, AzureC07!Rubric,
     AzureC07!Deviates
<1> QED
  BY <1>8, <1>12

LEMMA AzureC07WorkflowMeans ==
  ASSUME AzureC07Inv, AzureC07!Got(<<"releases">>), NEW v, v = AzureC07!Workflow
  PROVE  v \in Statuses /\ AzureC07!Accounted("workflow", v)
<1>1. heard[<<"releases">>] # Unasked
  BY DEF AzureC07!Got
<1>2. AzureC07!Strong => \E t \in AzureC07!Scanners(world) : world.pipeline[t].file = "strong"
  BY <1>1, AzureC07Tools DEF AzureC07!Strong
<1>3. AzureC07!Matched # {} => AzureC07!Scanners(world) # {}
  BY <1>1, AzureC07Tools
<1>4. AzureC07!Matched = {} => AzureC07!Scanners(world) \cap AzureC07!Read = {}
  BY <1>1, AzureC07Tools
<1>5. AzureC07!Skipped = {} /\ AzureC07!Matched = {} => Tool \ AzureC07!Unread \subseteq AzureC07!Vouched
  BY <1>1, AzureC07Tools DEF AzureC07!Lost, AzureC07!Unread, AzureC07!Vouched
<1>6. \/ v = Pass /\ AzureC07!Strong
      \/ v = Partial /\ AzureC07!Matched # {}
      \/ v = NotCheckable /\ AzureC07!Matched = {} /\ AzureC07!Skipped # {}
      \/ v = Fail /\ AzureC07!Matched = {} /\ AzureC07!Skipped = {}
  BY DEF AzureC07!Workflow, AzureC07!ToolVerdict, Pass, Fail, Partial, NotCheckable, AzureC07!Pass,
     AzureC07!Fail, AzureC07!Partial, AzureC07!NotCheckable
<1> QED
  BY <1>2, <1>3, <1>4, <1>5, <1>6 DEF AzureC07!Accounted, AzureC07!Rubric, AzureC07!Deviates,
     Statuses, Pass, Fail, Partial, NotCheckable, AzureC07!Pass, AzureC07!Fail, AzureC07!Partial,
     AzureC07!NotCheckable

LEMMA AzureC07CommitLinkageMeans ==
  ASSUME AzureC07Inv, AzureC07!Got(<<"releases">>), NEW S \in AzureC07!Selections(AzureC07!Resolved,
           AzureC07!date),
         AzureC07!Recent(AzureC07!Resolved, AzureC07!date) # {} => heard[<<"builds">>] # Unasked,
         NEW v, v = AzureC07!CommitLinkage(S)
  PROVE  v \in Statuses /\ AzureC07!Accounted("commit-linkage", v)
<1> USE DEF Pass, Fail, Partial, NotCheckable, AzureC07!Pass, AzureC07!Fail, AzureC07!Partial,
      AzureC07!NotCheckable
<1>1. heard[<<"builds">>] # Unasked /\ ~AzureC07!BuildsLost =>
        AzureC07!runs = {x \in world.history.runs : x.at >= AzureC07!SearchStart}
  BY DEF AzureC07!runs, AzureC07!Got, AzureC07!BuildsLost, AzureC07Inv, AzureC07Heard,
     AzureC07HeardOfBuilds, Outcomes
<1>2. S # {} => heard[<<"builds">>] # Unasked
  BY AzureC07Releases
<1>3. \/ v = Partial /\ S = {} /\ AzureC07!Dropped # {}
      \/ v = NotCheckable /\ S = {} /\ AzureC07!Dropped = {}
      \/ v = NotCheckable /\ AzureC07!BuildsLost
      \/ v = Fail /\ S # {} /\ ~AzureC07!BuildsLost /\ AzureC07!Unlinked(S) # {}
      \/ v = Partial /\ S # {} /\ ~AzureC07!BuildsLost /\ AzureC07!Unlinked(S) = {} /\ AzureC07!Dropped # {}
      \/ v = Pass /\ S # {} /\ ~AzureC07!BuildsLost /\ AzureC07!Unlinked(S) = {} /\ AzureC07!Dropped = {}
  BY DEF AzureC07!CommitLinkage
<1>4. S # {} /\ ~AzureC07!BuildsLost /\ AzureC07!Unlinked(S) = {} => \A r \in S : AzureC07!Built(r)
  BY <1>1, <1>2 DEF AzureC07!Unlinked, AzureC07!Built
<1>5. ASSUME S # {}, ~AzureC07!BuildsLost, AzureC07!Unlinked(S) # {}
      PROVE  \E r \in AzureC07!Recent(world.history.releases, AzureC07!date) : ~AzureC07!BuiltLately(r)
  <2>1. PICK r \in S : \A x \in AzureC07!runs : x.commit # r.commit
    BY <1>5 DEF AzureC07!Unlinked
  <2>2. ~AzureC07!BuiltLately(r)
    BY <1>1, <1>2, <1>5, <2>1 DEF AzureC07!BuiltLately
  <2> QED
    BY <2>1, <2>2, AzureC07Releases
<1>6. CASE v = Partial
  <2>1. AzureC07!Dropped # {} /\ \A r \in S : AzureC07!Built(r)
    BY <1>3, <1>4, <1>6
  <2> QED
    BY <1>6, <2>1 DEF AzureC07!Accounted, AzureC07!Rubric, Statuses
<1>7. CASE v = NotCheckable
  <2>1. AzureC07!BuildsLost \/ (AzureC07!Dropped = {} /\ AzureC07!Recent(world.history.releases,
          AzureC07!date) = {})
    BY <1>3, <1>7, AzureC07Releases
  <2> QED
    BY <1>7, <2>1 DEF AzureC07!Accounted, AzureC07!Rubric, Statuses
<1>8. CASE v = Fail
  <2>1. \E r \in AzureC07!Recent(world.history.releases, AzureC07!date) : ~AzureC07!BuiltLately(r)
    BY <1>3, <1>5, <1>8
  <2> QED
    BY <1>8, <2>1 DEF AzureC07!Accounted, AzureC07!Rubric, Statuses
<1>9. CASE v = Pass
  <2>1. AzureC07!Dropped = {} /\ \A r \in S : AzureC07!Built(r)
    BY <1>3, <1>4, <1>9
  <2>2. S \in AzureC07!Selections(world.history.releases, AzureC07!date)
    BY <2>1, AzureC07Releases
  <2> QED
    BY <1>9, <2>1, <2>2 DEF AzureC07!Accounted, AzureC07!Rubric, Statuses
<1> QED
  BY <1>3, <1>6, <1>7, <1>8, <1>9

LEMMA AzureC07Verdicts ==
  ASSUME AzureC07Inv, AzureC07!ProvDecide
  PROVE  /\ status' \in [AzureC07!Checks -> Statuses] /\ UNCHANGED <<world, heard, seen>>
         /\ \A c \in AzureC07!Checks : AzureC07!Accounted(c, status'[c])
<1>1. UNCHANGED <<world, heard, seen>>
  BY DEF AzureC07!ProvDecide, AzureC07!Emit
<1>2. CASE AzureC07!NoEvidence /\ status' = AzureC07!Nothing(AzureC07!Checks)
  BY <1>1, <1>2 DEF AzureC07!Nothing, AzureC07!Accounted, AzureC07!Rubric, Statuses, Pass, Fail,
     Partial, NotCheckable, AzureC07!Pass, AzureC07!Fail, AzureC07!Partial, AzureC07!NotCheckable
<1>3. ASSUME AzureC07!Got(<<"releases">>), AzureC07!Recent(AzureC07!Resolved, AzureC07!date) # {}
               => heard[<<"builds">>] # Unasked,
             NEW S \in AzureC07!Selections(AzureC07!Resolved, AzureC07!date),
             status' = [c \in AzureC07!Checks |-> CASE c = "workflow"       -> AzureC07!Workflow
                                             [] c = "commit-linkage" -> AzureC07!CommitLinkage(S)
                                             [] OTHER                -> AzureC07!Fixed]
      PROVE  /\ status' \in [AzureC07!Checks -> Statuses]
             /\ \A c \in AzureC07!Checks : AzureC07!Accounted(c, status'[c])
  <2>1. /\ status'["workflow"] = AzureC07!Workflow /\ status'["commit-linkage"] = AzureC07!CommitLinkage(S)
        /\ \A c \in {"tags-signed", "checksums", "signatures"} : status'[c] = AzureC07!Fixed
        /\ status' = [c \in AzureC07!Checks |-> status'[c]]
    BY <1>3 DEF AzureC07!Checks
  <2>2. status'["workflow"] \in Statuses /\ AzureC07!Accounted("workflow", status'["workflow"])
    BY <1>3, <2>1, AzureC07WorkflowMeans
  <2>3. status'["commit-linkage"] \in Statuses /\ AzureC07!Accounted("commit-linkage",
          status'["commit-linkage"])
    BY <1>3, <2>1, AzureC07CommitLinkageMeans
  <2>4. \A c \in {"tags-signed", "checksums", "signatures"} :
          AzureC07!Fixed \in Statuses /\ AzureC07!Accounted(c, AzureC07!Fixed)
    BY DEF AzureC07!Fixed, AzureC07!Accounted, AzureC07!Rubric, Statuses, Pass, Fail, Partial,
       NotCheckable, AzureC07!Pass, AzureC07!Fail, AzureC07!Partial, AzureC07!NotCheckable
  <2> QED
    BY <2>1, <2>2, <2>3, <2>4 DEF AzureC07!Checks
<1> QED
  BY <1>1, <1>2, <1>3 DEF AzureC07!ProvDecide, AzureC07!Emit, AzureC07!Heard

LEMMA AzureC07Goes == AzureC07Inv /\ [AzureC07!ProvNext]_vars => AzureC07Inv'
<1> SUFFICES ASSUME AzureC07Inv, [AzureC07!ProvNext]_vars PROVE AzureC07Inv'
  OBVIOUS
<1>1. CASE AzureC07!ReadRepositories
  <2>1. Get(<<"repositories">>, world.found) /\ <<"repositories">> \in AzureC07!ProvCall
    BY <1>1 DEF AzureC07!ReadRepositories, AzureC07!Get, Get, AzureC07!ProvCall, AzureC07!Call
  <2> QED
    BY <2>1, AzureC07Reads DEF AzureC07Told, AzureC07ToldOfBuilds
<1>2. CASE AzureC07!ListPipelines
  <2>1. Get(<<"pipelines">>, TRUE) /\ Got(<<"repositories">>) /\ <<"pipelines">> \in AzureC07!ProvCall
    BY <1>2 DEF AzureC07!ListPipelines, AzureC07!Get, Get, AzureC07!ProvCall, AzureC07!Call,
       AzureC07!Got, Got
  <2> QED
    BY <2>1, AzureC07Reads DEF AzureC07Told, AzureC07ToldOfBuilds
<1>3. ASSUME NEW t \in Tool, AzureC07!FetchDefinition(t)
      PROVE  AzureC07Inv'
  <2>1. /\ Get(<<"definition", t>>, world.pipeline[t]) /\ Got(<<"pipelines">>)
        /\ <<"definition", t>> \in AzureC07!ProvCall
    BY <1>3 DEF AzureC07!FetchDefinition, AzureC07!Get, Get, AzureC07!ProvCall, AzureC07!Call,
       AzureC07!Got, Got
  <2> QED
    BY <2>1, AzureC07Reads DEF AzureC07Told, AzureC07ToldOfBuilds
<1>4. ASSUME NEW t \in Tool, AzureC07!FetchFile(t)
      PROVE  AzureC07Inv'
  <2> DEFINE content == [found |-> world.pipeline[t].file, template |-> world.pipeline[t].template]
  <2>1. Get(<<"file", t>>, content) /\ AzureC07!HasFile(t) /\ <<"file", t>> \in AzureC07!ProvCall
    BY <1>4 DEF AzureC07!FetchFile, AzureC07!Get, Get, AzureC07!ProvCall, AzureC07!Call
  <2>2. AzureC07Told(<<"file", t>>, content)
    BY <2>1 DEF AzureC07Told
  <2> HIDE DEF content
  <2> QED
    BY <2>1, <2>2, AzureC07Reads DEF AzureC07ToldOfBuilds
<1>5. CASE AzureC07!ListTags
  <2>1. /\ AzureC07!Inspected /\ heard[<<"repositories">>] /\ <<"releases">> \in AzureC07!ProvCall
        /\ Get(<<"releases">>, world.history.releases)
    BY <1>5 DEF AzureC07!ListTags, AzureC07!Get, Get, AzureC07!ProvCall, AzureC07!Call
  <2>2. Got(<<"repositories">>)
    BY <2>1 DEF AzureC07!Inspected, AzureC07!Got, Got, AzureC07Inv, AzureC07Heard,
       AzureC07HeardOfPipelines
  <2>3. AzureC07Inspected
    BY <2>1, <2>2 DEF AzureC07!Inspected, AzureC07!Asked, AzureC07!Got, Got, AzureC07Inspected
  <2> QED
    BY <2>1, <2>3, AzureC07Reads DEF AzureC07Told, AzureC07ToldOfBuilds
<1>6. ASSUME NEW r \in Release, AzureC07!FetchAnnotation(r)
      PROVE  AzureC07Inv'
  <2>1. /\ Get(<<"annotation", r>>, r.at) /\ <<"annotation", r>> \in AzureC07!ProvCall
        /\ Got(<<"releases">>) /\ r \in AzureC07!Named /\ r.annotated
    BY <1>6 DEF AzureC07!FetchAnnotation, AzureC07!Get, Get, AzureC07!ProvCall, AzureC07!Call,
       AzureC07!Got, Got
  <2> QED
    BY <2>1, AzureC07Reads DEF AzureC07Told, AzureC07ToldOfBuilds
<1>7. ASSUME NEW r \in Release, AzureC07!FetchCommit(r)
      PROVE  AzureC07Inv'
  <2>1. /\ Get(<<"commit", r>>, r.committed) /\ <<"commit", r>> \in AzureC07!ProvCall
        /\ Got(<<"releases">>) /\ r \in AzureC07!Named
        /\ r.annotated => heard[<<"annotation", r>>] = Failed
    BY <1>7 DEF AzureC07!FetchCommit, AzureC07!Get, Get, AzureC07!ProvCall, AzureC07!Call,
       AzureC07!Got, Got
  <2> QED
    BY <2>1, AzureC07Reads DEF AzureC07Told, AzureC07ToldOfBuilds
<1>8. CASE AzureC07!FetchAllBuilds
  <2> DEFINE answers == {x \in world.history.runs : x.at >= AzureC07!SearchStart}
  <2>1. /\ Get(<<"builds">>, answers) /\ <<"builds">> \in AzureC07!ProvCall
        /\ Got(<<"releases">>) /\ AzureC07!Dated
    BY <1>8 DEF AzureC07!FetchAllBuilds, AzureC07!Get, Get, AzureC07!ProvCall, AzureC07!Call,
       AzureC07!Got, Got
  <2>2. AzureC07Told(<<"builds">>, answers) /\ AzureC07ToldOfBuilds(<<"builds">>, answers)
    BY <2>1 DEF AzureC07Told, AzureC07ToldOfBuilds
  <2> HIDE DEF answers
  <2> QED
    BY <2>1, <2>2, AzureC07Reads
<1>9. CASE AzureC07!ProvDecide
  BY <1>9, AzureC07Verdicts, AzureC07Same DEF AzureC07Inv, AzureC07!ProvTypeOK,
     AzureC07!SurveyTypeOK, AzureC07!AccountedFor, Statuses, Pass, Fail, Partial, NotCheckable,
     AzureC07!Pass, AzureC07!Fail, AzureC07!Partial, AzureC07!NotCheckable
<1>10. CASE UNCHANGED vars
  BY <1>10, AzureC07Same DEF vars, AzureC07Inv, AzureC07!ProvTypeOK, AzureC07!SurveyTypeOK,
     AzureC07!AccountedFor
<1> QED
  BY <1>1, <1>2, <1>3, <1>4, <1>5, <1>6, <1>7, <1>8, <1>9, <1>10 DEF AzureC07!ProvNext
-----------------------------------------------------------------------------
\* The instances of a standard module have its operators under names of their own.
LEMMA SameCount ==
  ASSUME NEW S
  PROVE  C08!Cardinality(S) = Cardinality(S)
BY DEF C08!Cardinality, Cardinality
-----------------------------------------------------------------------------
(* C08.actions-security: on GitHub. *)
GitHubC08FilesRead == Got(<<"repository">>) /\ Got(<<"workflows">>)
  /\ \A t \in world.listed \cap Tool : heard[<<"file", t>>] # Unasked

GitHubC08Heard ==
  /\ heard[<<"repository">>] \in Outcomes({world.private})
  /\ heard[<<"workflows">>] \in Outcomes({world.listed})
  /\ \A t \in Tool : heard[<<"file", t>>] \in Outcomes({world.workflow[t]})
  /\ \A w \in Tool \cup Reusable : heard[<<"reusable", w>>] \in Outcomes({world.reusable[w]})
  /\ heard[<<"default">>] \in Outcomes({TRUE})
  /\ heard[<<"workflows">>] # Unasked => Got(<<"repository">>)
  /\ \A t \in Tool : heard[<<"file", t>>] # Unasked => t \in world.listed
  /\ heard[<<"default">>] # Unasked => GitHubC08FilesRead

GitHubC08Inv == C08!GitHubTypeOK /\ GitHubC08Heard /\ C08!GitHubAccountedFor

LEMMA GitHubC08Starts == C08!GitHubInit => GitHubC08Inv
BY SettingsAssumption DEF C08!GitHubInit, C08!InitWith, GitHubC08Inv, C08!GitHubTypeOK,
   C08!SurveyTypeOK, GitHubC08Heard, Outcomes, Got, C08!GitHubAccountedFor, C08!GitHubCall,
   GitHubC08FilesRead

LEMMA GitHubC08Same ==
  ASSUME UNCHANGED <<world, heard, seen>>
  PROVE  /\ GitHubC08Heard' <=> GitHubC08Heard
         /\ \A c, s : C08!GitHubAccounted(c, s)' <=> C08!GitHubAccounted(c, s)
<1>1. GitHubC08Heard' <=> GitHubC08Heard
  BY DEF GitHubC08Heard, Got, GitHubC08FilesRead
<1>2. \A c : (C08!Lost(c)' <=> C08!Lost(c)) /\ (C08!Got(c)' <=> C08!Got(c))
  BY DEF C08!Lost, C08!Got
<1>3. C08!Own' = C08!Own /\ C08!Present' = C08!Present
  BY <1>2 DEF C08!Own, C08!Present
<1>4. C08!Called' = C08!Called
  BY <1>3 DEF C08!Called
<1>5. C08!Whole' = C08!Whole
  <2>1. {t \in C08!Present : C08!Got(<<"file", t>>)}' = {t \in C08!Present : C08!Got(<<"file", t>>)}
    BY <1>2, <1>3
  <2>2. {world.workflow[t] : t \in C08!Present}' = {world.workflow[t] : t \in C08!Present}
    BY <1>3
  <2>3. (UNION {world.workflow[t].calls : t \in C08!Present})'
          = UNION {world.workflow[t].calls : t \in C08!Present}
    BY <1>3
  <2>4. QED
    BY <2>1, <2>2, <2>3 DEF C08!Whole
<1>6. C08!Resolved' = C08!Resolved
  BY <1>2, <1>4 DEF C08!Resolved
<1>7. (C08!Gap' <=> C08!Gap) /\ (C08!GiveUp' <=> C08!GiveUp)
  BY <1>2, <1>4, <1>6 DEF C08!Gap, C08!Skipped, C08!GiveUp
<1>8. {t \in Tool : C08!Lost(<<"file", t>>)}' = {t \in Tool : C08!Lost(<<"file", t>>)}
  BY <1>2
<1>10. C08!Read' = C08!Read
  <2>1. {heard[<<"file", t>>] : t \in C08!Own}' = {heard[<<"file", t>>] : t \in C08!Own}
    BY <1>3
  <2>2. {heard[<<"reusable", w>>] : w \in C08!Resolved}' = {heard[<<"reusable", w>>] : w \in C08!Resolved}
    BY <1>6
  <2>3. QED
    BY <2>1, <2>2 DEF C08!Read
<1>11. C08!logins' = C08!logins
  BY <1>10 DEF C08!logins
<1>9. \A c, s : C08!GitHubAccounted(c, s)' <=> C08!GitHubAccounted(c, s)
  BY <1>3, <1>5, <1>7, <1>8, <1>10, <1>11 DEF C08!GitHubAccounted, C08!GitHubRubric,
     C08!GitHubDeviates, C08!Every, C08!Any, C08!ThirdTag, C08!FirstTag, C08!Hosted
<1> QED
  BY <1>1, <1>9

LEMMA GitHubC08Reads ==
  ASSUME GitHubC08Inv, NEW c \in C08!GitHubCall, NEW a, Get(c, a),
         c = <<"repository">> => a = world.private,
         c = <<"workflows">> => a = world.listed /\ Got(<<"repository">>),
         \A t \in Tool : c = <<"file", t>> => a = world.workflow[t] /\ t \in world.listed,
         \A w \in Tool \cup Reusable : c = <<"reusable", w>> => a = world.reusable[w],
         c = <<"default">> => a = TRUE /\ GitHubC08FilesRead
  PROVE  GitHubC08Inv'
<1>1. /\ DOMAIN heard = C08!GitHubCall /\ DOMAIN heard' = C08!GitHubCall
      /\ heard[c] = Unasked /\ heard'[c] \in {a, Failed}
      /\ \A d \in C08!GitHubCall : heard'[d] = IF d = c THEN heard'[c] ELSE heard[d]
      /\ \A d \in C08!GitHubCall : heard[d] # Unasked => heard'[d] = heard[d] /\ d # c
      /\ status = Undecided /\ UNCHANGED <<world, status, seen>>
  BY Answer DEF GitHubC08Inv, C08!GitHubTypeOK, C08!SurveyTypeOK
<1>2. C08!GitHubTypeOK' /\ C08!GitHubAccountedFor'
  BY <1>1 DEF GitHubC08Inv, C08!GitHubTypeOK, C08!SurveyTypeOK, C08!GitHubAccountedFor
<1>3. /\ <<"repository">> \in C08!GitHubCall
      /\ <<"workflows">> \in C08!GitHubCall
      /\ \A t \in Tool : <<"file", t>> \in C08!GitHubCall
      /\ \A w \in Tool \cup Reusable : <<"reusable", w>> \in C08!GitHubCall
      /\ <<"default">> \in C08!GitHubCall
  BY DEF C08!GitHubCall
<1>4. heard'[<<"repository">>] \in Outcomes({world.private})
  BY <1>1, <1>3 DEF GitHubC08Inv, GitHubC08Heard, Outcomes
<1>5. heard'[<<"workflows">>] \in Outcomes({world.listed})
  BY <1>1, <1>3 DEF GitHubC08Inv, GitHubC08Heard, Outcomes
<1>6. \A t \in Tool : heard'[<<"file", t>>] \in Outcomes({world.workflow[t]})
  BY <1>1, <1>3 DEF GitHubC08Inv, GitHubC08Heard, Outcomes
<1>7. \A w \in Tool \cup Reusable : heard'[<<"reusable", w>>] \in Outcomes({world.reusable[w]})
  BY <1>1, <1>3 DEF GitHubC08Inv, GitHubC08Heard, Outcomes
<1>8. heard'[<<"default">>] \in Outcomes({TRUE})
  BY <1>1, <1>3 DEF GitHubC08Inv, GitHubC08Heard, Outcomes
<1>9. ASSUME heard'[<<"workflows">>] # Unasked
      PROVE  (Got(<<"repository">>))'
  <2>1. Got(<<"repository">>)
    BY <1>1, <1>3, <1>9 DEF GitHubC08Inv, GitHubC08Heard
  <2>2. QED
    BY <1>1, <1>3, <2>1 DEF Got, GitHubC08FilesRead
<1>10. ASSUME NEW t \in Tool, heard'[<<"file", t>>] # Unasked
      PROVE  (t \in world.listed)'
  <2>1. t \in world.listed
    BY <1>1, <1>3, <1>10 DEF GitHubC08Inv, GitHubC08Heard
  <2>2. QED
    BY <1>1, <1>3, <2>1 DEF Got, GitHubC08FilesRead
<1>11. ASSUME heard'[<<"default">>] # Unasked
      PROVE  GitHubC08FilesRead'
  <2>1. GitHubC08FilesRead
    BY <1>1, <1>3, <1>11 DEF GitHubC08Inv, GitHubC08Heard
  <2>2. QED
    BY <1>1, <1>3, <2>1 DEF Got, GitHubC08FilesRead
<1>12. GitHubC08Heard'
  BY <1>1, <1>4, <1>5, <1>6, <1>7, <1>8, <1>9, <1>10, <1>11 DEF GitHubC08Heard, GitHubC08FilesRead
<1> QED
  BY <1>2, <1>12 DEF GitHubC08Inv

\* What is judged is part of all there is to judge, and all of it where there is no gap.
LEMMA GitHubC08Judged ==
  ASSUME GitHubC08Inv, heard[<<"default">>] # Unasked
  PROVE  /\ C08!Read \subseteq C08!Whole /\ C08!Whole \subseteq C08!Units
         /\ ~C08!Gap => C08!Read = C08!Whole
         /\ C08!Read = {} => C08!Present \subseteq {t \in Tool : C08!Lost(<<"file", t>>)}
<1>1. /\ world.listed \subseteq Tool
      /\ \A t \in Tool : world.workflow[t] \in C08!Units \cup {Disabled}
      /\ \A w \in Tool \cup Reusable : world.reusable[w] \in C08!Units
  BY DEF GitHubC08Inv, C08!GitHubTypeOK, C08!SurveyTypeOK, C08!GitHubWorlds
<1>2. \A t \in world.listed : heard[<<"file", t>>] # Unasked
  BY <1>1 DEF GitHubC08Inv, GitHubC08Heard, GitHubC08FilesRead
<1>3. \A t \in Tool : C08!Got(<<"file", t>>) => heard[<<"file", t>>] = world.workflow[t] /\ t \in world.listed
  BY DEF C08!Got, GitHubC08Inv, GitHubC08Heard, Outcomes
<1>4. \A w \in Tool \cup Reusable : C08!Got(<<"reusable", w>>) => heard[<<"reusable", w>>] = world.reusable[w]
  BY DEF C08!Got, GitHubC08Inv, GitHubC08Heard, Outcomes
<1>5. C08!Own = {t \in C08!Present : C08!Got(<<"file", t>>)}
  BY <1>1, <1>3 DEF C08!Own, C08!Present
<1>6. \A t \in C08!Own : t \in C08!Present /\ heard[<<"file", t>>] = world.workflow[t]
  BY <1>1, <1>3, <1>5 DEF C08!Present
<1>7. \A t \in C08!Present : t \in Tool /\ world.workflow[t] \in C08!Units
  BY <1>1 DEF C08!Present
<1>8. UNION {world.workflow[t].calls : t \in C08!Present} \subseteq Tool \cup Reusable
  BY <1>7 DEF C08!Units
<1>9. C08!Called \subseteq (UNION {world.workflow[t].calls : t \in C08!Present}) \ C08!Own
  BY <1>6 DEF C08!Called
<1>10. C08!Whole = {world.workflow[t] : t \in C08!Present}
           \cup {world.reusable[w] : w \in (UNION {world.workflow[t].calls : t \in C08!Present}) \ C08!Own}
  BY <1>5 DEF C08!Whole
<1>11. \A w \in C08!Resolved : w \in C08!Called /\ heard[<<"reusable", w>>] = world.reusable[w]
  BY <1>4, <1>8, <1>9 DEF C08!Resolved
<1>12. C08!Read \subseteq C08!Whole
  BY <1>6, <1>9, <1>10, <1>11 DEF C08!Read
<1>13. C08!Whole \subseteq C08!Units
  BY <1>1, <1>7, <1>8, <1>10
<1>14. ASSUME ~C08!Gap PROVE C08!Read = C08!Whole
  <2>1. C08!Resolved = C08!Called /\ \A t \in Tool : ~C08!Lost(<<"file", t>>)
    BY <1>14 DEF C08!Gap, C08!Skipped, C08!Resolved
  <2>2. C08!Own = C08!Present
    BY <1>2, <1>5, <1>7, <2>1 DEF C08!Lost, C08!Got, C08!Present
  <2>3. C08!Called = (UNION {world.workflow[t].calls : t \in C08!Present}) \ C08!Own
    <3>1. {heard[<<"file", t>>].calls : t \in C08!Own} = {world.workflow[t].calls : t \in C08!Present}
      BY <1>6, <2>2
    <3>2. QED
      BY <3>1 DEF C08!Called
  <2>4. {heard[<<"file", t>>] : t \in C08!Own} = {world.workflow[t] : t \in C08!Present}
    BY <1>6, <2>2
  <2>5. {heard[<<"reusable", w>>] : w \in C08!Resolved} = {world.reusable[w] : w \in C08!Called}
    BY <1>11, <2>1
  <2>6. QED
    BY <1>10, <2>3, <2>4, <2>5 DEF C08!Read
<1>15. ASSUME C08!Read = {}, NEW t \in C08!Present PROVE t \in Tool /\ C08!Lost(<<"file", t>>)
  <2>1. t \notin C08!Own
    BY <1>15 DEF C08!Read
  <2>2. QED
    BY <1>2, <1>5, <1>7, <2>1 DEF C08!Lost, C08!Got, C08!Present
<1> QED
  BY <1>12, <1>13, <1>14, <1>15

LEMMA GitHubC08Verdicts ==
  ASSUME GitHubC08Inv, C08!GitHubDecide
  PROVE  /\ status' \in [C08!GitHubChecks -> Statuses] /\ UNCHANGED <<world, heard, seen>>
         /\ \A c \in C08!GitHubChecks : C08!GitHubAccounted(c, status'[c])
<1> USE DEF Pass, Fail, Partial, NotCheckable, C08!Pass, C08!Fail, C08!Partial, C08!NotCheckable
<1> DEFINE emitted == [c \in C08!GitHubChecks |->
     CASE c = "pinned"              -> C08!GitHubPinned
       [] c = "token-permissions"   -> C08!GitHubTokenPermissions
       [] c = "pull-request-target" -> C08!GitHubPullRequestTarget
       [] c = "oidc-vs-secrets"     -> C08!GitHubOIDCvsSecrets
       [] c = "self-hosted"         -> C08!GitHubSelfHosted]
<1>1. \/ C08!GiveUp /\ status' = C08!Nothing(C08!GitHubChecks)
      \/ C08!Heard({<<"default">>}) /\ status' = emitted
  BY DEF C08!GitHubDecide, C08!Emit
<1>2. UNCHANGED <<world, heard, seen>>
  BY DEF C08!GitHubDecide, C08!Emit
<1>3. CASE C08!GiveUp /\ status' = C08!Nothing(C08!GitHubChecks)
  BY <1>2, <1>3 DEF C08!Nothing, C08!GitHubAccounted, Statuses, C08!GitHubRubric
<1>4. CASE C08!Heard({<<"default">>}) /\ status' = emitted
  <2>1. /\ status'["pinned"] = C08!GitHubPinned
        /\ status'["token-permissions"] = C08!GitHubTokenPermissions
        /\ status'["pull-request-target"] = C08!GitHubPullRequestTarget
        /\ status'["oidc-vs-secrets"] = C08!GitHubOIDCvsSecrets
        /\ status'["self-hosted"] = C08!GitHubSelfHosted
        /\ status' = [c \in C08!GitHubChecks |-> status'[c]]
    BY <1>4 DEF C08!GitHubChecks
  <2>2. /\ C08!Read \subseteq C08!Whole /\ C08!Whole \subseteq C08!Units
        /\ ~C08!Gap => C08!Read = C08!Whole
        /\ C08!Read = {} => C08!Present \subseteq {t \in Tool : C08!Lost(<<"file", t>>)}
    <3>1. heard[<<"default">>] # Unasked
      BY <1>4 DEF C08!Heard
    <3>2. QED
      BY <3>1, GitHubC08Judged
  <2>3. heard[<<"repository">>] = world.private
    BY <1>4 DEF C08!Heard, GitHubC08Inv, GitHubC08Heard, GitHubC08FilesRead, Outcomes, Got
  <2>4. C08!Gap <=> C08!Skipped # {}
    BY DEF C08!Gap
  <2>5. \A u \in C08!Read : /\ u.permissions # {} /\ u.permissions \subseteq {"missing", "explicit",
                               "write-all"}
                            /\ u.target \in {"none", "bare", "head"} /\ u.logins \subseteq {"oidc",
                                 "static", "ambiguous"}
    BY <2>2 DEF C08!Units
  <2>6. C08!GitHubPinned \in Statuses /\ C08!GitHubAccounted("pinned", C08!GitHubPinned)
    BY <2>2, <2>4 DEF C08!GitHubAccounted, C08!GitHubRubric, C08!GitHubPinned, C08!Any, C08!Every,
       C08!Downgrade, C08!ThirdTag, C08!FirstTag, Statuses
  <2>7. C08!GitHubTokenPermissions \in Statuses /\ C08!GitHubAccounted("token-permissions",
          C08!GitHubTokenPermissions)
    <3>1. \A p : p \in C08!declared <=> \E u \in C08!Read : p \in u.permissions
      BY DEF C08!declared
    <3>2. CASE C08!Read = {}
      BY <2>2, <3>2 DEF C08!GitHubAccounted, C08!GitHubRubric, C08!GitHubTokenPermissions, Statuses
    <3>3. CASE C08!Read # {} /\ C08!declared = {"missing"}
      <4>1. \A u \in C08!Read : u.permissions = {"missing"}
        BY <2>5, <3>1, <3>3
      <4>2. QED
        BY <2>2, <3>3, <4>1 DEF C08!GitHubAccounted, C08!GitHubRubric, C08!GitHubDeviates,
           C08!GitHubTokenPermissions, C08!Every, Statuses
    <3>4. CASE C08!Read # {} /\ C08!declared # {"missing"}
      <4>1. PICK u \in C08!Read : u.permissions # {"missing"}
        BY <3>1, <3>4
      <4>2. CASE "missing" \in C08!declared \/ "write-all" \in C08!declared
        <5>1. PICK v \in C08!Read : v.permissions # {"explicit"}
          BY <3>1, <4>2
        <5>2. QED
          BY <2>2, <3>4, <4>1, <4>2, <5>1 DEF C08!GitHubAccounted, C08!GitHubRubric,
             C08!GitHubTokenPermissions, C08!Every, Statuses
      <4>3. CASE "missing" \notin C08!declared /\ "write-all" \notin C08!declared
        <5>1. \A v \in C08!Read : v.permissions = {"explicit"}
          BY <2>5, <3>1, <4>3
        <5>2. QED
          BY <2>2, <2>4, <3>4, <4>1, <4>3, <5>1 DEF C08!GitHubAccounted, C08!GitHubRubric,
             C08!GitHubTokenPermissions, C08!Every, C08!Downgrade, Statuses
      <4>4. QED
        BY <4>2, <4>3
    <3>5. QED
      BY <3>2, <3>3, <3>4
  <2>8. C08!GitHubPullRequestTarget \in Statuses /\ C08!GitHubAccounted("pull-request-target",
          C08!GitHubPullRequestTarget)
    BY <2>2, <2>4, <2>5 DEF C08!GitHubAccounted, C08!GitHubRubric, C08!GitHubPullRequestTarget,
       C08!Any, C08!Every, C08!Downgrade, Statuses
  <2>9. C08!GitHubOIDCvsSecrets \in Statuses /\ C08!GitHubAccounted("oidc-vs-secrets", C08!GitHubOIDCvsSecrets)
    <3>1. \A l : l \in C08!logins <=> \E u \in C08!Read : l \in u.logins
      BY DEF C08!logins
    <3>2. CASE C08!logins = {}
      BY <2>2, <2>4, <3>1, <3>2 DEF C08!GitHubAccounted, C08!GitHubRubric, C08!GitHubOIDCvsSecrets,
         C08!Downgrade, Statuses
    <3>3. CASE C08!logins # {}
      <4>1. C08!logins \subseteq {"oidc", "static", "ambiguous"}
        BY <2>5, <3>1
      <4>2. QED
        BY <2>2, <2>4, <3>1, <3>3, <4>1 DEF C08!GitHubAccounted, C08!GitHubRubric,
           C08!GitHubOIDCvsSecrets, C08!Downgrade, Statuses
    <3>4. QED
      BY <3>2, <3>3
  <2>10. C08!GitHubSelfHosted \in Statuses /\ C08!GitHubAccounted("self-hosted", C08!GitHubSelfHosted)
    BY <2>2, <2>3, <2>4 DEF C08!GitHubAccounted, C08!GitHubRubric, C08!GitHubSelfHosted, C08!Any,
       C08!Hosted, C08!Every, C08!Downgrade, Statuses
  <2> QED
    BY <1>2, <2>1, <2>6, <2>7, <2>8, <2>9, <2>10 DEF C08!GitHubChecks
<1> QED
  BY <1>1, <1>3, <1>4

LEMMA GitHubC08Goes == GitHubC08Inv /\ [C08!GitHubNext]_vars => GitHubC08Inv'
<1> SUFFICES ASSUME GitHubC08Inv, [C08!GitHubNext]_vars PROVE GitHubC08Inv'
  OBVIOUS
<1>1. CASE C08!ReadRepository
  <2>1. Get(<<"repository">>, world.private)
    BY <1>1 DEF C08!ReadRepository, C08!Ask, C08!Get, Get
  <2>2. <<"repository">> \in C08!GitHubCall
    BY DEF C08!GitHubCall
  <2>3. QED
    BY <2>1, <2>2, GitHubC08Reads
<1>2. CASE C08!ListWorkflows
  <2>1. Get(<<"workflows">>, world.listed) /\ Got(<<"repository">>)
    BY <1>2 DEF C08!ListWorkflows, C08!Ask, C08!Get, Get, C08!Got, Got
  <2>2. <<"workflows">> \in C08!GitHubCall
    BY DEF C08!GitHubCall
  <2>3. QED
    BY <2>1, <2>2, GitHubC08Reads
<1>3. CASE C08!ReadDefault
  <2>1. Got(<<"workflows">>) => heard[<<"workflows">>] = world.listed /\ Got(<<"repository">>)
    BY DEF GitHubC08Inv, GitHubC08Heard, Outcomes, Got
  <2>2. C08!FilesRead /\ Get(<<"default">>, TRUE)
    BY <1>3 DEF C08!ReadDefault, C08!AllResolved, C08!Ask, C08!Get, Get
  <2>3. Got(<<"workflows">>) /\ \A t \in heard[<<"workflows">>] : heard[<<"file", t>>] # Unasked
    BY <2>2 DEF C08!FilesRead, C08!GitHubListed, C08!Heard, C08!Got, Got
  <2>4. GitHubC08FilesRead
    BY <2>1, <2>3 DEF GitHubC08FilesRead
  <2>5. <<"default">> \in C08!GitHubCall
    BY DEF C08!GitHubCall
  <2>6. QED
    BY <2>2, <2>4, <2>5, GitHubC08Reads
<1>4. ASSUME NEW t \in Tool, C08!ReadFile(t) PROVE GitHubC08Inv'
  <2>1. Get(<<"file", t>>, world.workflow[t]) /\ t \in world.listed
    BY <1>4 DEF C08!ReadFile, C08!Ask, C08!Get, Get, C08!GitHubListed, C08!Got, GitHubC08Inv,
       GitHubC08Heard, Outcomes
  <2>2. <<"file", t>> \in C08!GitHubCall
    BY DEF C08!GitHubCall
  <2>3. QED
    BY <2>1, <2>2, GitHubC08Reads
<1>5. ASSUME NEW w \in Tool \cup Reusable, C08!Resolve(w) PROVE GitHubC08Inv'
  <2>1. Get(<<"reusable", w>>, world.reusable[w])
    BY <1>5 DEF C08!Resolve, C08!Ask, C08!Get, Get
  <2>2. <<"reusable", w>> \in C08!GitHubCall
    BY DEF C08!GitHubCall
  <2>3. QED
    BY <2>1, <2>2, GitHubC08Reads
<1>6. CASE C08!GitHubDecide
  BY <1>6, GitHubC08Verdicts, GitHubC08Same DEF GitHubC08Inv, C08!GitHubTypeOK, C08!SurveyTypeOK,
     C08!GitHubAccountedFor, Statuses, Pass, Fail, Partial, NotCheckable, C08!Pass, C08!Fail,
     C08!Partial, C08!NotCheckable
<1>7. CASE UNCHANGED vars
  BY <1>7, GitHubC08Same DEF vars, GitHubC08Inv, C08!GitHubTypeOK, C08!SurveyTypeOK,
     C08!GitHubAccountedFor
<1> QED
  BY <1>1, <1>2, <1>3, <1>4, <1>5, <1>6, <1>7 DEF C08!GitHubNext
-----------------------------------------------------------------------------
(* C08.actions-security: on Azure DevOps. *)
AzureC08Asked == heard[<<"settings">>] # Unasked /\ heard[<<"endpoints">>] # Unasked
AzureC08PoolsRead ==
  \/ heard[<<"pipelines">>] = Failed \/ \E t \in Tool : heard[<<"definition", t>>] = Failed
  \/ Got(<<"pipelines">>) /\ \A t \in world.definitions \cap Tool : heard[<<"definition", t>>] # Unasked

AzureC08Heard ==
  /\ heard[<<"settings">>] \in Outcomes({world.flags})
  /\ heard[<<"endpoints">>] \in Outcomes({world.schemes})
  /\ heard[<<"pipelines">>] \in Outcomes({world.definitions})
  /\ \A t \in Tool : heard[<<"definition", t>>] \in Outcomes({world.pool[t]})
  /\ heard[<<"visibility">>] \in Outcomes({world.public})
  /\ heard[<<"endpoints">>] # Unasked => heard[<<"settings">>] # Unasked
  /\ heard[<<"pipelines">>] # Unasked => heard[<<"endpoints">>] # Unasked
  /\ \A t \in Tool : heard[<<"definition", t>>] # Unasked => Got(<<"pipelines">>) /\ t \in world.definitions
  /\ heard[<<"visibility">>] # Unasked => AzureC08Asked /\ AzureC08PoolsRead

AzureC08Inv == C08!AzureTypeOK /\ AzureC08Heard /\ C08!AzureRubricHolds

LEMMA AzureC08Starts == C08!AzureInit => AzureC08Inv
BY SettingsAssumption DEF C08!AzureInit, C08!InitWith, AzureC08Inv, C08!AzureTypeOK,
   C08!SurveyTypeOK, AzureC08Heard, Outcomes, Got, C08!AzureRubricHolds, C08!AzureCall,
   AzureC08PoolsRead, AzureC08Asked

LEMMA AzureC08Same ==
  ASSUME UNCHANGED <<world, heard, seen>>
  PROVE  /\ AzureC08Heard' <=> AzureC08Heard
         /\ \A c, s : C08!AzureRubric(c, s)' <=> C08!AzureRubric(c, s)
<1>1. AzureC08Heard' <=> AzureC08Heard
  BY DEF AzureC08Heard, Got, AzureC08PoolsRead, AzureC08Asked
<1>2. \A c, s : C08!AzureRubric(c, s)' <=> C08!AzureRubric(c, s)
  BY DEF C08!AzureRubric, C08!Lost, C08!flags, C08!schemes, C08!Exposed, C08!PoolsLost,
     C08!AzureListed, C08!Got
<1> QED
  BY <1>1, <1>2

LEMMA AzureC08Reads ==
  ASSUME AzureC08Inv, NEW c \in C08!AzureCall, NEW a, Get(c, a),
         c = <<"settings">> => a = world.flags,
         c = <<"endpoints">> => a = world.schemes /\ heard[<<"settings">>] # Unasked,
         c = <<"pipelines">> => a = world.definitions /\ heard[<<"endpoints">>] # Unasked,
         \A t \in Tool : c = <<"definition", t>> => a = world.pool[t] /\ Got(<<"pipelines">>)
           /\ t \in world.definitions,
         c = <<"visibility">> => a = world.public /\ AzureC08Asked /\ AzureC08PoolsRead
  PROVE  AzureC08Inv'
<1>1. /\ DOMAIN heard = C08!AzureCall /\ DOMAIN heard' = C08!AzureCall
      /\ heard[c] = Unasked /\ heard'[c] \in {a, Failed}
      /\ \A d \in C08!AzureCall : heard'[d] = IF d = c THEN heard'[c] ELSE heard[d]
      /\ \A d \in C08!AzureCall : heard[d] # Unasked => heard'[d] = heard[d] /\ d # c
      /\ status = Undecided /\ UNCHANGED <<world, status, seen>>
  BY Answer DEF AzureC08Inv, C08!AzureTypeOK, C08!SurveyTypeOK
<1>2. C08!AzureTypeOK' /\ C08!AzureRubricHolds'
  BY <1>1 DEF AzureC08Inv, C08!AzureTypeOK, C08!SurveyTypeOK, C08!AzureRubricHolds
<1>3. /\ <<"settings">> \in C08!AzureCall
      /\ <<"endpoints">> \in C08!AzureCall
      /\ <<"pipelines">> \in C08!AzureCall
      /\ \A t \in Tool : <<"definition", t>> \in C08!AzureCall
      /\ <<"visibility">> \in C08!AzureCall
  BY DEF C08!AzureCall
<1>4. heard'[<<"settings">>] \in Outcomes({world.flags})
  BY <1>1, <1>3 DEF AzureC08Inv, AzureC08Heard, Outcomes
<1>5. heard'[<<"endpoints">>] \in Outcomes({world.schemes})
  BY <1>1, <1>3 DEF AzureC08Inv, AzureC08Heard, Outcomes
<1>6. heard'[<<"pipelines">>] \in Outcomes({world.definitions})
  BY <1>1, <1>3 DEF AzureC08Inv, AzureC08Heard, Outcomes
<1>7. \A t \in Tool : heard'[<<"definition", t>>] \in Outcomes({world.pool[t]})
  BY <1>1, <1>3 DEF AzureC08Inv, AzureC08Heard, Outcomes
<1>8. heard'[<<"visibility">>] \in Outcomes({world.public})
  BY <1>1, <1>3 DEF AzureC08Inv, AzureC08Heard, Outcomes
<1>9. ASSUME heard'[<<"endpoints">>] # Unasked
      PROVE  (heard[<<"settings">>] # Unasked)'
  <2>1. heard[<<"settings">>] # Unasked
    BY <1>1, <1>3, <1>9 DEF AzureC08Inv, AzureC08Heard
  <2>2. QED
    BY <1>1, <1>3, <2>1, MarkersAssumption DEF Got, AzureC08PoolsRead, AzureC08Asked
<1>10. ASSUME heard'[<<"pipelines">>] # Unasked
      PROVE  (heard[<<"endpoints">>] # Unasked)'
  <2>1. heard[<<"endpoints">>] # Unasked
    BY <1>1, <1>3, <1>10 DEF AzureC08Inv, AzureC08Heard
  <2>2. QED
    BY <1>1, <1>3, <2>1, MarkersAssumption DEF Got, AzureC08PoolsRead, AzureC08Asked
<1>11. ASSUME NEW t \in Tool, heard'[<<"definition", t>>] # Unasked
      PROVE  (Got(<<"pipelines">>) /\ t \in world.definitions)'
  <2>1. Got(<<"pipelines">>) /\ t \in world.definitions
    BY <1>1, <1>3, <1>11 DEF AzureC08Inv, AzureC08Heard
  <2>2. QED
    BY <1>1, <1>3, <2>1, MarkersAssumption DEF Got, AzureC08PoolsRead, AzureC08Asked
<1>12. ASSUME heard'[<<"visibility">>] # Unasked
      PROVE  (AzureC08Asked /\ AzureC08PoolsRead)'
  <2>1. AzureC08Asked /\ AzureC08PoolsRead
    BY <1>1, <1>3, <1>12 DEF AzureC08Inv, AzureC08Heard
  <2>2. QED
    BY <1>1, <1>3, <2>1, MarkersAssumption DEF Got, AzureC08PoolsRead, AzureC08Asked
<1>13. AzureC08Heard'
  BY <1>1, <1>4, <1>5, <1>6, <1>7, <1>8, <1>9, <1>10, <1>11, <1>12 DEF AzureC08Heard,
     AzureC08PoolsRead, AzureC08Asked
<1> QED
  BY <1>2, <1>13 DEF AzureC08Inv

LEMMA AzureC08Verdicts ==
  ASSUME AzureC08Inv, C08!AzureDecide
  PROVE  /\ status' \in [C08!AzureChecks -> Statuses] /\ UNCHANGED <<world, heard, seen>>
         /\ \A c \in C08!AzureChecks : C08!AzureRubric(c, status'[c])
<1> USE DEF Pass, Fail, Partial, NotCheckable, C08!Pass, C08!Fail, C08!Partial, C08!NotCheckable
<1> DEFINE emitted == [c \in C08!AzureChecks |->
     CASE c = "pinned"              -> C08!AzurePinned
       [] c = "token-permissions"   -> C08!AzureTokenPermissions
       [] c = "pull-request-target" -> C08!AzurePullRequestTarget
       [] c = "fork-protection"     -> C08!ForkProtection
       [] c = "oidc-vs-secrets"     -> C08!AzureOIDCvsSecrets
       [] c = "self-hosted"         -> C08!AzureSelfHosted]
<1>1. C08!Heard({<<"visibility">>}) /\ status' = emitted
  BY DEF C08!AzureDecide, C08!Emit
<1>2. UNCHANGED <<world, heard, seen>>
  BY DEF C08!AzureDecide, C08!Emit
<1>3. QED
  <2>1. /\ status'["pinned"] = C08!AzurePinned
        /\ status'["token-permissions"] = C08!AzureTokenPermissions
        /\ status'["pull-request-target"] = C08!AzurePullRequestTarget
        /\ status'["fork-protection"] = C08!ForkProtection
        /\ status'["oidc-vs-secrets"] = C08!AzureOIDCvsSecrets
        /\ status'["self-hosted"] = C08!AzureSelfHosted
        /\ status' = [c \in C08!AzureChecks |-> status'[c]]
    BY <1>1 DEF C08!AzureChecks
  <2>2. /\ heard[<<"visibility">>] \in {Failed, world.public} /\ AzureC08PoolsRead
        /\ heard[<<"settings">>] \in {Failed, world.flags} /\ heard[<<"endpoints">>] \in {Failed, world.schemes}
    BY <1>1 DEF C08!Heard, AzureC08Inv, AzureC08Heard, AzureC08Asked, Outcomes
  <2>3. world \in C08!AzureWorlds
    BY DEF AzureC08Inv, C08!AzureTypeOK, C08!SurveyTypeOK
  <2>4. heard[<<"settings">>] # Failed => C08!flags = world.flags
    BY <2>2 DEF C08!flags
  <2>5. C08!AzurePinned \in Statuses /\ C08!AzureRubric("pinned", C08!AzurePinned)
    BY <1>1, <2>2, <2>3, <2>4 DEF C08!AzureRubric, C08!AzurePinned, Statuses
  <2>6. C08!AzureTokenPermissions \in Statuses /\ C08!AzureRubric("token-permissions",
          C08!AzureTokenPermissions)
    BY <2>2, <2>4 DEF C08!AzureRubric, C08!AzureTokenPermissions, C08!Lost, Statuses
  <2>7. C08!AzurePullRequestTarget \in Statuses /\ C08!AzureRubric("pull-request-target",
          C08!AzurePullRequestTarget)
    BY <1>1, <2>2, <2>3, <2>4 DEF C08!AzureRubric, C08!AzurePullRequestTarget, Statuses
  <2>8. C08!ForkProtection \in Statuses /\ C08!AzureRubric("fork-protection", C08!ForkProtection)
    <3>1. ASSUME C08!ForkGuards \cap world.flags \notin {{}, C08!ForkGuards}
          PROVE  C08!Cardinality(C08!ForkGuards \cap world.flags) = 1
      <4>1. PICK x : C08!ForkGuards \cap world.flags = {x}
        BY <3>1 DEF C08!ForkGuards
      <4>2. QED
        BY <4>1, FS_Singleton, SameCount
    <3>2. QED
      BY <2>2, <2>4, <3>1 DEF C08!AzureRubric, C08!ForkProtection, C08!Lost, Statuses
  <2>9. C08!AzureOIDCvsSecrets \in Statuses /\ C08!AzureRubric("oidc-vs-secrets", C08!AzureOIDCvsSecrets)
    BY <2>2, <2>3 DEF C08!AzureRubric, C08!AzureOIDCvsSecrets, C08!schemes, C08!AzureWorlds,
       C08!Scheme, C08!Lost, Statuses
  <2>10. C08!AzureSelfHosted \in Statuses /\ C08!AzureRubric("self-hosted", C08!AzureSelfHosted)
    <3>1. CASE C08!PoolsLost \/ C08!Lost(<<"visibility">>)
      BY <3>1 DEF C08!AzureRubric, C08!AzureSelfHosted, Statuses
    <3>2. CASE ~C08!PoolsLost /\ ~C08!Lost(<<"visibility">>)
      <4>1. world.definitions \subseteq Tool /\ heard[<<"visibility">>] = world.public
        BY <2>2, <2>3, <3>2 DEF C08!AzureWorlds, C08!Lost
      <4>2. Got(<<"pipelines">>) /\ heard[<<"pipelines">>] = world.definitions
        <5>1. heard[<<"pipelines">>] # Failed
          BY <3>2 DEF C08!PoolsLost, C08!Lost
        <5>2. Got(<<"pipelines">>)
          BY <2>2, <5>1, MarkersAssumption DEF AzureC08PoolsRead, AzureC08Inv, AzureC08Heard
        <5>3. QED
          BY <5>2 DEF AzureC08Inv, AzureC08Heard, Outcomes, Got
      <4>3. C08!AzureListed = world.definitions
        BY <4>2 DEF C08!AzureListed, C08!Got, Got
      <4>4. \A t \in world.definitions : heard[<<"definition", t>>] = world.pool[t]
        <5>1. \A t \in world.definitions : heard[<<"definition", t>>] # Failed
          BY <3>2, <4>3 DEF C08!PoolsLost, C08!Lost
        <5>2. \A t \in Tool : heard[<<"definition", t>>] = Failed => t \in world.definitions
          BY MarkersAssumption DEF AzureC08Inv, AzureC08Heard
        <5>3. \A t \in world.definitions : heard[<<"definition", t>>] # Unasked
          BY <2>2, <4>1, <4>2, <5>1, <5>2 DEF AzureC08PoolsRead, Got
        <5>4. QED
          BY <4>1, <5>1, <5>3 DEF AzureC08Inv, AzureC08Heard, Outcomes
      <4>5. QED
        BY <3>2, <4>1, <4>3, <4>4 DEF C08!AzureRubric, C08!AzureSelfHosted, C08!Exposed, Statuses
    <3>3. QED
      BY <3>1, <3>2
  <2> QED
    BY <1>2, <2>1, <2>5, <2>6, <2>7, <2>8, <2>9, <2>10 DEF C08!AzureChecks

LEMMA AzureC08Goes == AzureC08Inv /\ [C08!AzureNext]_vars => AzureC08Inv'
<1> SUFFICES ASSUME AzureC08Inv, [C08!AzureNext]_vars PROVE AzureC08Inv'
  OBVIOUS
<1>1. CASE C08!ReadSettings
  BY <1>1, AzureC08Reads DEF C08!ReadSettings, C08!Ask, C08!Get, Get, C08!AzureCall
<1>2. CASE C08!ReadEndpoints
  BY <1>2, AzureC08Reads DEF C08!ReadEndpoints, C08!Ask, C08!Get, Get, C08!AzureCall, C08!Heard
<1>3. CASE C08!ListPipelines
  BY <1>3, AzureC08Reads DEF C08!ListPipelines, C08!Ask, C08!Get, Get, C08!AzureCall, C08!Heard
<1>4. ASSUME NEW t \in Tool, C08!ReadDefinition(t) PROVE AzureC08Inv'
  <2>1. Got(<<"pipelines">>) /\ t \in world.definitions
    BY <1>4 DEF C08!ReadDefinition, C08!AzureListed, C08!Got, Got, AzureC08Inv, AzureC08Heard,
       Outcomes
  <2>2. QED
    BY <1>4, <2>1, AzureC08Reads DEF C08!ReadDefinition, C08!Ask, C08!Get, Get, C08!AzureCall
<1>5. CASE C08!ReadVisibility
  <2>1. Got(<<"pipelines">>) => heard[<<"pipelines">>] = world.definitions
    BY DEF AzureC08Inv, AzureC08Heard, Outcomes, Got
  <2>2. AzureC08Asked /\ AzureC08PoolsRead
    <3>1. world.definitions \subseteq Tool
      BY DEF AzureC08Inv, C08!AzureTypeOK, C08!SurveyTypeOK, C08!AzureWorlds
    <3>2. C08!PoolsLost \/ (Got(<<"pipelines">>) /\ \A t \in C08!AzureListed : heard[<<"definition",
            t>>] # Unasked)
      BY <1>5 DEF C08!ReadVisibility, C08!PoolsRead, C08!Heard, C08!Got, Got
    <3>3. AzureC08PoolsRead
      BY <2>1, <3>1, <3>2 DEF C08!PoolsLost, C08!AzureListed, C08!Lost, C08!Got, Got,
         AzureC08PoolsRead
    <3>4. heard[<<"pipelines">>] # Unasked
      BY <3>3, MarkersAssumption DEF AzureC08PoolsRead, AzureC08Inv, AzureC08Heard, Got
    <3>5. QED
      BY <3>3, <3>4 DEF AzureC08Asked, AzureC08Inv, AzureC08Heard
  <2>3. QED
    BY <1>5, <2>2, AzureC08Reads DEF C08!ReadVisibility, C08!Ask, C08!Get, Get, C08!AzureCall
<1>6. CASE C08!AzureDecide
  BY <1>6, AzureC08Verdicts, AzureC08Same DEF AzureC08Inv, C08!AzureTypeOK, C08!SurveyTypeOK,
     C08!AzureRubricHolds, Statuses, Pass, Fail, Partial, NotCheckable, C08!Pass, C08!Fail,
     C08!Partial, C08!NotCheckable
<1>7. CASE UNCHANGED vars
  BY <1>7, AzureC08Same DEF vars, AzureC08Inv, C08!AzureTypeOK, C08!SurveyTypeOK,
     C08!AzureRubricHolds
<1> QED
  BY <1>1, <1>2, <1>3, <1>4, <1>5, <1>6, <1>7 DEF C08!AzureNext

-----------------------------------------------------------------------------
(* C08.actions-security: on GitLab. *)
GitLabC08Project == [public |-> world.public, forks |-> world.forks]
GitLabC08Lint == [includes |-> world.includes, idTokens |-> world.idTokens]
GitLabC08RunnersHeard ==
  \/ \E k \in C08!Kinds : heard[<<"runners", k>>] = Failed
  \/ \A k \in C08!Kinds : heard[<<"runners", k>>] # Unasked

GitLabC08Heard ==
  /\ heard[<<"client">>] \in Outcomes({TRUE})
  /\ heard[<<"project">>] \in Outcomes({GitLabC08Project})
  /\ heard[<<"lint">>] \in Outcomes({GitLabC08Lint})
  /\ heard[<<"scope">>] \in Outcomes({world.inbound})
  /\ heard[<<"allowlist">>] \in Outcomes({TRUE})
  /\ heard[<<"groups">>] \in Outcomes({TRUE})
  /\ \A k \in C08!Kinds : heard[<<"runners", k>>] \in Outcomes({(k \in world.runners)})
  /\ heard[<<"variables">>] \in Outcomes({world.variables})
  /\ heard[<<"project">>] # Unasked => Got(<<"client">>)
  /\ heard[<<"lint">>] # Unasked => heard[<<"project">>] # Unasked
  /\ heard[<<"scope">>] # Unasked => heard[<<"lint">>] # Unasked
  /\ heard[<<"allowlist">>] # Unasked => heard[<<"scope">>] # Unasked
  /\ heard[<<"groups">>] # Unasked => Got(<<"allowlist">>)
  /\ \A k \in C08!Kinds : heard[<<"runners", k>>] # Unasked => heard[<<"allowlist">>] # Unasked
  /\ heard[<<"variables">>] # Unasked => heard[<<"allowlist">>] # Unasked /\ GitLabC08RunnersHeard

GitLabC08Inv == C08!GitLabTypeOK /\ GitLabC08Heard /\ C08!GitLabRubricHolds

LEMMA GitLabC08Starts == C08!GitLabInit => GitLabC08Inv
BY SettingsAssumption DEF C08!GitLabInit, C08!InitWith, GitLabC08Inv, C08!GitLabTypeOK,
   C08!SurveyTypeOK, GitLabC08Heard, Outcomes, Got, C08!GitLabRubricHolds, C08!GitLabCall,
   C08!Kinds, GitLabC08Project, GitLabC08Lint, GitLabC08RunnersHeard

LEMMA GitLabC08Same ==
  ASSUME UNCHANGED <<world, heard, seen>>
  PROVE  /\ GitLabC08Heard' <=> GitLabC08Heard
         /\ \A c, s : C08!GitLabRubric(c, s)' <=> C08!GitLabRubric(c, s)
<1>1. GitLabC08Heard' <=> GitLabC08Heard
  BY DEF GitLabC08Heard, Got, GitLabC08Project, GitLabC08Lint, GitLabC08RunnersHeard
<1>2. \A c, s : C08!GitLabRubric(c, s)' <=> C08!GitLabRubric(c, s)
  BY DEF C08!GitLabRubric, C08!Lost, C08!lint, C08!Reachable, C08!project, C08!declared, C08!Read,
     C08!Own, C08!Got, C08!Resolved, C08!Called, C08!Credential, C08!RunnersLost
<1> QED
  BY <1>1, <1>2

LEMMA GitLabC08Reads ==
  ASSUME GitLabC08Inv, NEW c \in C08!GitLabCall, NEW a, Get(c, a),
         c = <<"client">> => a = TRUE,
         c = <<"project">> => a = GitLabC08Project /\ Got(<<"client">>),
         c = <<"lint">> => a = GitLabC08Lint /\ heard[<<"project">>] # Unasked,
         c = <<"scope">> => a = world.inbound /\ heard[<<"lint">>] # Unasked,
         c = <<"allowlist">> => a = TRUE /\ heard[<<"scope">>] # Unasked,
         c = <<"groups">> => a = TRUE /\ Got(<<"allowlist">>),
         \A k \in C08!Kinds : c = <<"runners", k>> => a = (k \in world.runners)
           /\ heard[<<"allowlist">>] # Unasked,
         c = <<"variables">> => a = world.variables /\ heard[<<"allowlist">>] # Unasked /\ GitLabC08RunnersHeard
  PROVE  GitLabC08Inv'
<1>1. /\ DOMAIN heard = C08!GitLabCall /\ DOMAIN heard' = C08!GitLabCall
      /\ heard[c] = Unasked /\ heard'[c] \in {a, Failed}
      /\ \A d \in C08!GitLabCall : heard'[d] = IF d = c THEN heard'[c] ELSE heard[d]
      /\ \A d \in C08!GitLabCall : heard[d] # Unasked => heard'[d] = heard[d] /\ d # c
      /\ status = Undecided /\ UNCHANGED <<world, status, seen>>
  BY Answer DEF GitLabC08Inv, C08!GitLabTypeOK, C08!SurveyTypeOK
<1>2. C08!GitLabTypeOK' /\ C08!GitLabRubricHolds'
  BY <1>1 DEF GitLabC08Inv, C08!GitLabTypeOK, C08!SurveyTypeOK, C08!GitLabRubricHolds
<1>3. /\ <<"client">> \in C08!GitLabCall
      /\ <<"project">> \in C08!GitLabCall
      /\ <<"lint">> \in C08!GitLabCall
      /\ <<"scope">> \in C08!GitLabCall
      /\ <<"allowlist">> \in C08!GitLabCall
      /\ <<"groups">> \in C08!GitLabCall
      /\ \A k \in C08!Kinds : <<"runners", k>> \in C08!GitLabCall
      /\ <<"variables">> \in C08!GitLabCall
  BY DEF C08!GitLabCall, C08!Kinds
<1>4. heard'[<<"client">>] \in Outcomes({TRUE})
  BY <1>1, <1>3 DEF GitLabC08Inv, GitLabC08Heard, Outcomes
<1>5. heard'[<<"project">>] \in Outcomes({GitLabC08Project})
  BY <1>1, <1>3 DEF GitLabC08Inv, GitLabC08Heard, Outcomes
<1>6. heard'[<<"lint">>] \in Outcomes({GitLabC08Lint})
  BY <1>1, <1>3 DEF GitLabC08Inv, GitLabC08Heard, Outcomes
<1>7. heard'[<<"scope">>] \in Outcomes({world.inbound})
  BY <1>1, <1>3 DEF GitLabC08Inv, GitLabC08Heard, Outcomes
<1>8. heard'[<<"allowlist">>] \in Outcomes({TRUE})
  BY <1>1, <1>3 DEF GitLabC08Inv, GitLabC08Heard, Outcomes
<1>9. heard'[<<"groups">>] \in Outcomes({TRUE})
  BY <1>1, <1>3 DEF GitLabC08Inv, GitLabC08Heard, Outcomes
<1>10. \A k \in C08!Kinds : heard'[<<"runners", k>>] \in Outcomes({(k \in world.runners)})
  BY <1>1, <1>3 DEF GitLabC08Inv, GitLabC08Heard, Outcomes
<1>11. heard'[<<"variables">>] \in Outcomes({world.variables})
  BY <1>1, <1>3 DEF GitLabC08Inv, GitLabC08Heard, Outcomes
<1>12. ASSUME heard'[<<"project">>] # Unasked
      PROVE  (Got(<<"client">>))'
  <2>1. Got(<<"client">>)
    BY <1>1, <1>3, <1>12 DEF GitLabC08Inv, GitLabC08Heard
  <2>2. QED
    BY <1>1, <1>3, <2>1, MarkersAssumption DEF Got, GitLabC08Project, GitLabC08Lint,
       GitLabC08RunnersHeard
<1>13. ASSUME heard'[<<"lint">>] # Unasked
      PROVE  (heard[<<"project">>] # Unasked)'
  <2>1. heard[<<"project">>] # Unasked
    BY <1>1, <1>3, <1>13 DEF GitLabC08Inv, GitLabC08Heard
  <2>2. QED
    BY <1>1, <1>3, <2>1, MarkersAssumption DEF Got, GitLabC08Project, GitLabC08Lint,
       GitLabC08RunnersHeard
<1>14. ASSUME heard'[<<"scope">>] # Unasked
      PROVE  (heard[<<"lint">>] # Unasked)'
  <2>1. heard[<<"lint">>] # Unasked
    BY <1>1, <1>3, <1>14 DEF GitLabC08Inv, GitLabC08Heard
  <2>2. QED
    BY <1>1, <1>3, <2>1, MarkersAssumption DEF Got, GitLabC08Project, GitLabC08Lint,
       GitLabC08RunnersHeard
<1>15. ASSUME heard'[<<"allowlist">>] # Unasked
      PROVE  (heard[<<"scope">>] # Unasked)'
  <2>1. heard[<<"scope">>] # Unasked
    BY <1>1, <1>3, <1>15 DEF GitLabC08Inv, GitLabC08Heard
  <2>2. QED
    BY <1>1, <1>3, <2>1, MarkersAssumption DEF Got, GitLabC08Project, GitLabC08Lint,
       GitLabC08RunnersHeard
<1>16. ASSUME heard'[<<"groups">>] # Unasked
      PROVE  (Got(<<"allowlist">>))'
  <2>1. Got(<<"allowlist">>)
    BY <1>1, <1>3, <1>16 DEF GitLabC08Inv, GitLabC08Heard
  <2>2. QED
    BY <1>1, <1>3, <2>1, MarkersAssumption DEF Got, GitLabC08Project, GitLabC08Lint,
       GitLabC08RunnersHeard
<1>17. ASSUME NEW k \in C08!Kinds, heard'[<<"runners", k>>] # Unasked
      PROVE  (heard[<<"allowlist">>] # Unasked)'
  <2>1. heard[<<"allowlist">>] # Unasked
    BY <1>1, <1>3, <1>17 DEF GitLabC08Inv, GitLabC08Heard
  <2>2. QED
    BY <1>1, <1>3, <2>1, MarkersAssumption DEF Got, GitLabC08Project, GitLabC08Lint,
       GitLabC08RunnersHeard
<1>18. ASSUME heard'[<<"variables">>] # Unasked
      PROVE  (heard[<<"allowlist">>] # Unasked /\ GitLabC08RunnersHeard)'
  <2>1. heard[<<"allowlist">>] # Unasked /\ GitLabC08RunnersHeard
    BY <1>1, <1>3, <1>18 DEF GitLabC08Inv, GitLabC08Heard
  <2>2. QED
    BY <1>1, <1>3, <2>1, MarkersAssumption DEF Got, GitLabC08Project, GitLabC08Lint,
       GitLabC08RunnersHeard
<1>19. GitLabC08Heard'
  BY <1>1, <1>4, <1>5, <1>6, <1>7, <1>8, <1>9, <1>10, <1>11, <1>12, <1>13, <1>14, <1>15, <1>16,
     <1>17, <1>18 DEF
     GitLabC08Heard, GitLabC08Project, GitLabC08Lint, GitLabC08RunnersHeard
<1> QED
  BY <1>2, <1>19 DEF GitLabC08Inv

LEMMA GitLabC08Verdicts ==
  ASSUME GitLabC08Inv, C08!GitLabDecide
  PROVE  /\ status' \in [C08!GitLabChecks -> Statuses] /\ UNCHANGED <<world, heard, seen>>
         /\ \A c \in C08!GitLabChecks : C08!GitLabRubric(c, status'[c])
<1> USE DEF Pass, Fail, Partial, NotCheckable, C08!Pass, C08!Fail, C08!Partial, C08!NotCheckable
<1> DEFINE emitted == [c \in C08!GitLabChecks |->
     CASE c = "pinned"              -> C08!GitLabPinned
       [] c = "token-permissions"   -> C08!GitLabTokenPermissions
       [] c = "pull-request-target" -> C08!GitLabPullRequestTarget
       [] c = "oidc-vs-secrets"     -> C08!GitLabOIDCvsSecrets
       [] c = "self-hosted"         -> C08!GitLabSelfHosted]
<1>1. \/ C08!Lost(<<"client">>) /\ status' = C08!Nothing(C08!GitLabChecks)
      \/ C08!Heard({<<"variables">>}) /\ status' = emitted
  BY DEF C08!GitLabDecide, C08!Emit
<1>2. UNCHANGED <<world, heard, seen>>
  BY DEF C08!GitLabDecide, C08!Emit
<1>3. CASE C08!Lost(<<"client">>) /\ status' = C08!Nothing(C08!GitLabChecks)
  BY <1>2, <1>3 DEF C08!Nothing, C08!GitLabRubric, Statuses
<1>4. CASE C08!Heard({<<"variables">>}) /\ status' = emitted
  <2>1. /\ status'["pinned"] = C08!GitLabPinned
        /\ status'["token-permissions"] = C08!GitLabTokenPermissions
        /\ status'["pull-request-target"] = C08!GitLabPullRequestTarget
        /\ status'["oidc-vs-secrets"] = C08!GitLabOIDCvsSecrets
        /\ status'["self-hosted"] = C08!GitLabSelfHosted
        /\ status' = [c \in C08!GitLabChecks |-> status'[c]]
    BY <1>4 DEF C08!GitLabChecks
  <2>2. /\ heard[<<"variables">>] \in {Failed, world.variables} /\ GitLabC08RunnersHeard
             /\ heard[<<"allowlist">>] # Unasked
    BY <1>4 DEF C08!Heard, GitLabC08Inv, GitLabC08Heard, Outcomes
  <2>3. /\ heard[<<"scope">>] \in {Failed, world.inbound} /\ heard[<<"lint">>] \in {Failed, GitLabC08Lint}
        /\ heard[<<"project">>] \in {Failed, GitLabC08Project}
    BY <2>2 DEF GitLabC08Inv, GitLabC08Heard, Outcomes
  <2>4. world \in C08!GitLabWorlds
    BY DEF GitLabC08Inv, C08!GitLabTypeOK, C08!SurveyTypeOK
  <2>5. /\ ~C08!Lost(<<"lint">>) => C08!lint.includes = world.includes /\ C08!lint.idTokens = world.idTokens
        /\ ~C08!Lost(<<"project">>) => C08!project.forks = world.forks /\ C08!project.public = world.public
    BY <2>3 DEF C08!lint, C08!project, C08!Lost, GitLabC08Lint, GitLabC08Project
  <2>6. C08!GitLabPinned \in Statuses /\ C08!GitLabRubric("pinned", C08!GitLabPinned)
    <3>1. world.includes = Unusable \/ world.includes \subseteq {"pinned", "unpinned", "unpinnable", "unknown"}
      BY <2>4 DEF C08!GitLabWorlds
    <3>2. QED
      BY <2>5, <3>1 DEF C08!GitLabRubric, C08!GitLabPinned, C08!Unlinted, Statuses
  <2>7. C08!GitLabTokenPermissions \in Statuses /\ C08!GitLabRubric("token-permissions",
          C08!GitLabTokenPermissions)
    BY <2>3, <2>4 DEF C08!GitLabRubric, C08!GitLabTokenPermissions, C08!Lost, C08!GitLabWorlds,
       Statuses
  <2>8. C08!GitLabPullRequestTarget \in Statuses /\ C08!GitLabRubric("pull-request-target",
          C08!GitLabPullRequestTarget)
    BY <2>4, <2>5 DEF C08!GitLabRubric, C08!GitLabPullRequestTarget, C08!ForkVerdict,
       C08!Reachable, C08!GitLabWorlds, Statuses
  <2>9. C08!GitLabOIDCvsSecrets \in Statuses /\ C08!GitLabRubric("oidc-vs-secrets", C08!GitLabOIDCvsSecrets)
    <3>1. ~C08!Lost(<<"variables">>) => (C08!Static <=> C08!Credential)
      BY <2>2 DEF C08!Lost, C08!Static, C08!Credential
    <3>2. QED
      BY <2>4, <2>5, <3>1 DEF C08!GitLabRubric, C08!GitLabOIDCvsSecrets, C08!Unlinted,
         C08!GitLabWorlds, Statuses
  <2>10. C08!GitLabSelfHosted \in Statuses /\ C08!GitLabRubric("self-hosted", C08!GitLabSelfHosted)
    <3>1. ~C08!RunnersLost => C08!Runners = world.runners
      <4> world.runners \subseteq C08!Kinds
        BY <2>4 DEF C08!Kinds, C08!GitLabWorlds
      <4>1. SUFFICES ASSUME ~C08!RunnersLost PROVE \A k \in C08!Kinds : C08!Got(<<"runners", k>>)
                              /\ heard[<<"runners", k>>] = (k \in world.runners)
        BY DEF C08!Runners
      <4>2. QED
        BY <2>2, <4>1 DEF GitLabC08RunnersHeard, C08!RunnersLost, C08!Lost, C08!Got, GitLabC08Inv,
           GitLabC08Heard, Outcomes
    <3>2. QED
      BY <2>4, <2>5, <3>1 DEF C08!GitLabRubric, C08!GitLabSelfHosted, C08!ForkVerdict,
         C08!Reachable, C08!GitLabWorlds, Statuses
  <2> QED
    BY <1>2, <2>1, <2>6, <2>7, <2>8, <2>9, <2>10 DEF C08!GitLabChecks
<1> QED
  BY <1>1, <1>3, <1>4

LEMMA GitLabC08Goes == GitLabC08Inv /\ [C08!GitLabNext]_vars => GitLabC08Inv'
<1> SUFFICES ASSUME GitLabC08Inv, [C08!GitLabNext]_vars PROVE GitLabC08Inv'
  OBVIOUS
<1>1. CASE C08!NewClient
  BY <1>1, GitLabC08Reads DEF C08!NewClient, C08!Ask, C08!Get, Get, C08!GitLabCall, C08!Kinds
<1>2. CASE C08!ReadProject
  BY <1>2, GitLabC08Reads DEF C08!ReadProject, C08!Ask, C08!Get, Get, C08!GitLabCall, C08!Kinds,
     Got, C08!Got, GitLabC08Project
<1>3. CASE C08!Lint
  BY <1>3, GitLabC08Reads DEF C08!Lint, C08!Ask, C08!Get, Get, C08!GitLabCall, C08!Kinds,
     C08!Heard, GitLabC08Lint
<1>4. CASE C08!ReadScope
  BY <1>4, GitLabC08Reads DEF C08!ReadScope, C08!Ask, C08!Get, Get, C08!GitLabCall, C08!Kinds,
     C08!Heard
<1>5. CASE C08!CountProjects
  BY <1>5, GitLabC08Reads DEF C08!CountProjects, C08!Ask, C08!Get, Get, C08!GitLabCall, C08!Kinds,
     C08!Heard
<1>6. CASE C08!CountGroups
  BY <1>6, GitLabC08Reads DEF C08!CountGroups, C08!Ask, C08!Get, Get, C08!GitLabCall, C08!Kinds,
     Got, C08!Got
<1>7. ASSUME NEW k \in C08!Kinds, C08!ListRunners(k) PROVE GitLabC08Inv'
  <2>1. heard[<<"allowlist">>] # Unasked
    BY <1>7, MarkersAssumption DEF C08!ListRunners, C08!Counted, C08!Lost, C08!Heard, GitLabC08Inv,
       GitLabC08Heard, Got
  <2>2. QED
    BY <1>7, <2>1, GitLabC08Reads DEF C08!ListRunners, C08!Ask, C08!Get, Get, C08!GitLabCall,
       C08!Kinds
<1>8. CASE C08!ReadVariables
  <2>1. \A k \in C08!Kinds : <<"runners", k>> \in {"runners"} \X C08!Kinds
    OBVIOUS
  <2>2. GitLabC08RunnersHeard
    BY <1>8, <2>1 DEF C08!ReadVariables, C08!RunnersHeard, C08!RunnersLost, C08!Lost, C08!Heard,
       GitLabC08RunnersHeard
  <2>3. PICK k \in C08!Kinds : heard[<<"runners", k>>] # Unasked
    BY <2>2, MarkersAssumption DEF GitLabC08RunnersHeard, C08!Kinds
  <2>4. heard[<<"allowlist">>] # Unasked
    BY <2>3 DEF GitLabC08Inv, GitLabC08Heard
  <2>5. QED
    BY <1>8, <2>2, <2>4, GitLabC08Reads DEF C08!ReadVariables, C08!Ask, C08!Get, Get,
       C08!GitLabCall, C08!Kinds
<1>9. CASE C08!GitLabDecide
  BY <1>9, GitLabC08Verdicts, GitLabC08Same DEF GitLabC08Inv, C08!GitLabTypeOK, C08!SurveyTypeOK,
     C08!GitLabRubricHolds, Statuses, Pass, Fail, Partial, NotCheckable, C08!Pass, C08!Fail,
     C08!Partial, C08!NotCheckable
<1>10. CASE UNCHANGED vars
  BY <1>10, GitLabC08Same DEF vars, GitLabC08Inv, C08!GitLabTypeOK, C08!SurveyTypeOK,
     C08!GitLabRubricHolds
<1> QED
  BY <1>1, <1>2, <1>3, <1>4, <1>5, <1>6, <1>7, <1>8, <1>9, <1>10 DEF C08!GitLabNext
-----------------------------------------------------------------------------
(* C09.audit-logging: on GitHub. *)
GitHubC09Heard ==
  /\ heard[<<"log">>] \in Outcomes({world.log})
  /\ heard[<<"plan">>] \in Outcomes({world.log})
  /\ heard[<<"hooks">>] \in Outcomes({world.hooks})
  /\ heard[<<"log">>] # Unasked => ~world.personal
  /\ heard[<<"plan">>] # Unasked => heard[<<"log">>] # Unasked
  /\ heard[<<"hooks">>] # Unasked => (~world.personal => heard[<<"plan">>] # Unasked)

GitHubC09Inv == C09!GitHubTypeOK /\ GitHubC09Heard /\ C09!GitHubRubricHolds

LEMMA GitHubC09Starts == C09!GitHubInit => GitHubC09Inv
BY SettingsAssumption DEF C09!GitHubInit, C09!InitWith, GitHubC09Inv, C09!GitHubTypeOK,
   C09!SurveyTypeOK, GitHubC09Heard, Outcomes, Got, C09!GitHubRubricHolds, C09!GitHubCall

LEMMA GitHubC09Same ==
  ASSUME UNCHANGED <<world, heard, seen>>
  PROVE  /\ GitHubC09Heard' <=> GitHubC09Heard
         /\ \A c, s : C09!GitHubRubric(c, s)' <=> C09!GitHubRubric(c, s)
<1>1. GitHubC09Heard' <=> GitHubC09Heard
  BY DEF GitHubC09Heard, Got
<1>2. \A c, s : C09!GitHubRubric(c, s)' <=> C09!GitHubRubric(c, s)
  BY DEF C09!GitHubRubric, C09!Lost, C09!GitHubExports
<1> QED
  BY <1>1, <1>2

LEMMA GitHubC09Reads ==
  ASSUME GitHubC09Inv, NEW c \in C09!GitHubCall, NEW a, Get(c, a),
         c = <<"log">> => a = world.log /\ ~world.personal,
         c = <<"plan">> => a = world.log /\ heard[<<"log">>] # Unasked,
         c = <<"hooks">> => a = world.hooks /\ (~world.personal => heard[<<"plan">>] # Unasked)
  PROVE  GitHubC09Inv'
<1>1. /\ DOMAIN heard = C09!GitHubCall /\ DOMAIN heard' = C09!GitHubCall
      /\ heard[c] = Unasked /\ heard'[c] \in {a, Failed}
      /\ \A d \in C09!GitHubCall : heard'[d] = IF d = c THEN heard'[c] ELSE heard[d]
      /\ \A d \in C09!GitHubCall : heard[d] # Unasked => heard'[d] = heard[d] /\ d # c
      /\ status = Undecided /\ UNCHANGED <<world, status, seen>>
  BY Answer DEF GitHubC09Inv, C09!GitHubTypeOK, C09!SurveyTypeOK
<1>2. C09!GitHubTypeOK' /\ C09!GitHubRubricHolds'
  BY <1>1 DEF GitHubC09Inv, C09!GitHubTypeOK, C09!SurveyTypeOK, C09!GitHubRubricHolds
<1>3. /\ <<"log">> \in C09!GitHubCall
      /\ <<"plan">> \in C09!GitHubCall
      /\ <<"hooks">> \in C09!GitHubCall
  BY DEF C09!GitHubCall
<1>4. heard'[<<"log">>] \in Outcomes({world.log})
  BY <1>1, <1>3 DEF GitHubC09Inv, GitHubC09Heard, Outcomes
<1>5. heard'[<<"plan">>] \in Outcomes({world.log})
  BY <1>1, <1>3 DEF GitHubC09Inv, GitHubC09Heard, Outcomes
<1>6. heard'[<<"hooks">>] \in Outcomes({world.hooks})
  BY <1>1, <1>3 DEF GitHubC09Inv, GitHubC09Heard, Outcomes
<1>7. ASSUME heard'[<<"log">>] # Unasked
      PROVE  (~world.personal)'
  <2>1. ~world.personal
    BY <1>1, <1>3, <1>7 DEF GitHubC09Inv, GitHubC09Heard
  <2>2. QED
    BY <1>1, <1>3, <2>1 DEF Got
<1>8. ASSUME heard'[<<"plan">>] # Unasked
      PROVE  (heard[<<"log">>] # Unasked)'
  <2>1. heard[<<"log">>] # Unasked
    BY <1>1, <1>3, <1>8 DEF GitHubC09Inv, GitHubC09Heard
  <2>2. QED
    BY <1>1, <1>3, <2>1 DEF Got
<1>9. ASSUME heard'[<<"hooks">>] # Unasked
      PROVE  ((~world.personal => heard[<<"plan">>] # Unasked))'
  <2>1. (~world.personal => heard[<<"plan">>] # Unasked)
    BY <1>1, <1>3, <1>9 DEF GitHubC09Inv, GitHubC09Heard
  <2>2. QED
    BY <1>1, <1>3, <2>1 DEF Got
<1>10. GitHubC09Heard'
  BY <1>1, <1>4, <1>5, <1>6, <1>7, <1>8, <1>9 DEF GitHubC09Heard
<1> QED
  BY <1>2, <1>10 DEF GitHubC09Inv

LEMMA GitHubC09Verdicts ==
  ASSUME GitHubC09Inv, C09!GitHubDecide
  PROVE  /\ status' \in [C09!GitHubChecks -> Statuses] /\ UNCHANGED <<world, heard, seen>>
         /\ \A c \in C09!GitHubChecks : C09!GitHubRubric(c, status'[c])
<1> USE DEF Pass, Fail, Partial, NotCheckable, C09!Pass, C09!Fail, C09!Partial, C09!NotCheckable
<1> DEFINE emitted == [c \in C09!GitHubChecks |->
     CASE c = "org-log-available"   -> C09!GitHubOrgLogAvailable
       [] c = "log-streaming"       -> C09!GitHubLogStreaming
       [] c = "retention-awareness" -> C09!GitHubRetentionAwareness
       [] c = "webhooks"            -> C09!GitHubRepoWebhooks]
<1>1. C09!Heard({<<"hooks">>}) /\ status' = emitted
  BY DEF C09!GitHubDecide, C09!Emit
<1>2. UNCHANGED <<world, heard, seen>>
  BY DEF C09!GitHubDecide, C09!Emit
<1>3. QED
  <2>1. /\ status'["org-log-available"] = C09!GitHubOrgLogAvailable
        /\ status'["log-streaming"] = C09!GitHubLogStreaming
        /\ status'["retention-awareness"] = C09!GitHubRetentionAwareness
        /\ status'["webhooks"] = C09!GitHubRepoWebhooks
        /\ status' = [c \in C09!GitHubChecks |-> status'[c]]
    BY <1>1 DEF C09!GitHubChecks
  <2>2. heard[<<"hooks">>] \in {Failed, world.hooks}
    BY <1>1 DEF C09!Heard, GitHubC09Inv, GitHubC09Heard, Outcomes
  <2>3. /\ heard[<<"log">>] \in Outcomes({world.log})
        /\ ~world.personal => heard[<<"log">>] # Unasked
    BY <1>1 DEF C09!Heard, GitHubC09Inv, GitHubC09Heard, Outcomes
  <2>4. world.log \in {TRUE, Disabled} /\ world.personal \in BOOLEAN
    BY DEF GitHubC09Inv, C09!GitHubTypeOK, C09!SurveyTypeOK, C09!GitHubWorlds
  <2>5. C09!GitHubOrgLogAvailable \in Statuses /\ C09!GitHubRubric("org-log-available",
          C09!GitHubOrgLogAvailable)
    BY <2>3, <2>4 DEF C09!GitHubRubric, C09!GitHubOrgLogAvailable, C09!Lost, C09!Got, Outcomes,
       Statuses
  <2>6. C09!GitHubLogStreaming \in Statuses /\ C09!GitHubRubric("log-streaming", C09!GitHubLogStreaming)
    BY <1>1, <2>2, <2>3, <2>4 DEF C09!GitHubRubric, C09!GitHubLogStreaming, Statuses
  <2>7. C09!GitHubRetentionAwareness \in Statuses /\ C09!GitHubRubric("retention-awareness",
          C09!GitHubRetentionAwareness)
    BY <1>1, <2>2, <2>3, <2>4 DEF C09!GitHubRubric, C09!GitHubRetentionAwareness, Statuses
  <2>8. C09!GitHubRepoWebhooks \in Statuses /\ C09!GitHubRubric("webhooks", C09!GitHubRepoWebhooks)
    BY <2>2 DEF C09!GitHubRubric, C09!GitHubRepoWebhooks, C09!Covered, C09!GitHubExports, C09!Lost,
       Statuses
  <2> QED
    BY <1>2, <2>1, <2>5, <2>6, <2>7, <2>8 DEF C09!GitHubChecks

LEMMA GitHubC09Goes == GitHubC09Inv /\ [C09!GitHubNext]_vars => GitHubC09Inv'
<1> SUFFICES ASSUME GitHubC09Inv, [C09!GitHubNext]_vars PROVE GitHubC09Inv'
  OBVIOUS
<1>1. CASE C09!GitHubReadLog
  BY <1>1, GitHubC09Reads DEF C09!GitHubReadLog, C09!Ask, C09!Get, Get, C09!GitHubCall, C09!Asked
<1>2. CASE C09!ReadPlan
  BY <1>2, GitHubC09Reads DEF C09!ReadPlan, C09!Ask, C09!Get, Get, C09!GitHubCall, C09!Heard
<1>3. CASE C09!GitHubListHooks
  BY <1>3, GitHubC09Reads DEF C09!GitHubListHooks, C09!Ask, C09!Get, Get, C09!GitHubCall,
     C09!Asked, C09!Heard
<1>4. CASE C09!GitHubDecide
  BY <1>4, GitHubC09Verdicts, GitHubC09Same DEF GitHubC09Inv, C09!GitHubTypeOK, C09!SurveyTypeOK,
     C09!GitHubRubricHolds, Statuses, Pass, Fail, Partial, NotCheckable, C09!Pass, C09!Fail,
     C09!Partial, C09!NotCheckable
<1>5. CASE UNCHANGED vars
  BY <1>5, GitHubC09Same DEF vars, GitHubC09Inv, C09!GitHubTypeOK, C09!SurveyTypeOK,
     C09!GitHubRubricHolds
<1> QED
  BY <1>1, <1>2, <1>3, <1>4, <1>5 DEF C09!GitHubNext

-----------------------------------------------------------------------------
(* C09.audit-logging: on Azure DevOps. *)
AzureC09Streams == IF C09!Unreadable THEN Failed ELSE {C09!Decoded(s) : s \in world.streams}

AzureC09Heard ==
  /\ heard[<<"log">>] \in Outcomes({world.log})
  /\ heard[<<"streams">>] \in Outcomes({AzureC09Streams})
  /\ heard[<<"project">>] \in Outcomes({world.project})
  /\ heard[<<"subscriptions">>] \in Outcomes({world.subscriptions})
  /\ heard[<<"streams">>] # Unasked => heard[<<"log">>] # Unasked
  /\ heard[<<"project">>] # Unasked => heard[<<"streams">>] # Unasked
  /\ heard[<<"subscriptions">>] # Unasked => Got(<<"project">>)

AzureC09Inv == C09!AzureTypeOK /\ AzureC09Heard /\ C09!AzureRubricHolds

LEMMA AzureC09Starts == C09!AzureInit => AzureC09Inv
BY SettingsAssumption DEF C09!AzureInit, C09!InitWith, AzureC09Inv, C09!AzureTypeOK,
   C09!SurveyTypeOK, AzureC09Heard, Outcomes, Got, C09!AzureRubricHolds, C09!AzureCall,
   AzureC09Streams, C09!Unreadable

LEMMA AzureC09Same ==
  ASSUME UNCHANGED <<world, heard, seen>>
  PROVE  /\ AzureC09Heard' <=> AzureC09Heard
         /\ \A c, s : C09!AzureRubric(c, s)' <=> C09!AzureRubric(c, s)
<1>1. AzureC09Heard' <=> AzureC09Heard
  BY DEF AzureC09Heard, Got, AzureC09Streams, C09!Unreadable
<1>2. \A c, s : C09!AzureRubric(c, s)' <=> C09!AzureRubric(c, s)
  BY DEF C09!AzureRubric, C09!Lost, C09!Streaming, C09!AzureExports, C09!Resolved, C09!Got
<1> QED
  BY <1>1, <1>2

LEMMA AzureC09Reads ==
  ASSUME AzureC09Inv, NEW c \in C09!AzureCall, NEW a, Get(c, a),
         c = <<"log">> => a = world.log,
         c = <<"streams">> => a = AzureC09Streams /\ heard[<<"log">>] # Unasked,
         c = <<"project">> => a = world.project /\ heard[<<"streams">>] # Unasked,
         c = <<"subscriptions">> => a = world.subscriptions /\ Got(<<"project">>)
  PROVE  AzureC09Inv'
<1>1. /\ DOMAIN heard = C09!AzureCall /\ DOMAIN heard' = C09!AzureCall
      /\ heard[c] = Unasked /\ heard'[c] \in {a, Failed}
      /\ \A d \in C09!AzureCall : heard'[d] = IF d = c THEN heard'[c] ELSE heard[d]
      /\ \A d \in C09!AzureCall : heard[d] # Unasked => heard'[d] = heard[d] /\ d # c
      /\ status = Undecided /\ UNCHANGED <<world, status, seen>>
  BY Answer DEF AzureC09Inv, C09!AzureTypeOK, C09!SurveyTypeOK
<1>2. C09!AzureTypeOK' /\ C09!AzureRubricHolds'
  BY <1>1 DEF AzureC09Inv, C09!AzureTypeOK, C09!SurveyTypeOK, C09!AzureRubricHolds
<1>3. /\ <<"log">> \in C09!AzureCall
      /\ <<"streams">> \in C09!AzureCall
      /\ <<"project">> \in C09!AzureCall
      /\ <<"subscriptions">> \in C09!AzureCall
  BY DEF C09!AzureCall
<1>4. heard'[<<"log">>] \in Outcomes({world.log})
  BY <1>1, <1>3 DEF AzureC09Inv, AzureC09Heard, Outcomes
<1>5. heard'[<<"streams">>] \in Outcomes({AzureC09Streams})
  BY <1>1, <1>3 DEF AzureC09Inv, AzureC09Heard, Outcomes
<1>6. heard'[<<"project">>] \in Outcomes({world.project})
  BY <1>1, <1>3 DEF AzureC09Inv, AzureC09Heard, Outcomes
<1>7. heard'[<<"subscriptions">>] \in Outcomes({world.subscriptions})
  BY <1>1, <1>3 DEF AzureC09Inv, AzureC09Heard, Outcomes
<1>8. ASSUME heard'[<<"streams">>] # Unasked
      PROVE  (heard[<<"log">>] # Unasked)'
  <2>1. heard[<<"log">>] # Unasked
    BY <1>1, <1>3, <1>8 DEF AzureC09Inv, AzureC09Heard
  <2>2. QED
    BY <1>1, <1>3, <2>1 DEF Got, AzureC09Streams, C09!Unreadable
<1>9. ASSUME heard'[<<"project">>] # Unasked
      PROVE  (heard[<<"streams">>] # Unasked)'
  <2>1. heard[<<"streams">>] # Unasked
    BY <1>1, <1>3, <1>9 DEF AzureC09Inv, AzureC09Heard
  <2>2. QED
    BY <1>1, <1>3, <2>1 DEF Got, AzureC09Streams, C09!Unreadable
<1>10. ASSUME heard'[<<"subscriptions">>] # Unasked
      PROVE  (Got(<<"project">>))'
  <2>1. Got(<<"project">>)
    BY <1>1, <1>3, <1>10 DEF AzureC09Inv, AzureC09Heard
  <2>2. QED
    BY <1>1, <1>3, <2>1 DEF Got, AzureC09Streams, C09!Unreadable
<1>11. AzureC09Heard'
  BY <1>1, <1>4, <1>5, <1>6, <1>7, <1>8, <1>9, <1>10 DEF AzureC09Heard, AzureC09Streams,
     C09!Unreadable
<1> QED
  BY <1>2, <1>11 DEF AzureC09Inv

LEMMA AzureC09Verdicts ==
  ASSUME AzureC09Inv, C09!AzureDecide
  PROVE  /\ status' \in [C09!AzureChecks -> Statuses] /\ UNCHANGED <<world, heard, seen>>
         /\ \A c \in C09!AzureChecks : C09!AzureRubric(c, status'[c])
<1> USE DEF Pass, Fail, Partial, NotCheckable, C09!Pass, C09!Fail, C09!Partial, C09!NotCheckable
<1> DEFINE emitted == [c \in C09!AzureChecks |->
     CASE c = "org-log-available"   -> C09!AzureOrgLogAvailable
       [] c = "log-streaming"       -> C09!AzureLogStreaming
       [] c = "retention-awareness" -> C09!AzureRetentionAwareness
       [] c = "webhooks"            -> C09!AzureRepoWebhooks]
<1>1. C09!Heard({<<"project">>}) /\ (C09!Resolved => C09!Heard({<<"subscriptions">>})) /\ status' = emitted
  BY DEF C09!AzureDecide, C09!Emit
<1>2. UNCHANGED <<world, heard, seen>>
  BY DEF C09!AzureDecide, C09!Emit
<1>3. QED
  <2>1. /\ status'["org-log-available"] = C09!AzureOrgLogAvailable
        /\ status'["log-streaming"] = C09!AzureLogStreaming
        /\ status'["retention-awareness"] = C09!AzureRetentionAwareness
        /\ status'["webhooks"] = C09!AzureRepoWebhooks
        /\ status' = [c \in C09!AzureChecks |-> status'[c]]
    BY <1>1 DEF C09!AzureChecks
  <2>2. /\ heard[<<"log">>] \in {Failed, world.log}
        /\ heard[<<"streams">>] \in {Failed, AzureC09Streams}
        /\ heard[<<"project">>] \in {Failed, world.project}
        /\ C09!Resolved => heard[<<"subscriptions">>] \in {Failed, world.subscriptions}
    BY <1>1 DEF C09!Heard, AzureC09Inv, AzureC09Heard, Outcomes
  <2>3. world \in C09!AzureWorlds
    BY DEF AzureC09Inv, C09!AzureTypeOK, C09!SurveyTypeOK
  <2>4. C09!AzureOrgLogAvailable \in Statuses /\ C09!AzureRubric("org-log-available", C09!AzureOrgLogAvailable)
    BY <2>2, <2>3, MarkersAssumption DEF C09!AzureWorlds, C09!AzureRubric,
       C09!AzureOrgLogAvailable, C09!Lost, C09!Got, Statuses
  <2>5. C09!AzureLogStreaming \in Statuses /\ C09!AzureRubric("log-streaming", C09!AzureLogStreaming)
    <3>1. CASE C09!Unreadable
      BY <2>2, <3>1 DEF AzureC09Streams, C09!AzureRubric, C09!AzureLogStreaming, C09!Lost, Statuses
    <3>2. CASE ~C09!Unreadable
      <4>1. \A s \in world.streams : C09!Decoded(s) = "enabled" <=> s \in {<<"name", "enabled">>,
              <<"ordinal", 1>>}
        <5> SUFFICES ASSUME NEW s \in world.streams
            PROVE  C09!Decoded(s) = "enabled" <=> s \in {<<"name", "enabled">>, <<"ordinal", 1>>}
          OBVIOUS
        <5>1. s \in C09!Sent /\ s[1] # "other"
          BY <2>3, <3>2 DEF C09!AzureWorlds, C09!Unreadable
        <5>2. CASE \E v : s = <<"name", v>>
          BY <5>2 DEF C09!Decoded
        <5>3. CASE \E n \in 0..7 : s = <<"ordinal", n>>
          BY <5>3 DEF C09!Decoded, C09!StreamStatus
        <5>4. QED
          BY <5>1, <5>2, <5>3 DEF C09!Sent
      <4>2. "enabled" \in AzureC09Streams <=> C09!Streaming
        BY <3>2, <4>1 DEF AzureC09Streams, C09!Streaming
      <4>3. QED
        BY <2>2, <4>2 DEF C09!AzureRubric, C09!AzureLogStreaming, C09!Lost, Statuses
    <3>3. QED
      BY <3>1, <3>2
  <2>6. C09!AzureRetentionAwareness \in Statuses /\ C09!AzureRubric("retention-awareness",
          C09!AzureRetentionAwareness)
    BY <1>1, <2>2, <2>3 DEF C09!AzureRubric, C09!AzureRetentionAwareness, Statuses
  <2>7. C09!AzureRepoWebhooks \in Statuses /\ C09!AzureRubric("webhooks", C09!AzureRepoWebhooks)
    <3>1. CASE ~C09!Resolved \/ heard[<<"subscriptions">>] = Failed
      BY <3>1 DEF C09!AzureRubric, C09!AzureRepoWebhooks, C09!Lost, Statuses
    <3>2. CASE C09!Resolved /\ heard[<<"subscriptions">>] # Failed
      <4>1. heard[<<"project">>] = "this" /\ heard[<<"subscriptions">>] = world.subscriptions
        BY <2>2, <2>3, <3>2 DEF C09!Resolved, C09!Got, C09!AzureWorlds
      <4>2. \A s \in world.subscriptions : s.status \in {"", "enabled", "disabled"}
              /\ s.project \in {"", "this", "another"}
        BY <2>3 DEF C09!AzureWorlds, C09!Subscriptions
      <4>3. QED
        BY <4>1, <4>2 DEF C09!AzureRubric, C09!AzureRepoWebhooks, C09!AzureExports, C09!Active,
           C09!Lost, Statuses
    <3>3. QED
      BY <3>1, <3>2
  <2> QED
    BY <1>2, <2>1, <2>4, <2>5, <2>6, <2>7 DEF C09!AzureChecks

LEMMA AzureC09Goes == AzureC09Inv /\ [C09!AzureNext]_vars => AzureC09Inv'
<1> SUFFICES ASSUME AzureC09Inv, [C09!AzureNext]_vars PROVE AzureC09Inv'
  OBVIOUS
<1>1. CASE C09!AzureReadLog
  BY <1>1, AzureC09Reads DEF C09!AzureReadLog, C09!Ask, C09!Get, Get, C09!AzureCall
<1>2. CASE C09!ListStreams
  BY <1>2, AzureC09Reads DEF C09!ListStreams, C09!Ask, C09!Get, Get, C09!AzureCall, C09!Heard,
     AzureC09Streams
<1>3. CASE C09!ResolveProject
  BY <1>3, AzureC09Reads DEF C09!ResolveProject, C09!Ask, C09!Get, Get, C09!AzureCall, C09!Heard
<1>4. CASE C09!ListSubscriptions
  BY <1>4, AzureC09Reads DEF C09!ListSubscriptions, C09!Ask, C09!Get, Get, C09!AzureCall,
     C09!Resolved, C09!Got, Got
<1>5. CASE C09!AzureDecide
  BY <1>5, AzureC09Verdicts, AzureC09Same DEF AzureC09Inv, C09!AzureTypeOK, C09!SurveyTypeOK,
     C09!AzureRubricHolds, Statuses, Pass, Fail, Partial, NotCheckable, C09!Pass, C09!Fail,
     C09!Partial, C09!NotCheckable
<1>6. CASE UNCHANGED vars
  BY <1>6, AzureC09Same DEF vars, AzureC09Inv, C09!AzureTypeOK, C09!SurveyTypeOK,
     C09!AzureRubricHolds
<1> QED
  BY <1>1, <1>2, <1>3, <1>4, <1>5, <1>6 DEF C09!AzureNext

-----------------------------------------------------------------------------
(* C09.audit-logging: on GitLab. *)
GitLabC09Heard ==
  /\ heard[<<"client">>] \in Outcomes({TRUE})
  /\ heard[<<"hooks">>] \in Outcomes({world.hooks})

GitLabC09Inv == C09!GitLabTypeOK /\ GitLabC09Heard /\ C09!GitLabRubricHolds

LEMMA GitLabC09Starts == C09!GitLabInit => GitLabC09Inv
BY SettingsAssumption DEF C09!GitLabInit, C09!InitWith, GitLabC09Inv, C09!GitLabTypeOK,
   C09!SurveyTypeOK, GitLabC09Heard, Outcomes, Got, C09!GitLabRubricHolds, C09!GitLabCall

LEMMA GitLabC09Same ==
  ASSUME UNCHANGED <<world, heard, seen>>
  PROVE  /\ GitLabC09Heard' <=> GitLabC09Heard
         /\ \A c, s : C09!GitLabRubric(c, s)' <=> C09!GitLabRubric(c, s)
<1>1. GitLabC09Heard' <=> GitLabC09Heard
  BY DEF GitLabC09Heard, Got
<1>2. \A c, s : C09!GitLabRubric(c, s)' <=> C09!GitLabRubric(c, s)
  BY DEF C09!GitLabRubric, C09!Lost
<1> QED
  BY <1>1, <1>2

LEMMA GitLabC09Reads ==
  ASSUME GitLabC09Inv, NEW c \in C09!GitLabCall, NEW a, Get(c, a),
         c = <<"client">> => a = TRUE,
         c = <<"hooks">> => a = world.hooks
  PROVE  GitLabC09Inv'
<1>1. /\ DOMAIN heard = C09!GitLabCall /\ DOMAIN heard' = C09!GitLabCall
      /\ heard[c] = Unasked /\ heard'[c] \in {a, Failed}
      /\ \A d \in C09!GitLabCall : heard'[d] = IF d = c THEN heard'[c] ELSE heard[d]
      /\ \A d \in C09!GitLabCall : heard[d] # Unasked => heard'[d] = heard[d] /\ d # c
      /\ status = Undecided /\ UNCHANGED <<world, status, seen>>
  BY Answer DEF GitLabC09Inv, C09!GitLabTypeOK, C09!SurveyTypeOK
<1>2. C09!GitLabTypeOK' /\ C09!GitLabRubricHolds'
  BY <1>1 DEF GitLabC09Inv, C09!GitLabTypeOK, C09!SurveyTypeOK, C09!GitLabRubricHolds
<1>3. /\ <<"client">> \in C09!GitLabCall
      /\ <<"hooks">> \in C09!GitLabCall
  BY DEF C09!GitLabCall
<1>4. heard'[<<"client">>] \in Outcomes({TRUE})
  BY <1>1, <1>3 DEF GitLabC09Inv, GitLabC09Heard, Outcomes
<1>5. heard'[<<"hooks">>] \in Outcomes({world.hooks})
  BY <1>1, <1>3 DEF GitLabC09Inv, GitLabC09Heard, Outcomes
<1>6. GitLabC09Heard'
  BY <1>1, <1>4, <1>5 DEF GitLabC09Heard
<1> QED
  BY <1>2, <1>6 DEF GitLabC09Inv

LEMMA GitLabC09Verdicts ==
  ASSUME GitLabC09Inv, C09!GitLabDecide
  PROVE  /\ status' \in [C09!GitLabChecks -> Statuses] /\ UNCHANGED <<world, heard, seen>>
         /\ \A c \in C09!GitLabChecks : C09!GitLabRubric(c, status'[c])
<1> USE DEF Pass, Fail, Partial, NotCheckable, C09!Pass, C09!Fail, C09!Partial, C09!NotCheckable
<1> DEFINE emitted == [c \in C09!GitLabChecks |-> IF c \in C09!AuditChecks THEN NotCheckable
             ELSE C09!GitLabRepoWebhooks]
<1>1. (C09!Lost(<<"client">>) \/ C09!Heard({<<"hooks">>})) /\ status' = emitted
  BY DEF C09!GitLabDecide, C09!Emit
<1>2. UNCHANGED <<world, heard, seen>>
  BY DEF C09!GitLabDecide, C09!Emit
<1>3. QED
  <2>1. /\ status'["org-log-available"] = NotCheckable
        /\ status'["log-streaming"] = NotCheckable
        /\ status'["retention-awareness"] = NotCheckable
        /\ status'["webhooks"] = C09!GitLabRepoWebhooks
        /\ status' = [c \in C09!GitLabChecks |-> status'[c]]
    BY <1>1 DEF C09!GitLabChecks, C09!AuditChecks
  <2>2. heard[<<"client">>] # Failed => heard[<<"hooks">>] \in {Failed, world.hooks}
    BY <1>1 DEF C09!Lost, C09!Heard, GitLabC09Inv, GitLabC09Heard, Outcomes
  <2>3. NotCheckable \in Statuses /\ C09!GitLabRubric("org-log-available", NotCheckable)
    BY <1>1, <2>2 DEF C09!GitLabRubric, C09!AuditChecks, Statuses
  <2>4. NotCheckable \in Statuses /\ C09!GitLabRubric("log-streaming", NotCheckable)
    BY <1>1, <2>2 DEF C09!GitLabRubric, C09!AuditChecks, Statuses
  <2>5. NotCheckable \in Statuses /\ C09!GitLabRubric("retention-awareness", NotCheckable)
    BY <1>1, <2>2 DEF C09!GitLabRubric, C09!AuditChecks, Statuses
  <2>6. C09!GitLabRepoWebhooks \in Statuses /\ C09!GitLabRubric("webhooks", C09!GitLabRepoWebhooks)
    BY <2>2 DEF C09!GitLabRubric, C09!GitLabRepoWebhooks, C09!Delivers, C09!Lost, Statuses
  <2> QED
    BY <1>2, <2>1, <2>3, <2>4, <2>5, <2>6 DEF C09!GitLabChecks, C09!AuditChecks

LEMMA GitLabC09Goes == GitLabC09Inv /\ [C09!GitLabNext]_vars => GitLabC09Inv'
<1> SUFFICES ASSUME GitLabC09Inv, [C09!GitLabNext]_vars PROVE GitLabC09Inv'
  OBVIOUS
<1>1. CASE C09!NewClient
  BY <1>1, GitLabC09Reads DEF C09!NewClient, C09!Ask, C09!Get, Get, C09!GitLabCall
<1>2. CASE C09!GitLabListHooks
  BY <1>2, GitLabC09Reads DEF C09!GitLabListHooks, C09!Ask, C09!Get, Get, C09!GitLabCall
<1>3. CASE C09!GitLabDecide
  BY <1>3, GitLabC09Verdicts, GitLabC09Same DEF GitLabC09Inv, C09!GitLabTypeOK, C09!SurveyTypeOK,
     C09!GitLabRubricHolds, Statuses, Pass, Fail, Partial, NotCheckable, C09!Pass, C09!Fail,
     C09!Partial, C09!NotCheckable
<1>4. CASE UNCHANGED vars
  BY <1>4, GitLabC09Same DEF vars, GitLabC09Inv, C09!GitLabTypeOK, C09!SurveyTypeOK,
     C09!GitLabRubricHolds
<1> QED
  BY <1>1, <1>2, <1>3, <1>4 DEF C09!GitLabNext
-----------------------------------------------------------------------------
(* C10.vdp: a search through places in order, up to the first that is not absent. *)

LEMMA NeverMissing == Unasked \notin C10!Absent /\ Failed \notin C10!Absent
BY MarkersAssumption DEF C10!Absent

LEMMA FirstIs ==
  ASSUME NEW n \in Nat, NEW at, DOMAIN at = 1..n
  PROVE  /\ (\A p \in 1..n : at[p] \in C10!Absent) => C10!FirstOf(at) = "none"
         /\ \A p \in 1..n : at[p] \notin C10!Absent /\ (\A q \in 1..n : q < p => at[q] \in C10!Absent)
              => C10!FirstOf(at) = at[p]
<1>1. ASSUME \A p \in 1..n : at[p] \in C10!Absent PROVE C10!FirstOf(at) = "none"
  BY <1>1 DEF C10!FirstOf
<1>2. ASSUME NEW p \in 1..n, at[p] \notin C10!Absent, \A q \in 1..n : q < p => at[q] \in C10!Absent
      PROVE  C10!FirstOf(at) = at[p]
  <2> DEFINE First(c) == c \in 1..n /\ at[c] \notin C10!Absent /\ \A q \in 1..n : q < c => at[q] \in C10!Absent
             c == CHOOSE c \in 1..n : at[c] \notin C10!Absent /\ \A q \in 1..n : q < c => at[q] \in C10!Absent
  <2>1. First(c)
    BY <1>2
  <2>2. C10!FirstOf(at) = at[c]
    BY <1>2 DEF C10!FirstOf
  <2> HIDE DEF c
  <2>3. c = p
    BY <1>2, <2>1
  <2>4. QED
    BY <2>2, <2>3
<1>3. QED
  BY <1>1, <1>2

\* What a search has come upon, given what is there.
LEMMA Search ==
  ASSUME NEW n \in Nat, NEW asked, NEW there, DOMAIN asked = 1..n, DOMAIN there = 1..n,
         \A p \in 1..n : asked[p] \in {Unasked, Failed, there[p]},
         \A p \in 1..n : there[p] \in {"none", "folder", "unreadable", "vague", "mention", "channel"},
         \A p \in 1..n : asked[p] # Unasked => (\A q \in 1..n : q < p => asked[q] \in C10!Absent),
         (\E p \in 1..n : asked[p] \notin C10!Absent \cup {Unasked}) \/ \A p \in 1..n : asked[p] \in C10!Absent
  PROVE  \/ C10!FirstOf(asked) = Failed /\ \E p \in 1..n : asked[p] = Failed
         \/ /\ C10!FirstOf(asked) = C10!FirstOf(there) /\ \A p \in 1..n : asked[p] # Failed
            /\ C10!FirstOf(there) \in {"none", "unreadable", "vague", "mention", "channel"}
            /\ C10!FirstOf(there) = "none" <=> \A p \in 1..n : asked[p] \in C10!Absent
<1>1. C10!Absent \cap {Unasked, Failed} = {}
  BY NeverMissing
<1>2. CASE \A p \in 1..n : asked[p] \in C10!Absent
  <2>1. \A p \in 1..n : there[p] \in C10!Absent /\ asked[p] # Failed
    BY <1>1, <1>2
  <2>2. C10!FirstOf(asked) = "none" /\ C10!FirstOf(there) = "none"
    BY <1>2, <2>1, FirstIs
  <2>3. QED
    BY <1>2, <2>1, <2>2
<1>3. CASE \E p \in 1..n : asked[p] \notin C10!Absent \cup {Unasked}
  <2>1. PICK p \in 1..n : asked[p] \notin C10!Absent \cup {Unasked}
    BY <1>3
  <2>2. \A q \in 1..n : q < p => asked[q] \in C10!Absent
    BY <2>1
  <2>3. C10!FirstOf(asked) = asked[p]
    BY <2>1, <2>2, FirstIs
  <2>4. \A q \in 1..n : p < q => asked[q] = Unasked
    BY <2>1
  <2>5. CASE asked[p] = Failed
    BY <2>3, <2>5
  <2>6. CASE asked[p] # Failed
    <3>1. asked[p] = there[p] /\ \A q \in 1..n : q < p => there[q] \in C10!Absent
      BY <1>1, <2>1, <2>2, <2>6
    <3>2. C10!FirstOf(there) = there[p]
      BY <2>1, <3>1, FirstIs
    <3>3. \A q \in 1..n : asked[q] # Failed
      BY <1>1, <2>2, <2>4, <2>6, MarkersAssumption
    <3>4. there[p] \in {"unreadable", "vague", "mention", "channel"}
      BY <2>1, <3>1 DEF C10!Absent
    <3>5. QED
      BY <2>1, <2>3, <3>1, <3>2, <3>3, <3>4
  <2>7. QED
    BY <2>5, <2>6
<1>4. QED
  BY <1>2, <1>3
-----------------------------------------------------------------------------
(* C10.vdp: on Azure DevOps. *)
AzureC10Order(p) == \A q \in 1..2 : q < p => heard[<<"own", q>>] \in C10!Absent

LEMMA AzureC10World ==
  ASSUME C10!AzureTypeOK
  PROVE  \A p \in 1..2 : C10!Own(p) \in {"none", "folder", "unreadable", "vague", "mention", "channel"}
BY DEF C10!AzureTypeOK, C10!SurveyTypeOK, C10!AzureWorlds, C10!Own, C10!At, C10!Absent, C10!Content

AzureC10Heard ==
  /\ heard[<<"turn">>] \in Outcomes({TRUE})
  /\ \A p \in 1..2 : heard[<<"own", p>>] \in Outcomes({C10!Own(p)})
  /\ \A p \in 1..2 : heard[<<"own", p>>] # Unasked => AzureC10Order(p)

AzureC10Inv == C10!AzureTypeOK /\ AzureC10Heard /\ C10!AzureRubricHolds

LEMMA AzureC10Starts == C10!AzureInit => AzureC10Inv
BY SettingsAssumption DEF C10!AzureInit, C10!InitWith, AzureC10Inv, C10!AzureTypeOK,
   C10!SurveyTypeOK, AzureC10Heard, Outcomes, Got, C10!AzureRubricHolds, C10!AzureCall, C10!Places,
   AzureC10Order, C10!Absent, C10!Own

LEMMA AzureC10Same ==
  ASSUME UNCHANGED <<world, heard, seen>>
  PROVE  /\ AzureC10Heard' <=> AzureC10Heard
         /\ \A c, s : C10!AzureRubric(c, s)' <=> C10!AzureRubric(c, s)
<1>1. AzureC10Heard' <=> AzureC10Heard
  BY DEF AzureC10Heard, Got, AzureC10Order, C10!Absent, C10!Own
<1>2. \A c, s : C10!AzureRubric(c, s)' <=> C10!AzureRubric(c, s)
  BY DEF C10!AzureRubric, C10!OnlyRubric, C10!AnyLost, C10!Lost, C10!Own
<1> QED
  BY <1>1, <1>2

LEMMA AzureC10Reads ==
  ASSUME AzureC10Inv, NEW c \in C10!AzureCall, NEW a, Get(c, a),
         c = <<"turn">> => a = TRUE,
         \A p \in 1..2 : c = <<"own", p>> => a = C10!Own(p) /\ AzureC10Order(p)
  PROVE  AzureC10Inv'
<1>1. /\ DOMAIN heard = C10!AzureCall /\ DOMAIN heard' = C10!AzureCall
      /\ heard[c] = Unasked /\ heard'[c] \in {a, Failed}
      /\ \A d \in C10!AzureCall : heard'[d] = IF d = c THEN heard'[c] ELSE heard[d]
      /\ \A d \in C10!AzureCall : heard[d] # Unasked => heard'[d] = heard[d] /\ d # c
      /\ status = Undecided /\ UNCHANGED <<world, status, seen>>
  BY Answer DEF AzureC10Inv, C10!AzureTypeOK, C10!SurveyTypeOK
<1>2. C10!AzureTypeOK' /\ C10!AzureRubricHolds'
  BY <1>1 DEF AzureC10Inv, C10!AzureTypeOK, C10!SurveyTypeOK, C10!AzureRubricHolds
<1>3. /\ <<"turn">> \in C10!AzureCall
      /\ \A p \in 1..2 : <<"own", p>> \in C10!AzureCall
  BY DEF C10!AzureCall, C10!Places
<1>4. heard'[<<"turn">>] \in Outcomes({TRUE})
  BY <1>1, <1>3 DEF AzureC10Inv, AzureC10Heard, Outcomes
<1>5. \A p \in 1..2 : heard'[<<"own", p>>] \in Outcomes({C10!Own(p)})
  BY <1>1, <1>3 DEF AzureC10Inv, AzureC10Heard, Outcomes
<1>6. ASSUME NEW p \in 1..2, heard'[<<"own", p>>] # Unasked
      PROVE  AzureC10Order(p)'
  <2>1. AzureC10Order(p)
    BY <1>1, <1>3, <1>6 DEF AzureC10Inv, AzureC10Heard
  <2>2. QED
    BY <1>1, <1>3, <2>1, MarkersAssumption DEF Got, AzureC10Order, C10!Absent, C10!Own
<1>7. AzureC10Heard'
  BY <1>1, <1>4, <1>5, <1>6 DEF AzureC10Heard, AzureC10Order, C10!Absent, C10!Own
<1> QED
  BY <1>2, <1>7 DEF AzureC10Inv

LEMMA AzureC10Verdicts ==
  ASSUME AzureC10Inv, C10!AzureDecide
  PROVE  /\ status' \in [C10!Checks -> Statuses] /\ UNCHANGED <<world, heard, seen>>
         /\ \A c \in C10!Checks : C10!AzureRubric(c, status'[c])
<1> USE DEF Pass, Fail, Partial, NotCheckable, C10!Pass, C10!Fail, C10!Partial, C10!NotCheckable
<1> DEFINE emitted == [c \in C10!Checks |->
     CASE c = "security-md"    -> C10!Resolves(C10!AzureFound)
       [] c = "intake-channel" -> C10!Advertises(C10!AzureFound, {"channel"})
       [] c \in C10!Unsupported -> NotCheckable]
<1>1. (C10!Lost(<<"turn">>) \/ C10!Over("own", 2)) /\ status' = emitted
  BY DEF C10!AzureDecide, C10!Emit, C10!Only
<1>2. UNCHANGED <<world, heard, seen>>
  BY DEF C10!AzureDecide, C10!Emit, C10!Only
<1>3. QED
  <2>1. /\ status'["security-md"] = C10!Resolves(C10!AzureFound)
        /\ status'["intake-channel"] = C10!Advertises(C10!AzureFound, {"channel"})
        /\ status'["private-reporting"] = NotCheckable
        /\ status'["security-policy-org"] = NotCheckable
        /\ status' = [c \in C10!Checks |-> status'[c]]
    BY <1>1 DEF C10!Checks, C10!Unsupported
  <2>2. \/ C10!AzureFound = Failed /\ C10!AnyLost
        \/ /\ C10!AzureFound = C10!FirstOf([p \in 1..2 |-> C10!Own(p)])
           /\ C10!AzureFound \in {"none", "unreadable", "vague", "mention", "channel"}
    <3>1. CASE C10!Lost(<<"turn">>)
      BY <3>1 DEF C10!AzureFound, C10!AnyLost, C10!Lost, AzureC10Inv, C10!AzureTypeOK,
         C10!SurveyTypeOK, C10!AzureCall
    <3>2. CASE ~(C10!Lost(<<"turn">>))
      <4> DEFINE asked == C10!Answers("own", 2)
                 there == [p \in 1..2 |-> C10!Own(p)]
      <4>1. DOMAIN asked = 1..2 /\ DOMAIN there = 1..2 /\ \A p \in 1..2 : asked[p] = heard[<<"own", p>>]
        BY AzureC10World DEF C10!Answers, AzureC10Inv
      <4>2. \A p \in 1..2 : asked[p] \in {Unasked, Failed, there[p]}
        BY <4>1 DEF AzureC10Inv, AzureC10Heard, Outcomes
      <4>3. \A p \in 1..2 : there[p] \in {"none", "folder", "unreadable", "vague", "mention", "channel"}
        BY AzureC10World DEF AzureC10Inv
      <4>4. \A p \in 1..2 : asked[p] # Unasked => (\A q \in 1..2 : q < p => asked[q] \in C10!Absent)
        BY <4>1 DEF AzureC10Inv, AzureC10Heard, AzureC10Order
      <4>5. (\E p \in 1..2 : asked[p] \notin C10!Absent \cup {Unasked})
              \/ \A p \in 1..2 : asked[p] \in C10!Absent
        BY <1>1, <3>2, <4>1 DEF C10!Over, C10!Absent
      <4>6. C10!AzureFound = C10!FirstOf(asked)
        BY <3>2 DEF C10!AzureFound
      <4>7. \A p \in 1..2 : <<"own", p>> \in DOMAIN heard
        BY DEF AzureC10Inv, C10!AzureTypeOK, C10!SurveyTypeOK, C10!AzureCall, C10!Places
      <4> HIDE DEF asked, there
      <4>8. \/ C10!FirstOf(asked) = Failed /\ \E p \in 1..2 : asked[p] = Failed
            \/ C10!FirstOf(asked) = C10!FirstOf(there) /\ C10!FirstOf(there) \in {"none", "unreadable",
                 "vague", "mention", "channel"}
        BY <4>1, <4>2, <4>3, <4>4, <4>5, Search
      <4>9. C10!FirstOf(there) = C10!FirstOf([p \in 1..2 |-> C10!Own(p)])
        BY DEF there
      <4> QED
        BY <4>1, <4>6, <4>7, <4>8, <4>9 DEF C10!AnyLost, C10!Lost
    <3>3. QED
      BY <3>1, <3>2
  <2>3. Failed \notin {"none", "vague", "mention", "channel"}
    BY MarkersAssumption
  <2>4. C10!Resolves(C10!AzureFound) \in Statuses /\ C10!AzureRubric("security-md",
          C10!Resolves(C10!AzureFound))
    BY <2>2, <2>3 DEF C10!AzureRubric, C10!OnlyRubric, C10!OfFile, C10!Resolves, C10!Unsupported,
       C10!Content, Statuses
  <2>5. C10!Advertises(C10!AzureFound, {"channel"}) \in Statuses /\ C10!AzureRubric("intake-channel",
          C10!Advertises(C10!AzureFound, {"channel"}))
    BY <2>2, <2>3 DEF C10!AzureRubric, C10!OnlyRubric, C10!OfFile, C10!Advertises, C10!Unsupported,
       C10!Content, Statuses
  <2>6. NotCheckable \in Statuses /\ C10!AzureRubric("private-reporting", NotCheckable)
    BY <2>3 DEF C10!AzureRubric, C10!OnlyRubric, C10!Unsupported, Statuses
  <2>7. NotCheckable \in Statuses /\ C10!AzureRubric("security-policy-org", NotCheckable)
    BY <2>3 DEF C10!AzureRubric, C10!OnlyRubric, C10!Unsupported, Statuses
  <2> QED
    BY <1>2, <2>1, <2>4, <2>5, <2>6, <2>7 DEF C10!Checks, C10!Unsupported

LEMMA AzureC10Goes == AzureC10Inv /\ [C10!AzureNext]_vars => AzureC10Inv'
<1> SUFFICES ASSUME AzureC10Inv, [C10!AzureNext]_vars PROVE AzureC10Inv'
  OBVIOUS
<1>1. CASE C10!AzureTurn
  BY <1>1, AzureC10Reads DEF C10!AzureTurn, C10!Ask, C10!Get, Get, C10!AzureCall, C10!Places
<1>2. ASSUME NEW p \in 1..2, C10!AzureTry(p) PROVE AzureC10Inv'
  <2>1. \A q \in 1..2 : q < p => q \in 1..p - 1
    OBVIOUS
  <2>2. <<"own", p>> \in C10!AzureCall /\ AzureC10Order(p)
    BY <1>2, <2>1 DEF C10!AzureTry, C10!Try, C10!Absent, AzureC10Order, C10!AzureCall, C10!Places
  <2>3. QED
    BY <1>2, <2>2, AzureC10Reads DEF C10!AzureTry, C10!Try, C10!Ask, C10!Get, Get
<1>3. CASE C10!AzureDecide
  BY <1>3, AzureC10Verdicts, AzureC10Same DEF AzureC10Inv, C10!AzureTypeOK, C10!SurveyTypeOK,
     C10!AzureRubricHolds, Statuses, Pass, Fail, Partial, NotCheckable, C10!Pass, C10!Fail,
     C10!Partial, C10!NotCheckable
<1>4. CASE UNCHANGED vars
  BY <1>4, AzureC10Same DEF vars, AzureC10Inv, C10!AzureTypeOK, C10!SurveyTypeOK,
     C10!AzureRubricHolds
<1> QED
  BY <1>1, <1>2, <1>3, <1>4 DEF C10!AzureNext

-----------------------------------------------------------------------------
(* C10.vdp: on Gogs. *)
GogsC10Order(p) == \A q \in 1..3 : q < p => heard[<<"own", q>>] \in C10!Absent

LEMMA GogsC10World ==
  ASSUME C10!GogsTypeOK
  PROVE  \A p \in 1..3 : C10!Own(p) \in {"none", "folder", "unreadable", "vague", "mention", "channel"}
BY DEF C10!GogsTypeOK, C10!SurveyTypeOK, C10!GogsWorlds, C10!Own, C10!At, C10!Absent, C10!Content

GogsC10Heard ==
  /\ heard[<<"turn">>] \in Outcomes({TRUE})
  /\ heard[<<"client">>] \in Outcomes({TRUE})
  /\ \A p \in 1..3 : heard[<<"own", p>>] \in Outcomes({C10!Own(p)})
  /\ \A p \in 1..3 : heard[<<"own", p>>] # Unasked => GogsC10Order(p)

GogsC10Inv == C10!GogsTypeOK /\ GogsC10Heard /\ C10!GogsRubricHolds

LEMMA GogsC10Starts == C10!GogsInit => GogsC10Inv
BY SettingsAssumption DEF C10!GogsInit, C10!InitWith, GogsC10Inv, C10!GogsTypeOK, C10!SurveyTypeOK,
   GogsC10Heard, Outcomes, Got, C10!GogsRubricHolds, C10!GogsCall, C10!Places, GogsC10Order,
   C10!Absent, C10!Own

LEMMA GogsC10Same ==
  ASSUME UNCHANGED <<world, heard, seen>>
  PROVE  /\ GogsC10Heard' <=> GogsC10Heard
         /\ \A c, s : C10!GogsRubric(c, s)' <=> C10!GogsRubric(c, s)
<1>1. GogsC10Heard' <=> GogsC10Heard
  BY DEF GogsC10Heard, Got, GogsC10Order, C10!Absent, C10!Own
<1>2. \A c, s : C10!GogsRubric(c, s)' <=> C10!GogsRubric(c, s)
  BY DEF C10!GogsRubric, C10!OnlyRubric, C10!AnyLost, C10!Lost, C10!Own
<1> QED
  BY <1>1, <1>2

LEMMA GogsC10Reads ==
  ASSUME GogsC10Inv, NEW c \in C10!GogsCall, NEW a, Get(c, a),
         c = <<"turn">> => a = TRUE,
         c = <<"client">> => a = TRUE,
         \A p \in 1..3 : c = <<"own", p>> => a = C10!Own(p) /\ GogsC10Order(p)
  PROVE  GogsC10Inv'
<1>1. /\ DOMAIN heard = C10!GogsCall /\ DOMAIN heard' = C10!GogsCall
      /\ heard[c] = Unasked /\ heard'[c] \in {a, Failed}
      /\ \A d \in C10!GogsCall : heard'[d] = IF d = c THEN heard'[c] ELSE heard[d]
      /\ \A d \in C10!GogsCall : heard[d] # Unasked => heard'[d] = heard[d] /\ d # c
      /\ status = Undecided /\ UNCHANGED <<world, status, seen>>
  BY Answer DEF GogsC10Inv, C10!GogsTypeOK, C10!SurveyTypeOK
<1>2. C10!GogsTypeOK' /\ C10!GogsRubricHolds'
  BY <1>1 DEF GogsC10Inv, C10!GogsTypeOK, C10!SurveyTypeOK, C10!GogsRubricHolds
<1>3. /\ <<"turn">> \in C10!GogsCall
      /\ <<"client">> \in C10!GogsCall
      /\ \A p \in 1..3 : <<"own", p>> \in C10!GogsCall
  BY DEF C10!GogsCall, C10!Places
<1>4. heard'[<<"turn">>] \in Outcomes({TRUE})
  BY <1>1, <1>3 DEF GogsC10Inv, GogsC10Heard, Outcomes
<1>5. heard'[<<"client">>] \in Outcomes({TRUE})
  BY <1>1, <1>3 DEF GogsC10Inv, GogsC10Heard, Outcomes
<1>6. \A p \in 1..3 : heard'[<<"own", p>>] \in Outcomes({C10!Own(p)})
  BY <1>1, <1>3 DEF GogsC10Inv, GogsC10Heard, Outcomes
<1>7. ASSUME NEW p \in 1..3, heard'[<<"own", p>>] # Unasked
      PROVE  GogsC10Order(p)'
  <2>1. GogsC10Order(p)
    BY <1>1, <1>3, <1>7 DEF GogsC10Inv, GogsC10Heard
  <2>2. QED
    BY <1>1, <1>3, <2>1, MarkersAssumption DEF Got, GogsC10Order, C10!Absent, C10!Own
<1>8. GogsC10Heard'
  BY <1>1, <1>4, <1>5, <1>6, <1>7 DEF GogsC10Heard, GogsC10Order, C10!Absent, C10!Own
<1> QED
  BY <1>2, <1>8 DEF GogsC10Inv

LEMMA GogsC10Verdicts ==
  ASSUME GogsC10Inv, C10!GogsDecide
  PROVE  /\ status' \in [C10!Checks -> Statuses] /\ UNCHANGED <<world, heard, seen>>
         /\ \A c \in C10!Checks : C10!GogsRubric(c, status'[c])
<1> USE DEF Pass, Fail, Partial, NotCheckable, C10!Pass, C10!Fail, C10!Partial, C10!NotCheckable
<1> DEFINE emitted == [c \in C10!Checks |->
     CASE c = "security-md"    -> C10!Resolves(C10!GogsFound)
       [] c = "intake-channel" -> C10!Advertises(C10!GogsFound, {"channel"})
       [] c \in C10!Unsupported -> NotCheckable]
<1>1. (C10!NoTurn \/ C10!Over("own", 3)) /\ status' = emitted
  BY DEF C10!GogsDecide, C10!Emit, C10!Only
<1>2. UNCHANGED <<world, heard, seen>>
  BY DEF C10!GogsDecide, C10!Emit, C10!Only
<1>3. QED
  <2>1. /\ status'["security-md"] = C10!Resolves(C10!GogsFound)
        /\ status'["intake-channel"] = C10!Advertises(C10!GogsFound, {"channel"})
        /\ status'["private-reporting"] = NotCheckable
        /\ status'["security-policy-org"] = NotCheckable
        /\ status' = [c \in C10!Checks |-> status'[c]]
    BY <1>1 DEF C10!Checks, C10!Unsupported
  <2>2. \/ C10!GogsFound = Failed /\ C10!AnyLost
        \/ /\ C10!GogsFound = C10!FirstOf([p \in 1..3 |-> C10!Own(p)])
           /\ C10!GogsFound \in {"none", "unreadable", "vague", "mention", "channel"}
    <3>1. CASE C10!NoTurn
      BY <3>1 DEF C10!GogsFound, C10!NoTurn, C10!AnyLost, C10!Lost, GogsC10Inv, C10!GogsTypeOK,
         C10!SurveyTypeOK, C10!GogsCall
    <3>2. CASE ~(C10!NoTurn)
      <4> DEFINE asked == C10!Answers("own", 3)
                 there == [p \in 1..3 |-> C10!Own(p)]
      <4>1. DOMAIN asked = 1..3 /\ DOMAIN there = 1..3 /\ \A p \in 1..3 : asked[p] = heard[<<"own", p>>]
        BY GogsC10World DEF C10!Answers, GogsC10Inv
      <4>2. \A p \in 1..3 : asked[p] \in {Unasked, Failed, there[p]}
        BY <4>1 DEF GogsC10Inv, GogsC10Heard, Outcomes
      <4>3. \A p \in 1..3 : there[p] \in {"none", "folder", "unreadable", "vague", "mention", "channel"}
        BY GogsC10World DEF GogsC10Inv
      <4>4. \A p \in 1..3 : asked[p] # Unasked => (\A q \in 1..3 : q < p => asked[q] \in C10!Absent)
        BY <4>1 DEF GogsC10Inv, GogsC10Heard, GogsC10Order
      <4>5. (\E p \in 1..3 : asked[p] \notin C10!Absent \cup {Unasked})
              \/ \A p \in 1..3 : asked[p] \in C10!Absent
        BY <1>1, <3>2, <4>1 DEF C10!Over, C10!Absent
      <4>6. C10!GogsFound = C10!FirstOf(asked)
        BY <3>2 DEF C10!GogsFound, C10!NoTurn
      <4>7. \A p \in 1..3 : <<"own", p>> \in DOMAIN heard
        BY DEF GogsC10Inv, C10!GogsTypeOK, C10!SurveyTypeOK, C10!GogsCall, C10!Places
      <4> HIDE DEF asked, there
      <4>8. \/ C10!FirstOf(asked) = Failed /\ \E p \in 1..3 : asked[p] = Failed
            \/ C10!FirstOf(asked) = C10!FirstOf(there) /\ C10!FirstOf(there) \in {"none", "unreadable",
                 "vague", "mention", "channel"}
        BY <4>1, <4>2, <4>3, <4>4, <4>5, Search
      <4>9. C10!FirstOf(there) = C10!FirstOf([p \in 1..3 |-> C10!Own(p)])
        BY DEF there
      <4> QED
        BY <4>1, <4>6, <4>7, <4>8, <4>9 DEF C10!AnyLost, C10!Lost
    <3>3. QED
      BY <3>1, <3>2
  <2>3. Failed \notin {"none", "vague", "mention", "channel"}
    BY MarkersAssumption
  <2>4. C10!Resolves(C10!GogsFound) \in Statuses /\ C10!GogsRubric("security-md", C10!Resolves(C10!GogsFound))
    BY <2>2, <2>3 DEF C10!GogsRubric, C10!OnlyRubric, C10!OfFile, C10!Resolves, C10!Unsupported,
       C10!Content, Statuses
  <2>5. C10!Advertises(C10!GogsFound, {"channel"}) \in Statuses /\ C10!GogsRubric("intake-channel",
          C10!Advertises(C10!GogsFound, {"channel"}))
    BY <2>2, <2>3 DEF C10!GogsRubric, C10!OnlyRubric, C10!OfFile, C10!Advertises, C10!Unsupported,
       C10!Content, Statuses
  <2>6. NotCheckable \in Statuses /\ C10!GogsRubric("private-reporting", NotCheckable)
    BY <2>3 DEF C10!GogsRubric, C10!OnlyRubric, C10!Unsupported, Statuses
  <2>7. NotCheckable \in Statuses /\ C10!GogsRubric("security-policy-org", NotCheckable)
    BY <2>3 DEF C10!GogsRubric, C10!OnlyRubric, C10!Unsupported, Statuses
  <2> QED
    BY <1>2, <2>1, <2>4, <2>5, <2>6, <2>7 DEF C10!Checks, C10!Unsupported

LEMMA GogsC10Goes == GogsC10Inv /\ [C10!GogsNext]_vars => GogsC10Inv'
<1> SUFFICES ASSUME GogsC10Inv, [C10!GogsNext]_vars PROVE GogsC10Inv'
  OBVIOUS
<1>1. CASE C10!GogsTurn
  BY <1>1, GogsC10Reads DEF C10!GogsTurn, C10!Ask, C10!Get, Get, C10!GogsCall, C10!Places
<1>2. CASE C10!GogsClient
  BY <1>2, GogsC10Reads DEF C10!GogsClient, C10!Ask, C10!Get, Get, C10!GogsCall, C10!Places
<1>3. ASSUME NEW p \in 1..3, C10!GogsTry(p) PROVE GogsC10Inv'
  <2>1. \A q \in 1..3 : q < p => q \in 1..p - 1
    OBVIOUS
  <2>2. <<"own", p>> \in C10!GogsCall /\ GogsC10Order(p)
    BY <1>3, <2>1 DEF C10!GogsTry, C10!Try, C10!Absent, GogsC10Order, C10!GogsCall, C10!Places
  <2>3. QED
    BY <1>3, <2>2, GogsC10Reads DEF C10!GogsTry, C10!Try, C10!Ask, C10!Get, Get
<1>4. CASE C10!GogsDecide
  BY <1>4, GogsC10Verdicts, GogsC10Same DEF GogsC10Inv, C10!GogsTypeOK, C10!SurveyTypeOK,
     C10!GogsRubricHolds, Statuses, Pass, Fail, Partial, NotCheckable, C10!Pass, C10!Fail,
     C10!Partial, C10!NotCheckable
<1>5. CASE UNCHANGED vars
  BY <1>5, GogsC10Same DEF vars, GogsC10Inv, C10!GogsTypeOK, C10!SurveyTypeOK, C10!GogsRubricHolds
<1> QED
  BY <1>1, <1>2, <1>3, <1>4, <1>5 DEF C10!GogsNext

-----------------------------------------------------------------------------
(* C10.vdp: on GitHub. *)
GitHubC10Earlier(of, p) == \A q \in 1..3 : q < p => heard[<<of, q>>] \in C10!Absent

GitHubC10Shared == IF world.shared THEN "there" ELSE "absent"

\* The search of the default policy has come to its end, or there is none to search.
GitHubC10Known ==
  \/ heard[<<"shared">>] \in {Failed, "absent"}
  \/ \E q \in 1..3 : heard[<<"policy", q>>] \notin C10!Absent \cup {Unasked}
  \/ \A q \in 1..3 : heard[<<"policy", q>>] \in C10!Absent

GitHubC10Order(of, p) ==
  /\ GitHubC10Earlier(of, p)
  /\ of = "policy" => heard[<<"shared">>] = "there"
  /\ of = "own" => GitHubC10Known
  /\ of = "org" => \A q \in 1..3 : heard[<<"own", q>>] \in C10!Absent

\* The search of the repository and of the organisation has come to its end.
GitHubC10Reached ==
  \/ \E q \in 1..3 : heard[<<"own", q>>] \notin C10!Absent \cup {Unasked}
  \/ \E q \in 1..3 : heard[<<"org", q>>] \notin C10!Absent \cup {Unasked}
  \/ \A q \in 1..3 : heard[<<"org", q>>] \in C10!Absent

LEMMA GitHubC10World ==
  ASSUME C10!GitHubTypeOK
  PROVE  \A p \in 1..3 : C10!Own(p) \in {"none", "folder", "unreadable", "vague", "mention", "channel"}
           /\ C10!Org(p) \in {"none", "folder", "unreadable", "vague", "mention", "channel"}
BY DEF C10!GitHubTypeOK, C10!SurveyTypeOK, C10!GitHubWorlds, C10!Own, C10!Org, C10!At, C10!Absent,
   C10!Content

GitHubC10Heard ==
  /\ heard[<<"shared">>] \in Outcomes({GitHubC10Shared})
  /\ \A p \in 1..3 : heard[<<"policy", p>>] \in Outcomes({C10!Org(p)})
  /\ \A p \in 1..3 : heard[<<"own", p>>] \in Outcomes({C10!Own(p)})
  /\ \A p \in 1..3 : heard[<<"org", p>>] \in Outcomes({C10!Org(p)})
  /\ heard[<<"reporting">>] \in Outcomes({world.reporting})
  /\ \A p \in 1..3 : heard[<<"policy", p>>] # Unasked => GitHubC10Order("policy", p)
  /\ \A p \in 1..3 : heard[<<"own", p>>] # Unasked => GitHubC10Order("own", p)
  /\ \A p \in 1..3 : heard[<<"org", p>>] # Unasked => GitHubC10Order("org", p)
  /\ heard[<<"reporting">>] # Unasked => GitHubC10Reached

GitHubC10Inv == C10!GitHubTypeOK /\ GitHubC10Heard /\ C10!GitHubRubricHolds

LEMMA GitHubC10Starts == C10!GitHubInit => GitHubC10Inv
BY SettingsAssumption DEF C10!GitHubInit, C10!InitWith, GitHubC10Inv, C10!GitHubTypeOK,
   C10!SurveyTypeOK, GitHubC10Heard, Outcomes, Got, C10!GitHubRubricHolds, C10!GitHubCall,
   C10!Places, GitHubC10Order, GitHubC10Earlier, GitHubC10Shared, GitHubC10Reached, GitHubC10Known,
   C10!Absent, C10!Own, C10!Org

LEMMA GitHubC10Same ==
  ASSUME UNCHANGED <<world, heard, seen>>
  PROVE  /\ GitHubC10Heard' <=> GitHubC10Heard
         /\ \A c, s : C10!GitHubRubric(c, s)' <=> C10!GitHubRubric(c, s)
<1>1. GitHubC10Heard' <=> GitHubC10Heard
  BY DEF GitHubC10Heard, Got, GitHubC10Order, GitHubC10Earlier, GitHubC10Shared, GitHubC10Reached,
     GitHubC10Known, C10!Absent, C10!Own, C10!Org
<1>2. \A c, s : C10!GitHubRubric(c, s)' <=> C10!GitHubRubric(c, s)
  BY DEF C10!GitHubRubric, C10!Own, C10!Org, C10!Lost
<1> QED
  BY <1>1, <1>2

LEMMA GitHubC10Reads ==
  ASSUME GitHubC10Inv, NEW c \in C10!GitHubCall, NEW a, Get(c, a),
         c = <<"shared">> => a = GitHubC10Shared,
         \A p \in 1..3 : c = <<"policy", p>> => a = C10!Org(p) /\ GitHubC10Order("policy", p),
         \A p \in 1..3 : c = <<"own", p>> => a = C10!Own(p) /\ GitHubC10Order("own", p),
         \A p \in 1..3 : c = <<"org", p>> => a = C10!Org(p) /\ GitHubC10Order("org", p),
         c = <<"reporting">> => a = world.reporting /\ GitHubC10Reached
  PROVE  GitHubC10Inv'
<1>1. /\ DOMAIN heard = C10!GitHubCall /\ DOMAIN heard' = C10!GitHubCall
      /\ heard[c] = Unasked /\ heard'[c] \in {a, Failed}
      /\ \A d \in C10!GitHubCall : heard'[d] = IF d = c THEN heard'[c] ELSE heard[d]
      /\ \A d \in C10!GitHubCall : heard[d] # Unasked => heard'[d] = heard[d] /\ d # c
      /\ status = Undecided /\ UNCHANGED <<world, status, seen>>
  BY Answer DEF GitHubC10Inv, C10!GitHubTypeOK, C10!SurveyTypeOK
<1>2. C10!GitHubTypeOK' /\ C10!GitHubRubricHolds'
  BY <1>1 DEF GitHubC10Inv, C10!GitHubTypeOK, C10!SurveyTypeOK, C10!GitHubRubricHolds
<1>3. /\ <<"shared">> \in C10!GitHubCall
      /\ \A p \in 1..3 : <<"policy", p>> \in C10!GitHubCall
      /\ \A p \in 1..3 : <<"own", p>> \in C10!GitHubCall
      /\ \A p \in 1..3 : <<"org", p>> \in C10!GitHubCall
      /\ <<"reporting">> \in C10!GitHubCall
  BY DEF C10!GitHubCall, C10!Places
<1>4. heard'[<<"shared">>] \in Outcomes({GitHubC10Shared})
  BY <1>1, <1>3 DEF GitHubC10Inv, GitHubC10Heard, Outcomes
<1>5. \A p \in 1..3 : heard'[<<"policy", p>>] \in Outcomes({C10!Org(p)})
  BY <1>1, <1>3 DEF GitHubC10Inv, GitHubC10Heard, Outcomes
<1>6. \A p \in 1..3 : heard'[<<"own", p>>] \in Outcomes({C10!Own(p)})
  BY <1>1, <1>3 DEF GitHubC10Inv, GitHubC10Heard, Outcomes
<1>7. \A p \in 1..3 : heard'[<<"org", p>>] \in Outcomes({C10!Org(p)})
  BY <1>1, <1>3 DEF GitHubC10Inv, GitHubC10Heard, Outcomes
<1>8. heard'[<<"reporting">>] \in Outcomes({world.reporting})
  BY <1>1, <1>3 DEF GitHubC10Inv, GitHubC10Heard, Outcomes
<1>9. ASSUME NEW p \in 1..3, heard'[<<"policy", p>>] # Unasked
      PROVE  (GitHubC10Order("policy", p))'
  <2>1. GitHubC10Order("policy", p)
    BY <1>1, <1>3, <1>9 DEF GitHubC10Inv, GitHubC10Heard
  <2>2. QED
    BY <1>1, <1>3, <2>1, MarkersAssumption DEF Got, GitHubC10Order, GitHubC10Earlier,
       GitHubC10Shared, GitHubC10Reached, GitHubC10Known, C10!Absent, C10!Own, C10!Org
<1>10. ASSUME NEW p \in 1..3, heard'[<<"own", p>>] # Unasked
      PROVE  (GitHubC10Order("own", p))'
  <2>1. GitHubC10Order("own", p)
    BY <1>1, <1>3, <1>10 DEF GitHubC10Inv, GitHubC10Heard
  <2>2. QED
    BY <1>1, <1>3, <2>1, MarkersAssumption DEF Got, GitHubC10Order, GitHubC10Earlier,
       GitHubC10Shared, GitHubC10Reached, GitHubC10Known, C10!Absent, C10!Own, C10!Org
<1>11. ASSUME NEW p \in 1..3, heard'[<<"org", p>>] # Unasked
      PROVE  (GitHubC10Order("org", p))'
  <2>1. GitHubC10Order("org", p)
    BY <1>1, <1>3, <1>11 DEF GitHubC10Inv, GitHubC10Heard
  <2>2. QED
    BY <1>1, <1>3, <2>1, MarkersAssumption DEF Got, GitHubC10Order, GitHubC10Earlier,
       GitHubC10Shared, GitHubC10Reached, GitHubC10Known, C10!Absent, C10!Own, C10!Org
<1>12. ASSUME heard'[<<"reporting">>] # Unasked
      PROVE  GitHubC10Reached'
  <2>1. GitHubC10Reached
    BY <1>1, <1>3, <1>12 DEF GitHubC10Inv, GitHubC10Heard
  <2>2. QED
    BY <1>1, <1>3, <2>1, MarkersAssumption DEF Got, GitHubC10Order, GitHubC10Earlier,
       GitHubC10Shared, GitHubC10Reached, GitHubC10Known, C10!Absent, C10!Own, C10!Org
<1>13. GitHubC10Heard'
  BY <1>1, <1>4, <1>5, <1>6, <1>7, <1>8, <1>9, <1>10, <1>11, <1>12 DEF GitHubC10Heard,
     GitHubC10Order, GitHubC10Earlier, GitHubC10Shared, GitHubC10Reached, GitHubC10Known,
     C10!Absent, C10!Own, C10!Org
<1> QED
  BY <1>2, <1>13 DEF GitHubC10Inv

LEMMA GitHubC10Policy ==
  ASSUME GitHubC10Inv, (\E q \in 1..3 : heard[<<"policy", q>>] \notin C10!Absent \cup {Unasked})
                         \/ \A q \in 1..3 : heard[<<"policy", q>>] \in C10!Absent
  PROVE  LET found == C10!FirstOf(C10!Answers("policy", 3))
             truth == C10!FirstOf([p \in 1..3 |-> C10!Org(p)])
         IN \/ found = Failed /\ \E p \in 1..3 : heard[<<"policy", p>>] = Failed
            \/ /\ found = truth /\ truth \in {"none", "unreadable", "vague", "mention", "channel"}
               /\ truth = "none" <=> \A q \in 1..3 : heard[<<"policy", q>>] \in C10!Absent
<1> DEFINE asked == C10!Answers("policy", 3)
           there == [p \in 1..3 |-> C10!Org(p)]
<1>1. DOMAIN asked = 1..3 /\ DOMAIN there = 1..3 /\ \A p \in 1..3 : asked[p] = heard[<<"policy", p>>]
  BY DEF C10!Answers
<1>2. \A p \in 1..3 : asked[p] \in {Unasked, Failed, there[p]}
  BY <1>1 DEF GitHubC10Inv, GitHubC10Heard, Outcomes
<1>3. \A p \in 1..3 : there[p] \in {"none", "folder", "unreadable", "vague", "mention", "channel"}
  BY GitHubC10World DEF GitHubC10Inv
<1>4. \A p \in 1..3 : asked[p] # Unasked => (\A q \in 1..3 : q < p => asked[q] \in C10!Absent)
  BY <1>1 DEF GitHubC10Inv, GitHubC10Heard, GitHubC10Earlier, GitHubC10Order
<1>5. (\E p \in 1..3 : asked[p] \notin C10!Absent \cup {Unasked}) \/ \A p \in 1..3 : asked[p] \in C10!Absent
  BY <1>1
<1>6. C10!FirstOf(asked) = C10!FirstOf(asked) /\ C10!FirstOf(there) = C10!FirstOf(there)
  OBVIOUS
<1> HIDE DEF asked, there
<1>7. \/ C10!FirstOf(asked) = Failed /\ \E p \in 1..3 : asked[p] = Failed
      \/ /\ C10!FirstOf(asked) = C10!FirstOf(there) /\ \A p \in 1..3 : asked[p] # Failed
         /\ C10!FirstOf(there) \in {"none", "unreadable", "vague", "mention", "channel"}
         /\ C10!FirstOf(there) = "none" <=> \A p \in 1..3 : asked[p] \in C10!Absent
  BY <1>1, <1>2, <1>3, <1>4, <1>5, Search
<1>8. \/ C10!FirstOf(asked) = Failed /\ \E p \in 1..3 : heard[<<"policy", p>>] = Failed
      \/ /\ C10!FirstOf(asked) = C10!FirstOf(there) /\ C10!FirstOf(there) \in {"none", "unreadable",
              "vague", "mention", "channel"}
         /\ C10!FirstOf(there) = "none" <=> \A p \in 1..3 : heard[<<"policy", p>>] \in C10!Absent
  BY <1>1, <1>7
<1> QED
  BY <1>6, <1>8 DEF asked, there

LEMMA GitHubC10Own ==
  ASSUME GitHubC10Inv, (\E q \in 1..3 : heard[<<"own", q>>] \notin C10!Absent \cup {Unasked})
                         \/ \A q \in 1..3 : heard[<<"own", q>>] \in C10!Absent
  PROVE  LET found == C10!FirstOf(C10!Answers("own", 3))
             truth == C10!FirstOf([p \in 1..3 |-> C10!Own(p)])
         IN \/ found = Failed /\ \E p \in 1..3 : heard[<<"own", p>>] = Failed
            \/ /\ found = truth /\ truth \in {"none", "unreadable", "vague", "mention", "channel"}
               /\ truth = "none" <=> \A q \in 1..3 : heard[<<"own", q>>] \in C10!Absent
<1> DEFINE asked == C10!Answers("own", 3)
           there == [p \in 1..3 |-> C10!Own(p)]
<1>1. DOMAIN asked = 1..3 /\ DOMAIN there = 1..3 /\ \A p \in 1..3 : asked[p] = heard[<<"own", p>>]
  BY DEF C10!Answers
<1>2. \A p \in 1..3 : asked[p] \in {Unasked, Failed, there[p]}
  BY <1>1 DEF GitHubC10Inv, GitHubC10Heard, Outcomes
<1>3. \A p \in 1..3 : there[p] \in {"none", "folder", "unreadable", "vague", "mention", "channel"}
  BY GitHubC10World DEF GitHubC10Inv
<1>4. \A p \in 1..3 : asked[p] # Unasked => (\A q \in 1..3 : q < p => asked[q] \in C10!Absent)
  BY <1>1 DEF GitHubC10Inv, GitHubC10Heard, GitHubC10Earlier, GitHubC10Order
<1>5. (\E p \in 1..3 : asked[p] \notin C10!Absent \cup {Unasked}) \/ \A p \in 1..3 : asked[p] \in C10!Absent
  BY <1>1
<1>6. C10!FirstOf(asked) = C10!FirstOf(asked) /\ C10!FirstOf(there) = C10!FirstOf(there)
  OBVIOUS
<1> HIDE DEF asked, there
<1>7. \/ C10!FirstOf(asked) = Failed /\ \E p \in 1..3 : asked[p] = Failed
      \/ /\ C10!FirstOf(asked) = C10!FirstOf(there) /\ \A p \in 1..3 : asked[p] # Failed
         /\ C10!FirstOf(there) \in {"none", "unreadable", "vague", "mention", "channel"}
         /\ C10!FirstOf(there) = "none" <=> \A p \in 1..3 : asked[p] \in C10!Absent
  BY <1>1, <1>2, <1>3, <1>4, <1>5, Search
<1>8. \/ C10!FirstOf(asked) = Failed /\ \E p \in 1..3 : heard[<<"own", p>>] = Failed
      \/ /\ C10!FirstOf(asked) = C10!FirstOf(there) /\ C10!FirstOf(there) \in {"none", "unreadable",
              "vague", "mention", "channel"}
         /\ C10!FirstOf(there) = "none" <=> \A p \in 1..3 : heard[<<"own", p>>] \in C10!Absent
  BY <1>1, <1>7
<1> QED
  BY <1>6, <1>8 DEF asked, there

LEMMA GitHubC10Org ==
  ASSUME GitHubC10Inv, (\E q \in 1..3 : heard[<<"org", q>>] \notin C10!Absent \cup {Unasked})
                         \/ \A q \in 1..3 : heard[<<"org", q>>] \in C10!Absent
  PROVE  LET found == C10!FirstOf(C10!Answers("org", 3))
             truth == C10!FirstOf([p \in 1..3 |-> C10!Org(p)])
         IN \/ found = Failed /\ \E p \in 1..3 : heard[<<"org", p>>] = Failed
            \/ /\ found = truth /\ truth \in {"none", "unreadable", "vague", "mention", "channel"}
               /\ truth = "none" <=> \A q \in 1..3 : heard[<<"org", q>>] \in C10!Absent
<1> DEFINE asked == C10!Answers("org", 3)
           there == [p \in 1..3 |-> C10!Org(p)]
<1>1. DOMAIN asked = 1..3 /\ DOMAIN there = 1..3 /\ \A p \in 1..3 : asked[p] = heard[<<"org", p>>]
  BY DEF C10!Answers
<1>2. \A p \in 1..3 : asked[p] \in {Unasked, Failed, there[p]}
  BY <1>1 DEF GitHubC10Inv, GitHubC10Heard, Outcomes
<1>3. \A p \in 1..3 : there[p] \in {"none", "folder", "unreadable", "vague", "mention", "channel"}
  BY GitHubC10World DEF GitHubC10Inv
<1>4. \A p \in 1..3 : asked[p] # Unasked => (\A q \in 1..3 : q < p => asked[q] \in C10!Absent)
  BY <1>1 DEF GitHubC10Inv, GitHubC10Heard, GitHubC10Earlier, GitHubC10Order
<1>5. (\E p \in 1..3 : asked[p] \notin C10!Absent \cup {Unasked}) \/ \A p \in 1..3 : asked[p] \in C10!Absent
  BY <1>1
<1>6. C10!FirstOf(asked) = C10!FirstOf(asked) /\ C10!FirstOf(there) = C10!FirstOf(there)
  OBVIOUS
<1> HIDE DEF asked, there
<1>7. \/ C10!FirstOf(asked) = Failed /\ \E p \in 1..3 : asked[p] = Failed
      \/ /\ C10!FirstOf(asked) = C10!FirstOf(there) /\ \A p \in 1..3 : asked[p] # Failed
         /\ C10!FirstOf(there) \in {"none", "unreadable", "vague", "mention", "channel"}
         /\ C10!FirstOf(there) = "none" <=> \A p \in 1..3 : asked[p] \in C10!Absent
  BY <1>1, <1>2, <1>3, <1>4, <1>5, Search
<1>8. \/ C10!FirstOf(asked) = Failed /\ \E p \in 1..3 : heard[<<"org", p>>] = Failed
      \/ /\ C10!FirstOf(asked) = C10!FirstOf(there) /\ C10!FirstOf(there) \in {"none", "unreadable",
              "vague", "mention", "channel"}
         /\ C10!FirstOf(there) = "none" <=> \A p \in 1..3 : heard[<<"org", p>>] \in C10!Absent
  BY <1>1, <1>7
<1> QED
  BY <1>6, <1>8 DEF asked, there

LEMMA GitHubC10Verdicts ==
  ASSUME GitHubC10Inv, C10!GitHubDecide
  PROVE  /\ status' \in [C10!Checks -> Statuses] /\ UNCHANGED <<world, heard, seen>>
         /\ \A c \in C10!Checks : C10!GitHubRubric(c, status'[c])
<1> USE DEF Pass, Fail, Partial, NotCheckable, C10!Pass, C10!Fail, C10!Partial, C10!NotCheckable
<1> DEFINE emitted == [c \in C10!Checks |->
     CASE c = "security-md"         -> C10!Resolves(C10!Resolved)
       [] c = "intake-channel"      -> C10!Advertises(C10!Resolved, {"mention", "channel"})
       [] c = "private-reporting"   -> C10!PrivateReporting
       [] c = "security-policy-org" -> C10!PolicyOrg]
<1> DEFINE intakeChannel == C10!Advertises(C10!Resolved, {"mention", "channel"})
<1>1. C10!Heard({<<"reporting">>}) /\ status' = emitted
  BY DEF C10!GitHubDecide, C10!Emit
<1>2. UNCHANGED <<world, heard, seen>>
  BY DEF C10!GitHubDecide, C10!Emit
<1>3. QED
  <2>1. /\ status'["security-md"] = C10!Resolves(C10!Resolved)
        /\ status'["intake-channel"] = intakeChannel
        /\ status'["private-reporting"] = C10!PrivateReporting
        /\ status'["security-policy-org"] = C10!PolicyOrg
        /\ status' = [c \in C10!Checks |-> status'[c]]
    BY <1>1 DEF C10!Checks
  <2>2. heard[<<"reporting">>] \in {Failed, world.reporting} /\ GitHubC10Reached
    BY <1>1, MarkersAssumption DEF C10!Heard, GitHubC10Inv, GitHubC10Heard, Outcomes
  <2>3. /\ world.reporting \in {"on", "off", "gated"} /\ world.shared \in BOOLEAN
        /\ Failed \notin {"none", "unreadable", "vague", "mention", "channel", "on", "off", "gated"}
    BY MarkersAssumption DEF GitHubC10Inv, C10!GitHubTypeOK, C10!SurveyTypeOK, C10!GitHubWorlds
  <2>4. LET own == C10!FirstOf([p \in 1..3 |-> C10!Own(p)])
            org == C10!FirstOf([p \in 1..3 |-> C10!Org(p)])
            truth == IF own = "none" THEN org ELSE own
        IN \/ C10!Resolved = Failed /\ \E p \in 1..3 : C10!Lost(<<"own", p>>) \/ C10!Lost(<<"org", p>>)
           \/ C10!Resolved = truth /\ truth \in {"none", "unreadable", "vague", "mention", "channel"}
    <3> DEFINE own == C10!FirstOf(C10!Answers("own", 3))
               org == C10!FirstOf(C10!Answers("org", 3))
               trueOwn == C10!FirstOf([p \in 1..3 |-> C10!Own(p)])
               trueOrg == C10!FirstOf([p \in 1..3 |-> C10!Org(p)])
    <3>1. C10!Resolved = IF own = "none" THEN org ELSE own
      BY DEF C10!Resolved
    <3>2. (\E q \in 1..3 : heard[<<"own", q>>] \notin C10!Absent \cup {Unasked})
            \/ \A q \in 1..3 : heard[<<"own", q>>] \in C10!Absent
      <4>1. CASE \E q \in 1..3 : heard[<<"own", q>>] \notin C10!Absent \cup {Unasked}
        BY <4>1
      <4>2. CASE \E q \in 1..3 : heard[<<"org", q>>] # Unasked
        BY <4>2 DEF GitHubC10Inv, GitHubC10Heard, GitHubC10Order
      <4>3. QED
        BY <2>2, <4>1, <4>2, MarkersAssumption DEF GitHubC10Reached, C10!Absent
    <3>3. \/ own = Failed /\ \E p \in 1..3 : heard[<<"own", p>>] = Failed
          \/ /\ own = trueOwn /\ trueOwn \in {"none", "unreadable", "vague", "mention", "channel"}
             /\ trueOwn = "none" <=> \A q \in 1..3 : heard[<<"own", q>>] \in C10!Absent
      BY <3>2, GitHubC10Own
    <3>4. ASSUME \A q \in 1..3 : heard[<<"own", q>>] \in C10!Absent
          PROVE  \/ org = Failed /\ \E p \in 1..3 : heard[<<"org", p>>] = Failed
                 \/ org = trueOrg /\ trueOrg \in {"none", "unreadable", "vague", "mention", "channel"}
      <4>1. (\E q \in 1..3 : heard[<<"org", q>>] \notin C10!Absent \cup {Unasked})
              \/ \A q \in 1..3 : heard[<<"org", q>>] \in C10!Absent
        BY <2>2, <3>4 DEF GitHubC10Reached
      <4>2. QED
        BY <4>1, GitHubC10Org
    <3> HIDE DEF own, org, trueOwn, trueOrg
    <3>5. \/ C10!Resolved = Failed /\ \E p \in 1..3 : C10!Lost(<<"own", p>>) \/ C10!Lost(<<"org", p>>)
          \/ /\ C10!Resolved = IF trueOwn = "none" THEN trueOrg ELSE trueOwn
             /\ (IF trueOwn = "none" THEN trueOrg ELSE trueOwn) \in {"none", "unreadable", "vague",
                  "mention", "channel"}
      BY <2>3, <3>1, <3>3, <3>4 DEF C10!Lost
    <3>6. QED
      BY <3>5 DEF trueOwn, trueOrg
  <2>5. \/ heard[<<"shared">>] # "there" /\ (~world.shared \/ C10!Lost(<<"shared">>))
        \/ /\ heard[<<"shared">>] = "there" /\ world.shared
           /\ LET found == C10!FirstOf(C10!Answers("policy", 3))
                  truth == C10!FirstOf([p \in 1..3 |-> C10!Org(p)])
              IN \/ found = Failed /\ \E p \in 1..3 : C10!Lost(<<"policy", p>>)
                 \/ found = truth /\ truth \in {"none", "unreadable", "vague", "mention", "channel"}
    <3>1. PICK q \in 1..3 : heard[<<"own", q>>] # Unasked
      <4>1. CASE \E q \in 1..3 : heard[<<"own", q>>] \notin C10!Absent \cup {Unasked}
        BY <4>1
      <4>2. CASE \E q \in 1..3 : heard[<<"org", q>>] # Unasked
        BY <4>2, MarkersAssumption DEF GitHubC10Inv, GitHubC10Heard, GitHubC10Order, C10!Absent
      <4>3. 1 \in 1..3 /\ Unasked \notin C10!Absent
        BY NeverMissing
      <4>4. QED
        BY <2>2, <4>1, <4>2, <4>3 DEF GitHubC10Reached
    <3>2. GitHubC10Known
      BY <3>1 DEF GitHubC10Inv, GitHubC10Heard, GitHubC10Order
    <3>3. heard[<<"shared">>] \in {Unasked, Failed, GitHubC10Shared}
      BY DEF GitHubC10Inv, GitHubC10Heard, Outcomes
    <3>4. CASE heard[<<"shared">>] = "there"
      <4>1. world.shared
        BY <3>3, <3>4, MarkersAssumption DEF GitHubC10Shared
      <4>2. (\E p \in 1..3 : heard[<<"policy", p>>] \notin C10!Absent \cup {Unasked})
              \/ \A p \in 1..3 : heard[<<"policy", p>>] \in C10!Absent
        BY <3>2, <3>4, MarkersAssumption DEF GitHubC10Known
      <4>3. QED
        BY <3>4, <4>1, <4>2, GitHubC10Policy DEF C10!Lost
    <3>5. CASE heard[<<"shared">>] # "there"
      <4>1. heard[<<"shared">>] # Unasked
        <5>1. CASE heard[<<"shared">>] \in {Failed, "absent"}
          BY <5>1, MarkersAssumption
        <5>2. CASE \E p \in 1..3 : heard[<<"policy", p>>] # Unasked
          BY <5>2, <3>5 DEF GitHubC10Inv, GitHubC10Heard, GitHubC10Order
        <5>3. QED
          BY <3>2, <5>1, <5>2, MarkersAssumption DEF GitHubC10Known, C10!Absent
      <4>2. QED
        BY <3>3, <3>5, <4>1 DEF GitHubC10Shared, C10!Lost
    <3>6. QED
      BY <3>4, <3>5
  <2>6. C10!Resolves(C10!Resolved) \in Statuses /\ C10!GitHubRubric("security-md", C10!Resolves(C10!Resolved))
    BY <2>3, <2>4 DEF C10!GitHubRubric, C10!OfFile, C10!Resolves, C10!Content, Statuses
  <2>7. intakeChannel \in Statuses /\ C10!GitHubRubric("intake-channel", intakeChannel)
    BY <2>3, <2>4 DEF C10!GitHubRubric, C10!OfFile, C10!Advertises, C10!Content, Statuses
  <2>8. C10!PrivateReporting \in Statuses /\ C10!GitHubRubric("private-reporting", C10!PrivateReporting)
    BY <2>2, <2>3 DEF C10!GitHubRubric, C10!PrivateReporting, C10!Lost, Statuses
  <2>9. C10!PolicyOrg \in Statuses /\ C10!GitHubRubric("security-policy-org", C10!PolicyOrg)
    BY <2>3, <2>5 DEF C10!GitHubRubric, C10!PolicyOrg, C10!Resolves, C10!Content, Statuses
  <2> QED
    BY <1>2, <2>1, <2>6, <2>7, <2>8, <2>9 DEF C10!Checks

LEMMA GitHubC10Goes == GitHubC10Inv /\ [C10!GitHubNext]_vars => GitHubC10Inv'
<1> SUFFICES ASSUME GitHubC10Inv, [C10!GitHubNext]_vars PROVE GitHubC10Inv'
  OBVIOUS
<1>1. CASE C10!FindShared
  BY <1>1, GitHubC10Reads DEF C10!FindShared, C10!Ask, C10!Get, Get, C10!GitHubCall, C10!Places,
     GitHubC10Shared
<1>2. CASE C10!AskReporting
  BY <1>2, GitHubC10Reads DEF C10!AskReporting, C10!Ask, C10!Get, Get, C10!GitHubCall, C10!Places,
     C10!Searched, C10!Over, GitHubC10Reached, C10!Absent
<1>3. ASSUME NEW p \in 1..3, C10!TryPolicy(p) PROVE GitHubC10Inv'
  <2>1. \A q \in 1..3 : q < p => q \in 1..p - 1
    OBVIOUS
  <2>2. <<"policy", p>> \in C10!GitHubCall /\ GitHubC10Order("policy", p)
    BY <1>3, <2>1 DEF C10!TryPolicy, C10!Try, C10!Absent, GitHubC10Order, GitHubC10Earlier,
       GitHubC10Known, C10!PolicyKnown, C10!Over, C10!GitHubCall, C10!Places
  <2>3. QED
    BY <1>3, <2>2, GitHubC10Reads DEF C10!TryPolicy, C10!Try, C10!Ask, C10!Get, Get
<1>4. ASSUME NEW p \in 1..3, C10!TryOwn(p) PROVE GitHubC10Inv'
  <2>1. \A q \in 1..3 : q < p => q \in 1..p - 1
    OBVIOUS
  <2>2. <<"own", p>> \in C10!GitHubCall /\ GitHubC10Order("own", p)
    BY <1>4, <2>1 DEF C10!TryOwn, C10!Try, C10!Absent, GitHubC10Order, GitHubC10Earlier,
       GitHubC10Known, C10!PolicyKnown, C10!Over, C10!GitHubCall, C10!Places
  <2>3. QED
    BY <1>4, <2>2, GitHubC10Reads DEF C10!TryOwn, C10!Try, C10!Ask, C10!Get, Get
<1>5. ASSUME NEW p \in 1..3, C10!TryOrg(p) PROVE GitHubC10Inv'
  <2>1. \A q \in 1..3 : q < p => q \in 1..p - 1
    OBVIOUS
  <2>2. <<"org", p>> \in C10!GitHubCall /\ GitHubC10Order("org", p)
    BY <1>5, <2>1 DEF C10!TryOrg, C10!Try, C10!Absent, GitHubC10Order, GitHubC10Earlier,
       GitHubC10Known, C10!PolicyKnown, C10!Over, C10!GitHubCall, C10!Places
  <2>3. QED
    BY <1>5, <2>2, GitHubC10Reads DEF C10!TryOrg, C10!Try, C10!Ask, C10!Get, Get
<1>6. CASE C10!GitHubDecide
  BY <1>6, GitHubC10Verdicts, GitHubC10Same DEF GitHubC10Inv, C10!GitHubTypeOK, C10!SurveyTypeOK,
     C10!GitHubRubricHolds, Statuses, Pass, Fail, Partial, NotCheckable, C10!Pass, C10!Fail,
     C10!Partial, C10!NotCheckable
<1>7. CASE UNCHANGED vars
  BY <1>7, GitHubC10Same DEF vars, GitHubC10Inv, C10!GitHubTypeOK, C10!SurveyTypeOK,
     C10!GitHubRubricHolds
<1> QED
  BY <1>1, <1>2, <1>3, <1>4, <1>5, <1>6, <1>7 DEF C10!GitHubNext

-----------------------------------------------------------------------------
(* C10.vdp: on GitLab. *)
GitLabC10Order(p) ==
  /\ heard[<<"project">>] = "visible"
  /\ \A q \in 1..2 : q < p => heard[<<"own", q>>] \in C10!Absent

GitLabC10Project == IF world.visible THEN "visible" ELSE "invisible"

LEMMA GitLabC10World ==
  ASSUME C10!GitLabTypeOK
  PROVE  DOMAIN world.own = 1..2 /\ \A p \in 1..2 : world.own[p] \in {"none", "folder", "unreadable",
           "vague", "mention", "channel"}
BY DEF C10!GitLabTypeOK, C10!SurveyTypeOK, C10!GitLabWorlds, C10!At, C10!Absent, C10!Content

GitLabC10Heard ==
  /\ heard[<<"client">>] \in Outcomes({TRUE})
  /\ heard[<<"project">>] \in Outcomes({GitLabC10Project})
  /\ \A p \in 1..2 : heard[<<"own", p>>] \in Outcomes({world.own[p]})
  /\ \A p \in 1..2 : heard[<<"own", p>>] # Unasked => GitLabC10Order(p)

GitLabC10Inv == C10!GitLabTypeOK /\ GitLabC10Heard /\ C10!GitLabRubricHolds

LEMMA GitLabC10Starts == C10!GitLabInit => GitLabC10Inv
BY SettingsAssumption DEF C10!GitLabInit, C10!InitWith, GitLabC10Inv, C10!GitLabTypeOK,
   C10!SurveyTypeOK, GitLabC10Heard, Outcomes, Got, C10!GitLabRubricHolds, C10!GitLabCall,
   C10!Places, GitLabC10Order, C10!Absent, GitLabC10Project

LEMMA GitLabC10Same ==
  ASSUME UNCHANGED <<world, heard, seen>>
  PROVE  /\ GitLabC10Heard' <=> GitLabC10Heard
         /\ \A c, s : C10!GitLabRubric(c, s)' <=> C10!GitLabRubric(c, s)
<1>1. GitLabC10Heard' <=> GitLabC10Heard
  BY DEF GitLabC10Heard, Got, GitLabC10Order, C10!Absent, GitLabC10Project
<1>2. \A c, s : C10!GitLabRubric(c, s)' <=> C10!GitLabRubric(c, s)
  BY DEF C10!GitLabRubric, C10!OnlyRubric, C10!AnyLost, C10!Lost
<1> QED
  BY <1>1, <1>2

LEMMA GitLabC10Reads ==
  ASSUME GitLabC10Inv, NEW c \in C10!GitLabCall, NEW a, Get(c, a),
         c = <<"client">> => a = TRUE,
         c = <<"project">> => a = GitLabC10Project,
         \A p \in 1..2 : c = <<"own", p>> => a = world.own[p] /\ GitLabC10Order(p)
  PROVE  GitLabC10Inv'
<1>1. /\ DOMAIN heard = C10!GitLabCall /\ DOMAIN heard' = C10!GitLabCall
      /\ heard[c] = Unasked /\ heard'[c] \in {a, Failed}
      /\ \A d \in C10!GitLabCall : heard'[d] = IF d = c THEN heard'[c] ELSE heard[d]
      /\ \A d \in C10!GitLabCall : heard[d] # Unasked => heard'[d] = heard[d] /\ d # c
      /\ status = Undecided /\ UNCHANGED <<world, status, seen>>
  BY Answer DEF GitLabC10Inv, C10!GitLabTypeOK, C10!SurveyTypeOK
<1>2. C10!GitLabTypeOK' /\ C10!GitLabRubricHolds'
  BY <1>1 DEF GitLabC10Inv, C10!GitLabTypeOK, C10!SurveyTypeOK, C10!GitLabRubricHolds
<1>3. /\ <<"client">> \in C10!GitLabCall
      /\ <<"project">> \in C10!GitLabCall
      /\ \A p \in 1..2 : <<"own", p>> \in C10!GitLabCall
  BY DEF C10!GitLabCall, C10!Places
<1>4. heard'[<<"client">>] \in Outcomes({TRUE})
  BY <1>1, <1>3 DEF GitLabC10Inv, GitLabC10Heard, Outcomes
<1>5. heard'[<<"project">>] \in Outcomes({GitLabC10Project})
  BY <1>1, <1>3 DEF GitLabC10Inv, GitLabC10Heard, Outcomes
<1>6. \A p \in 1..2 : heard'[<<"own", p>>] \in Outcomes({world.own[p]})
  BY <1>1, <1>3 DEF GitLabC10Inv, GitLabC10Heard, Outcomes
<1>7. ASSUME NEW p \in 1..2, heard'[<<"own", p>>] # Unasked
      PROVE  GitLabC10Order(p)'
  <2>1. GitLabC10Order(p)
    BY <1>1, <1>3, <1>7 DEF GitLabC10Inv, GitLabC10Heard
  <2>2. QED
    BY <1>1, <1>3, <2>1, MarkersAssumption DEF Got, GitLabC10Order, C10!Absent, GitLabC10Project
<1>8. GitLabC10Heard'
  BY <1>1, <1>4, <1>5, <1>6, <1>7 DEF GitLabC10Heard, GitLabC10Order, C10!Absent, GitLabC10Project
<1> QED
  BY <1>2, <1>8 DEF GitLabC10Inv

LEMMA GitLabC10Verdicts ==
  ASSUME GitLabC10Inv, C10!GitLabDecide
  PROVE  /\ status' \in [C10!Checks -> Statuses] /\ UNCHANGED <<world, heard, seen>>
         /\ \A c \in C10!Checks : C10!GitLabRubric(c, status'[c])
<1> USE DEF Pass, Fail, Partial, NotCheckable, C10!Pass, C10!Fail, C10!Partial, C10!NotCheckable
<1> DEFINE emitted == [c \in C10!Checks |->
     CASE c = "security-md"    -> C10!Resolves(C10!GitLabFound)
       [] c = "intake-channel" -> C10!Advertises(C10!GitLabFound, {"channel"})
       [] c \in C10!Unsupported -> NotCheckable]
<1>1. (C10!ProjectLost \/ C10!Over("own", 2)) /\ status' = emitted
  BY DEF C10!GitLabDecide, C10!Emit, C10!Only
<1>2. UNCHANGED <<world, heard, seen>>
  BY DEF C10!GitLabDecide, C10!Emit, C10!Only
<1>3. QED
  <2>1. /\ status'["security-md"] = C10!Resolves(C10!GitLabFound)
        /\ status'["intake-channel"] = C10!Advertises(C10!GitLabFound, {"channel"})
        /\ status'["private-reporting"] = NotCheckable
        /\ status'["security-policy-org"] = NotCheckable
        /\ status' = [c \in C10!Checks |-> status'[c]]
    BY <1>1 DEF C10!Checks, C10!Unsupported
  <2>2. \/ C10!GitLabFound = Failed /\ (~world.visible \/ C10!AnyLost)
        \/ /\ world.visible /\ C10!GitLabFound = C10!FirstOf(world.own)
           /\ C10!GitLabFound \in {"none", "unreadable", "vague", "mention", "channel"}
    <3>0. DOMAIN heard = C10!GitLabCall
      BY DEF GitLabC10Inv, C10!GitLabTypeOK, C10!SurveyTypeOK
    <3>1. CASE C10!ProjectLost
      <4>1. C10!GitLabFound = Failed
        BY <3>1 DEF C10!GitLabFound
      <4>2. ~world.visible \/ heard[<<"client">>] = Failed \/ heard[<<"project">>] = Failed
        BY <3>1, MarkersAssumption DEF C10!ProjectLost, C10!Lost, GitLabC10Inv, GitLabC10Heard,
           GitLabC10Project, Outcomes
      <4>3. QED
        BY <3>0, <4>1, <4>2 DEF C10!AnyLost, C10!Lost, C10!GitLabCall
    <3>2. CASE ~C10!ProjectLost
      <4> DEFINE asked == C10!Answers("own", 2)
                 there == world.own
      <4>1. DOMAIN asked = 1..2 /\ DOMAIN there = 1..2 /\ \A p \in 1..2 : asked[p] = heard[<<"own", p>>]
        BY GitLabC10World DEF C10!Answers, GitLabC10Inv
      <4>2. \A p \in 1..2 : asked[p] \in {Unasked, Failed, there[p]}
        BY <4>1 DEF GitLabC10Inv, GitLabC10Heard, Outcomes
      <4>3. \A p \in 1..2 : there[p] \in {"none", "folder", "unreadable", "vague", "mention", "channel"}
        BY GitLabC10World DEF GitLabC10Inv
      <4>4. \A p \in 1..2 : asked[p] # Unasked => (\A q \in 1..2 : q < p => asked[q] \in C10!Absent)
        BY <4>1 DEF GitLabC10Inv, GitLabC10Heard, GitLabC10Order
      <4>5. (\E p \in 1..2 : asked[p] \notin C10!Absent \cup {Unasked})
              \/ \A p \in 1..2 : asked[p] \in C10!Absent
        BY <1>1, <3>2, <4>1 DEF C10!Over, C10!Absent
      <4>6. C10!GitLabFound = C10!FirstOf(asked)
        BY <3>2 DEF C10!GitLabFound
      <4>7. world.visible
        <5>1. 1 \in 1..2 /\ Unasked \notin C10!Absent
          BY NeverMissing
        <5>2. PICK p \in 1..2 : heard[<<"own", p>>] # Unasked
          BY <4>1, <4>5, <5>1
        <5>3. QED
          BY <5>2, MarkersAssumption DEF GitLabC10Inv, GitLabC10Heard, GitLabC10Order,
             GitLabC10Project, Outcomes
      <4> HIDE DEF asked, there
      <4>8. \/ C10!FirstOf(asked) = Failed /\ \E p \in 1..2 : asked[p] = Failed
            \/ C10!FirstOf(asked) = C10!FirstOf(there) /\ C10!FirstOf(there) \in {"none", "unreadable",
                 "vague", "mention", "channel"}
        BY <4>1, <4>2, <4>3, <4>4, <4>5, Search
      <4>9. C10!FirstOf(there) = C10!FirstOf(world.own)
        BY DEF there
      <4> QED
        BY <3>0, <4>1, <4>6, <4>7, <4>8, <4>9 DEF C10!AnyLost, C10!Lost, C10!GitLabCall, C10!Places
    <3>3. QED
      BY <3>1, <3>2
  <2>3. Failed \notin {"none", "vague", "mention", "channel"} /\ world.visible \in BOOLEAN
    BY MarkersAssumption DEF GitLabC10Inv, C10!GitLabTypeOK, C10!SurveyTypeOK, C10!GitLabWorlds
  <2>4. C10!Resolves(C10!GitLabFound) \in Statuses /\ C10!GitLabRubric("security-md",
          C10!Resolves(C10!GitLabFound))
    BY <2>2, <2>3 DEF C10!GitLabRubric, C10!OnlyRubric, C10!OfFile, C10!Resolves, C10!Unsupported,
       C10!Content, Statuses
  <2>5. C10!Advertises(C10!GitLabFound, {"channel"}) \in Statuses /\ C10!GitLabRubric("intake-channel",
          C10!Advertises(C10!GitLabFound, {"channel"}))
    BY <2>2, <2>3 DEF C10!GitLabRubric, C10!OnlyRubric, C10!OfFile, C10!Advertises,
       C10!Unsupported, C10!Content, Statuses
  <2>6. NotCheckable \in Statuses /\ C10!GitLabRubric("private-reporting", NotCheckable)
    BY <2>2, <2>3 DEF C10!GitLabRubric, C10!OnlyRubric, C10!OfFile, C10!Unsupported, C10!Content,
       Statuses
  <2>7. NotCheckable \in Statuses /\ C10!GitLabRubric("security-policy-org", NotCheckable)
    BY <2>2, <2>3 DEF C10!GitLabRubric, C10!OnlyRubric, C10!OfFile, C10!Unsupported, C10!Content,
       Statuses
  <2> QED
    BY <1>2, <2>1, <2>4, <2>5, <2>6, <2>7 DEF C10!Checks, C10!Unsupported

LEMMA GitLabC10Goes == GitLabC10Inv /\ [C10!GitLabNext]_vars => GitLabC10Inv'
<1> SUFFICES ASSUME GitLabC10Inv, [C10!GitLabNext]_vars PROVE GitLabC10Inv'
  OBVIOUS
<1>1. CASE C10!NewClient
  BY <1>1, GitLabC10Reads DEF C10!NewClient, C10!Ask, C10!Get, Get, C10!GitLabCall, C10!Places
<1>2. CASE C10!ReadProject
  BY <1>2, GitLabC10Reads DEF C10!ReadProject, C10!Ask, C10!Get, Get, C10!GitLabCall, C10!Places,
     GitLabC10Project
<1>3. ASSUME NEW p \in 1..2, C10!GitLabTry(p) PROVE GitLabC10Inv'
  <2>1. \A q \in 1..2 : q < p => q \in 1..p - 1
    OBVIOUS
  <2>2. <<"own", p>> \in C10!GitLabCall /\ GitLabC10Order(p)
    BY <1>3, <2>1 DEF C10!GitLabTry, C10!Try, C10!Absent, GitLabC10Order, C10!GitLabCall, C10!Places
  <2>3. QED
    BY <1>3, <2>2, GitLabC10Reads DEF C10!GitLabTry, C10!Try, C10!Ask, C10!Get, Get
<1>4. CASE C10!GitLabDecide
  BY <1>4, GitLabC10Verdicts, GitLabC10Same DEF GitLabC10Inv, C10!GitLabTypeOK, C10!SurveyTypeOK,
     C10!GitLabRubricHolds, Statuses, Pass, Fail, Partial, NotCheckable, C10!Pass, C10!Fail,
     C10!Partial, C10!NotCheckable
<1>5. CASE UNCHANGED vars
  BY <1>5, GitLabC10Same DEF vars, GitLabC10Inv, C10!GitLabTypeOK, C10!SurveyTypeOK,
     C10!GitLabRubricHolds
<1> QED
  BY <1>1, <1>2, <1>3, <1>4, <1>5 DEF C10!GitLabNext

-----------------------------------------------------------------------------
Inv ==
  \/ collector = "github/orgsecurity" /\ GitHubC01Inv
  \/ collector = "azuredevops/orgsecurity" /\ AzureC01Inv
  \/ collector = "gitlab/orgsecurity" /\ GitLabC01Inv
  \/ collector = "github/envseparation" /\ GitHubC03Inv
  \/ collector = "azuredevops/envseparation" /\ AzureC03Inv
  \/ collector = "gitlab/envseparation" /\ GitLabC03Inv
  \/ collector = "github/secretshygiene" /\ GitHubC04Inv
  \/ collector = "azuredevops/secretshygiene" /\ AzureC04Inv
  \/ collector = "gitlab/secretshygiene" /\ GitLabC04Inv
  \/ collector = "github/scahistory" /\ GitHubC06Inv
  \/ collector = "azuredevops/scahistory" /\ AzureC06Inv
  \/ collector = "gitlab/scahistory" /\ GitLabC06Inv
  \/ collector = "github/provenance" /\ GitHubC07Inv
  \/ collector = "azuredevops/provenance" /\ AzureC07Inv
  \/ collector = "gitlab/provenance" /\ GitLabC07Inv
  \/ collector = "github/actionssecurity" /\ GitHubC08Inv
  \/ collector = "azuredevops/pipelinesecurity" /\ AzureC08Inv
  \/ collector = "gitlab/actionssecurity" /\ GitLabC08Inv
  \/ collector = "github/auditlogging" /\ GitHubC09Inv
  \/ collector = "azuredevops/auditlogging" /\ AzureC09Inv
  \/ collector = "gitlab/auditlogging" /\ GitLabC09Inv
  \/ collector = "github/vdp" /\ GitHubC10Inv
  \/ collector = "azuredevops/vdp" /\ AzureC10Inv
  \/ collector = "gitlab/vdp" /\ GitLabC10Inv
  \/ collector = "gogs/vdp" /\ GogsC10Inv

LEMMA Accounted == Inv => TypeOK /\ RubricOrDeviation
<1> SUFFICES ASSUME Inv PROVE TypeOK /\ RubricOrDeviation
  OBVIOUS
<1>1. TypeOK
  BY DEF Inv, TypeOK, GitHubC01Inv, AzureC01Inv, GitLabC01Inv, GitHubC03Inv, AzureC03Inv,
     GitLabC03Inv, GitHubC04Inv, AzureC04Inv, GitLabC04Inv, GitHubC06Inv, AzureC06Inv,
     GitLabC06Inv, GitHubC07Inv, AzureC07Inv, GitLabC07Inv, GitHubC08Inv, AzureC08Inv,
     GitLabC08Inv, GitHubC09Inv, AzureC09Inv, GitLabC09Inv, GitHubC10Inv, AzureC10Inv,
     GitLabC10Inv, GogsC10Inv
<1>2. RubricOrDeviation
  BY DEF Inv, RubricOrDeviation, GitHubC01Inv, AzureC01Inv, GitLabC01Inv, GitHubC03Inv,
     AzureC03Inv, GitLabC03Inv, GitHubC04Inv, AzureC04Inv, GitLabC04Inv, GitHubC06Inv,
     AzureC06Inv, GitLabC06Inv, GitHubC07Inv, AzureC07Inv, GitLabC07Inv, GitHubC08Inv,
     AzureC08Inv, GitLabC08Inv, GitHubC09Inv, AzureC09Inv, GitLabC09Inv, GitHubC10Inv,
     AzureC10Inv, GitLabC10Inv, GogsC10Inv
<1> QED
  BY <1>1, <1>2

LEMMA Inductive == Spec => []Inv
<1>1. Init => Inv
  BY GitHubC01Starts, AzureC01Starts, GitLabC01Starts, GitHubC03Starts, AzureC03Starts,
     GitLabC03Starts, GitHubC04Starts, AzureC04Starts, GitLabC04Starts, GitHubC06Starts,
     AzureC06Starts, GitLabC06Starts, GitHubC07Starts, AzureC07Starts, GitLabC07Starts,
     GitHubC08Starts, AzureC08Starts, GitLabC08Starts, GitHubC09Starts, AzureC09Starts,
     GitLabC09Starts, GitHubC10Starts, AzureC10Starts, GitLabC10Starts, GogsC10Starts
     DEF Init, Inv
<1>2. Inv /\ [Next]_<<vars, collector>> => Inv'
  <2> SUFFICES ASSUME Inv, [Next]_<<vars, collector>> PROVE Inv'
    OBVIOUS
  <2>1. UNCHANGED collector
    BY DEF Next
  <2>2. /\ collector = "github/orgsecurity" => [C01!GitHubNext]_vars
        /\ collector = "azuredevops/orgsecurity" => [C01!AzureNext]_vars
        /\ collector = "gitlab/orgsecurity" => [C01!GitLabNext]_vars
        /\ collector = "github/envseparation" => [C03!GitHubNext]_vars
        /\ collector = "azuredevops/envseparation" => [C03!AzureNext]_vars
        /\ collector = "gitlab/envseparation" => [C03!GitLabNext]_vars
        /\ collector = "github/secretshygiene" => [C04!GitHubNext]_vars
        /\ collector = "azuredevops/secretshygiene" => [C04!AzureNext]_vars
        /\ collector = "gitlab/secretshygiene" => [C04!GitLabNext]_vars
        /\ collector = "github/scahistory" => [GitHubC06!Next]_vars
        /\ collector = "azuredevops/scahistory" => [AzureC06!ScaNext]_vars
        /\ collector = "gitlab/scahistory" => [GitLabC06!ScaNext]_vars
        /\ collector = "github/provenance" => [C07!GitHubNext]_vars
        /\ collector = "azuredevops/provenance" => [AzureC07!ProvNext]_vars
        /\ collector = "gitlab/provenance" => [C07!GitLabNext]_vars
        /\ collector = "github/actionssecurity" => [C08!GitHubNext]_vars
        /\ collector = "azuredevops/pipelinesecurity" => [C08!AzureNext]_vars
        /\ collector = "gitlab/actionssecurity" => [C08!GitLabNext]_vars
        /\ collector = "github/auditlogging" => [C09!GitHubNext]_vars
        /\ collector = "azuredevops/auditlogging" => [C09!AzureNext]_vars
        /\ collector = "gitlab/auditlogging" => [C09!GitLabNext]_vars
        /\ collector = "github/vdp" => [C10!GitHubNext]_vars
        /\ collector = "azuredevops/vdp" => [C10!AzureNext]_vars
        /\ collector = "gitlab/vdp" => [C10!GitLabNext]_vars
        /\ collector = "gogs/vdp" => [C10!GogsNext]_vars
    BY DEF Next
  <2> QED
    BY <2>1, <2>2, GitHubC01Goes, AzureC01Goes, GitLabC01Goes, GitHubC03Goes, AzureC03Goes,
     GitLabC03Goes, GitHubC04Goes, AzureC04Goes, GitLabC04Goes, GitHubC06Goes, AzureC06Goes,
     GitLabC06Goes, GitHubC07Goes, AzureC07Goes, GitLabC07Goes, GitHubC08Goes, AzureC08Goes,
     GitLabC08Goes, GitHubC09Goes, AzureC09Goes, GitLabC09Goes, GitHubC10Goes, AzureC10Goes,
     GitLabC10Goes, GogsC10Goes
    DEF Inv
<1> QED
  BY <1>1, <1>2, PTL DEF Spec

(***************************************************************************)
(* A collector that emits statuses emits one for each of its checks, and   *)
(* the settings it reads are settings there may be.                        *)
(***************************************************************************)
THEOREM SurveysTypeCorrect == Spec => []TypeOK
BY Inductive, Accounted, PTL

(***************************************************************************)
(* Every status of the collectors of C01, C03, C04 and C06 to C10 is one   *)
(* that the published rubric of its check allows, or is one of the         *)
(* departures from it that the modules name (Deviates), whatever the       *)
(* settings, the past, the edits in between, and the calls that fail.      *)
(***************************************************************************)
THEOREM RubricsOrDeviationsHold == Spec => []RubricOrDeviation
BY Inductive, Accounted, PTL
=============================================================================
