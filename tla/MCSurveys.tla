------------------------------ MODULE MCSurveys -------------------------------
EXTENDS Surveys, TLC

CONSTANTS t1, t2, e1, e2, npm, w1, w2

\* The worlds that differ from a plain one in one respect, or in those that bear on one another.
Near(plain, Worlds, entangled) ==
  {w \in Worlds : LET D == {a \in DOMAIN w : w[a] # plain[a]}
                  IN Cardinality(D) <= 1 \/ D \subseteq entangled}


Flags == {"yes", "no", "absent"}
GitHubC01Settings ==
  [personal : BOOLEAN,
   org : {[twoFactor |-> a, permission |-> p, createPublic |-> b] :
            a \in Flags, b \in Flags, p \in {"none", "read", "write", "admin", "other", "absent"}},
   without : [{1, 2} -> BOOLEAN], last : {2}]

Person(origin) == [person |-> TRUE, origin |-> origin]
AzureC01Settings ==
  [users : {{Person(o) : o \in S} \cup {[person |-> FALSE, origin |-> "msa"]} : S \in SUBSET {"aad", "msa", "vsts", "other"}},
   projects : SUBSET {"public", "private"}]

GitLabC01Settings ==
  [twoFactor : BOOLEAN, visibility : {"private", "internal", "public", "other"},
   creation : {"noone", "maintainer", "developer", "other"}]

Env(prod, rules, policy) == [prod |-> prod, rules |-> rules, policy |-> policy]
SomeEnvs == {Env(TRUE, r, p) : r \in {{}, {"wait_timer"}, {"no_reviewers"}, {"required_reviewers", "wait_timer"}},
                               p \in {"none", "neither", "protected", "custom"}}
            \cup {Env(FALSE, {}, "none")}
GitHubC03Settings == [page : [{1, 2} -> SomeEnvs], count : 0..2]

Config(kind) == [kind |-> kind, disabled |-> FALSE]
Off(kind) == [kind |-> kind, disabled |-> TRUE]
SomeChecks == {{}, {Off("approval")}, {Config("approval"), Off("branches")}, {Config("other"), Config("branches")},
               {Config("approval"), Config("branches"), Config("wildcard")}, {Config("mixed")},
               {Config("approval"), Config("uninterpretable")}}
AzureC03Settings ==
  [envs : {{}, {e1}, {e1, e2}}, prod : {{}, {e1}, {e1, e2}}, checks : [{e1, e2} -> SomeChecks]]

Entry(tier, approval) == [tier |-> tier, approval |-> approval]
SomeGroups == {{}, Disabled, {Entry("production", FALSE)}, {Entry("production", FALSE), Entry("production", TRUE)},
               {Entry("", TRUE), Entry("staging", TRUE)}}
GitLabC03Settings ==
  Near([envs |-> {e1, e2}, prod |-> {e1}, tier |-> (e1 :> "production" @@ e2 :> "staging"),
        protected |-> (e1 :> "bare" @@ e2 :> "none"), depth |-> 2, group |-> <<{}, {Entry("production", FALSE)}>>],
       [envs : {{}, {e2}, {e1, e2}}, prod : {{}, {e1}, {e1, e2}}, tier : [{e1, e2} -> {"production", "staging", ""}],
        protected : {e1 :> "none" @@ e2 :> "bare", e1 :> "bare" @@ e2 :> "none", e1 :> "approval" @@ e2 :> "none",
                     e1 :> "approval" @@ e2 :> "approval"},
        depth : 1..2, group : [1..2 -> SomeGroups]], {"depth", "group", "protected"})

Reported == {"enabled", "disabled", "absent"}
SomeDefaults == {[f \in {"scanning", "push", "dependabot", "advanced"} |-> IF f = "push" THEN a ELSE b] :
                   a \in Reported, b \in Reported}
GitHubC04Settings ==
  Near([personal |-> FALSE, ghes |-> FALSE, private |-> TRUE, alerts |-> TRUE,
        analysis |-> [f \in {"scanning", "push", "advanced"} |-> "enabled"],
        defaults |-> [f \in {"scanning", "push", "dependabot", "advanced"} |-> "enabled"]],
       [personal : BOOLEAN, ghes : BOOLEAN, private : BOOLEAN, alerts : BOOLEAN,
        analysis : [{"scanning", "push", "advanced"} -> Reported] \cup {Disabled}, defaults : SomeDefaults],
       {"ghes", "private", "alerts", "analysis"})

Variable(sensitive, secret, empty) == [sensitive |-> sensitive, secret |-> secret, empty |-> empty]
AzureC04Settings ==
  Near([defaults |-> {"code", "secrets", "pushes", "injection"}, groups |-> {{}, {Variable(FALSE, FALSE, FALSE)}},
        code |-> TRUE, secrets |-> "on", pushes |-> "on"],
       [defaults : (SUBSET {"code", "secrets", "pushes", "injection"}) \cup {Disabled},
        groups : {{{Variable(a, b, c)}, {Variable(FALSE, FALSE, FALSE)}} : a \in BOOLEAN, b \in BOOLEAN, c \in BOOLEAN}
                 \cup {{}, {{}, {Variable(FALSE, FALSE, FALSE)}}},
        code : BOOLEAN, secrets : {"on", "off", "null"}, pushes : {"on", "off", "null"}],
       {"code", "secrets", "pushes"})

Masking(sensitive, masked, empty) == [sensitive |-> sensitive, masked |-> masked, empty |-> empty]
GitLabC04Settings ==
  [page : [{1, 2} -> {{}} \cup {{Masking(TRUE, a, b), Masking(FALSE, FALSE, FALSE)} : a \in BOOLEAN, b \in BOOLEAN}],
   last : {1, 2}]
v1 == [named |-> TRUE, commit |-> "a", at |-> 3, annotated |-> TRUE, committed |-> 1]
v2 == [named |-> TRUE, commit |-> "b", at |-> 5, annotated |-> FALSE, committed |-> 5]
v2signed == [v2 EXCEPT !.annotated = TRUE]
nightly == [v2 EXCEPT !.named = FALSE]

Ran(t, c, onTrunk, ok, when) == [tool |-> t, commit |-> c, trunk |-> onTrunk, success |-> ok, at |-> when]
Early == Ran(t1, "z", TRUE, TRUE, 3)
Late == Ran(t2, "b", FALSE, TRUE, 5)
Broken == Ran(t1, "y", TRUE, FALSE, 4)

MCRelease == {v1, v2, v2signed, nightly}
Old == Ran(t1, "a", TRUE, TRUE, 0)
MCRun == {Old, Early, Late, Broken}
Past(releases, runs) == [releases |-> releases, runs |-> runs]
Pasts == {Past({nightly}, {}), Past({v1, v2}, {Early, Late}), Past({v1, v2}, {Early, Broken}),
          Past({v2}, {Late})}
MCHistory == Pasts \cup {Past({v1, v2}, {Old, Late})}

Flow(e, pr) == [evidence |-> e, pullRequest |-> pr]
ScaWorlds ==
  [workflow : {<<>>, (t1 :> Flow("none", TRUE)), (t1 :> Flow("weak", FALSE)), 
               (t1 :> Flow("strong", FALSE) @@ t2 :> Flow("review", TRUE)),
               (t1 :> Flow("none", FALSE) @@ t2 :> Flow("review", FALSE))},
   required : {{}, {t2}}, config : {NoConfig, {}, {npm}, {npm, Actions}}, manifests : {{}, {npm}},
   alerts : {Disabled, {}, {[severity |-> "critical", overdue |-> TRUE]},
             {[severity |-> "critical", overdue |-> FALSE], [severity |-> "unreadable", overdue |-> FALSE]}},
   history : Pasts]

OwnYAML == [repository |-> "this", process |-> "yaml", file |-> "strong", template |-> FALSE]
MCPipeline == {OwnYAML, [OwnYAML EXCEPT !.file = "weak"], [OwnYAML EXCEPT !.file = "none"],
  [OwnYAML EXCEPT !.file = "none", !.template = TRUE], [OwnYAML EXCEPT !.repository = "other"]}

AzureScaWorlds ==
  [found : BOOLEAN, pipeline : {(t1 :> p @@ t2 :> q) : p \in MCPipeline, q \in {OwnYAML, [OwnYAML EXCEPT !.file = "none"]}},
   setup : {"on", "off"}, history : Pasts,
   alerts : {Disabled, {}} \cup {{[overdue |-> o, dated |-> d]} : o, d \in BOOLEAN}]

Done(i, t, c, ok, when) == [id |-> i, tool |-> t, commit |-> c, success |-> ok, finished |-> TRUE,
                            at |-> when, report |-> FALSE]
j1 == Done(1, t1, "a", TRUE, 3)
j2 == Done(2, t1, "b", FALSE, 4)
j3 == [Done(3, t2, "b", TRUE, 5) EXCEPT !.report = TRUE]
MCJob == {j1, j2, j3}
MCJobHistory == [releases : {{nightly}, {v1, v2}}, jobs : {{}, {j1, j2}, {j1, j3}, MCJob}]

Finding(state, overdue) == [dependency |-> TRUE, state |-> state, critical |-> TRUE, overdue |-> overdue]
GitLabScaWorlds ==
  [config : {Unusable} \cup {(t1 :> e @@ t2 :> "none") : e \in {"none", "weak", "strong"}},
   history : MCJobHistory, scanned : {{"go.mod"}, {"sub/go.mod"}}, manifests : SUBSET {"go.mod", "sub/go.mod"},
   findings : {{}, {Finding("open", TRUE)}, {Finding("unknown", TRUE)}, {Finding("open", FALSE), Finding("closed", TRUE)},
               {[Finding("open", TRUE) EXCEPT !.dependency = FALSE]}}]

GitHubC06Settings ==
  Near([workflow |-> (t1 :> Flow("strong", FALSE) @@ t2 :> Flow("review", TRUE)), required |-> {t2},
        config |-> {npm, Actions}, manifests |-> {npm}, alerts |-> {},
        history |-> Past({v1, v2}, {Early, Late})], ScaWorlds, {"workflow", "config"})

AzureC06Settings ==
  Near([found |-> TRUE, pipeline |-> (t1 :> OwnYAML @@ t2 :> [OwnYAML EXCEPT !.file = "none"]),
        setup |-> "off", history |-> Past({v1, v2}, {Early, Late}), alerts |-> {}],
       AzureScaWorlds, {"pipeline", "setup", "history"})

GitLabC06Settings ==
  Near([config |-> (t1 :> "strong" @@ t2 :> "none"), history |-> [releases |-> {v1, v2}, jobs |-> {j1, j3}],
        scanned |-> {"go.mod"}, manifests |-> {"go.mod"}, findings |-> {}],
       GitLabScaWorlds, {"config", "history"})

Ships(checksum, signature, attested) == [checksum |-> checksum, signature |-> signature, attested |-> attested]
ProvenanceWorlds ==
  [workflow : {<<>>} \cup {(t1 :> e @@ t2 :> "none") : e \in {"none", "weak", "strong"}},
   releases : {{nightly}, {v1, v2signed}, {v1, v2}},
   asset : {(v1 :> a @@ v2signed :> b @@ v2 :> a @@ nightly :> a) :
              a \in {Ships(TRUE, TRUE, <<TRUE>>), Ships(FALSE, TRUE, <<>>), Ships(TRUE, FALSE, <<FALSE>>)},
              b \in {Ships(TRUE, TRUE, <<>>), Ships(TRUE, FALSE, <<FALSE, TRUE>>), Ships(TRUE, FALSE, <<FALSE, FALSE, TRUE>>)}},
   verified : {{}, {v1}, {v1, v2signed}}, built : {{}, {"a"}, {"a", "b"}}]

GitHubC07Settings ==
  Near([workflow |-> (t1 :> "strong" @@ t2 :> "none"), releases |-> {v1, v2signed},
        asset |-> (v1 :> Ships(TRUE, TRUE, <<TRUE>>) @@ v2signed :> Ships(TRUE, FALSE, <<FALSE, TRUE>>)
                   @@ v2 :> Ships(FALSE, TRUE, <<>>) @@ nightly :> Ships(TRUE, TRUE, <<TRUE>>)),
        verified |-> {v1, v2signed}, built |-> {"a", "b"}], ProvenanceWorlds, {})

AzureC07Settings ==
  Near([found |-> TRUE, pipeline |-> (t1 :> OwnYAML @@ t2 :> [OwnYAML EXCEPT !.file = "none"]),
        history |-> Past({v1, v2}, {Early, Late})],
       [found : BOOLEAN, pipeline : {(t1 :> p @@ t2 :> q) : p \in MCPipeline, q \in {OwnYAML, [OwnYAML EXCEPT !.file = "none"]}},
        history : MCHistory], {"pipeline"})

GitLabC07Settings ==
  LET Sent(c, g) == [checksum |-> c, signature |-> g]
  IN [releases : {{nightly}, {v1, v2}},
      asset : {(v1 :> a @@ v2 :> b @@ v2signed :> a @@ nightly :> b) : a, b \in {Sent(TRUE, TRUE), Sent(TRUE, FALSE), Sent(FALSE, TRUE)}},
      signature : {(v1 :> a @@ v2 :> b @@ v2signed :> a @@ nightly :> a) : a \in {"verified", "blank"}, b \in {"verified", "blank", "unverified", "404"}}]

Unit == [refs |-> {"third-commit", "first-commit"}, permissions |-> {"explicit"}, target |-> "none",
         logins |-> {"oidc"}, hosted |-> FALSE, calls |-> {}]
OtherUnits == {[Unit EXCEPT !.refs = {"first-tag"}], [Unit EXCEPT !.refs = {"third-tag"}],
  [Unit EXCEPT !.permissions = {"missing"}], [Unit EXCEPT !.permissions = {"missing", "explicit"}],
  [Unit EXCEPT !.permissions = {"write-all"}], [Unit EXCEPT !.target = "bare", !.logins = {}],
  [Unit EXCEPT !.target = "head", !.logins = {"static"}], [Unit EXCEPT !.logins = {"ambiguous"}, !.hosted = TRUE]}
Calling(u, calls) == [u EXCEPT !.calls = calls]
Callees(u) == t1 :> Unit @@ t2 :> u @@ w1 :> u @@ w2 :> Unit
Alone(u) == t1 :> u @@ t2 :> Disabled
Chain(u) == t1 :> Calling(u, {t2}) @@ t2 :> Calling(u, {w1})
Pair == t1 :> Calling(Unit, {t2}) @@ t2 :> Unit
ActionsWorlds ==
  [private : BOOLEAN, listed : {{}, {t1}, {t1, t2}},
   workflow : (UNION {{Alone(u), Chain(u)} : u \in {Unit, Calling(Unit, {w1}), Calling(Unit, {w1, w2})} \cup OtherUnits})
              \cup {Pair, t1 :> Disabled @@ t2 :> Disabled},
   reusable : {Callees(u) : u \in {Unit} \cup OtherUnits}]

GitHubC08Settings ==
  Near([private |-> FALSE, listed |-> {t1, t2}, workflow |-> Alone(Calling(Unit, {w1})),
        reusable |-> Callees(Unit)], ActionsWorlds, {})
  \cup Near([private |-> FALSE, listed |-> {t1, t2}, workflow |-> Chain(Unit),
             reusable |-> Callees(Unit)], ActionsWorlds, {"private", "workflow"})
  \cup Near([private |-> FALSE, listed |-> {t1, t2}, workflow |-> Pair,
             reusable |-> Callees(Unit)], ActionsWorlds, {})

Guarded == {"enforceJobAuthScope", "enforceJobAuthScopeForReleases", "enforceReferencedRepoScopedToken",
            "buildsEnabledForForks", "forkProtectionEnabled", "enforceNoAccessToSecretsFromForks"}
AzureC08Settings ==
  Near([flags |-> Guarded, schemes |-> {"modern"}, definitions |-> {t1, t2},
        pool |-> (t1 :> "hosted" @@ t2 :> "own"), public |-> TRUE],
       [flags : SUBSET Guarded, schemes : SUBSET {"modern", "static", "unknown"}, definitions : SUBSET {t1, t2},
        pool : [{t1, t2} -> {"hosted", "own", "unresolved"}], public : BOOLEAN], {"definitions", "public", "pool"})

GitLabC08Settings ==
  Near([public |-> TRUE, forks |-> "on", includes |-> {"pinned"}, idTokens |-> "declared", inbound |-> TRUE,
        runners |-> {"group_type"}, variables |-> {"value"}],
       [public : BOOLEAN, forks : {"on", "off", "absent"},
        includes : (SUBSET {"pinned", "unpinned", "unpinnable", "unknown"}) \cup {Unusable},
        idTokens : {"declared", "none", "unparsable"}, inbound : BOOLEAN,
        runners : {{}, {"project_type"}, {"group_type"}},
        variables : {{}, {"value"}, {"hidden", "other"}, {"empty"}}], {"public", "forks", "runners"})
  \cup Near([public |-> FALSE, forks |-> "off", includes |-> {"unpinnable"}, idTokens |-> "none", inbound |-> TRUE,
        runners |-> {}, variables |-> {}],
       [public : {FALSE}, forks : {"off"}, includes : {{"unpinnable"}}, idTokens : {"declared", "none", "unparsable"},
        inbound : {TRUE}, runners : {{}}, variables : SUBSET {"value", "hidden", "empty", "other"}], {"idTokens", "variables"})

Hook(active, events) == [active |-> active, events |-> events]
GitHubC09Settings ==
  [personal : BOOLEAN, log : {TRUE, Disabled},
   hooks : {{}} \cup {{Hook(active, {e}), Hook(TRUE, {"other"})} :
              active \in BOOLEAN, e \in {"push", "release", "deployment", "*", "other"}}]

Subscription(event, subscribed, project) == [event |-> event, status |-> subscribed, project |-> project]
AzureC09Settings ==
  [log : {TRUE, Disabled},
   streams : {{}} \cup {{<<"name", "disabledByUser">>, s} :
                s \in ({"name"} \X {"enabled", "deleted"}) \cup ({"ordinal"} \X {0, 1, 2, 6}) \cup {<<"other", "object">>}},
   project : {"this", Disabled},
   subscriptions : {{}} \cup {{Subscription("other", "enabled", "this"), Subscription(e, subscribed, p)} :
                      e \in {"git.push", "build.complete"}, subscribed \in {"", "enabled", "disabled"},
                      p \in {"", "this", "another"}}]

GitLabC09Settings ==
  [hooks : {{}} \cup {{[alert |-> "disabled", exports |-> TRUE], [alert |-> a, exports |-> b], [alert |-> other, exports |-> TRUE]} :
              a \in {"executable", "temporarily_disabled", "unrecognised"}, b \in BOOLEAN,
              other \in {"disabled", "unrecognised"}}]


At == {"none", "folder", "unreadable", "vague", "mention", "channel"}
Own(n) == {w \in [visible : BOOLEAN, own : [1..n -> At]] : w.visible \/ "channel" \in {w.own[p] : p \in 1..n}}
AzureC10Settings == Own(2)
GitLabC10Settings == {w \in Own(2) : "folder" \notin {w.own[1], w.own[2]}}
GogsC10Settings == Own(3)

GitHubC10Settings ==
  {w \in [visible : BOOLEAN, own : {<<"none", "none", "none">>, <<"none", "vague", "channel">>, <<"folder", "mention", "none">>,
                                     <<"none", "unreadable", "channel">>},
           shared : BOOLEAN, org : {<<"none", "none", "none">>, <<"folder", "vague", "none">>, <<"none", "channel", "unreadable">>,
                                    <<"unreadable", "none", "none">>},
           reporting : {"on", "off", "gated"}] :
     (~w.shared => w.org = <<"none", "none", "none">>) /\ (w.reporting # "on" => w.visible /\ w.own[2] = "vague")}

MCSettings ==
  "github/orgsecurity" :> GitHubC01Settings
  @@ "azuredevops/orgsecurity" :> AzureC01Settings
  @@ "gitlab/orgsecurity" :> GitLabC01Settings
  @@ "github/envseparation" :> GitHubC03Settings
  @@ "azuredevops/envseparation" :> AzureC03Settings
  @@ "gitlab/envseparation" :> GitLabC03Settings
  @@ "github/secretshygiene" :> GitHubC04Settings
  @@ "azuredevops/secretshygiene" :> AzureC04Settings
  @@ "gitlab/secretshygiene" :> GitLabC04Settings
  @@ "github/scahistory" :> GitHubC06Settings
  @@ "azuredevops/scahistory" :> AzureC06Settings
  @@ "gitlab/scahistory" :> GitLabC06Settings
  @@ "github/provenance" :> GitHubC07Settings
  @@ "azuredevops/provenance" :> AzureC07Settings
  @@ "gitlab/provenance" :> GitLabC07Settings
  @@ "github/actionssecurity" :> GitHubC08Settings
  @@ "azuredevops/pipelinesecurity" :> AzureC08Settings
  @@ "gitlab/actionssecurity" :> GitLabC08Settings
  @@ "github/auditlogging" :> GitHubC09Settings
  @@ "azuredevops/auditlogging" :> AzureC09Settings
  @@ "gitlab/auditlogging" :> GitLabC09Settings
  @@ "github/vdp" :> GitHubC10Settings
  @@ "azuredevops/vdp" :> AzureC10Settings
  @@ "gitlab/vdp" :> GitLabC10Settings
  @@ "gogs/vdp" :> GogsC10Settings
=============================================================================
