---------------------------- MODULE ScanCommand -----------------------------
(***************************************************************************)
(* What `attestward scan` does from the settings to the pack (runScanCmd). *)
(* What to look at comes from a config file, the flags and the environment *)
(* (cmd/attestward/scan.go, scanconfig.go), a preflight call, and the      *)
(* repositories, given or listed page by page from an account that people  *)
(* go on working in (scanrepos*.go, GetJSONPaged).  Then ScanRun scans it, *)
(* unless no scope was found, under the same context: with it cancelled no *)
(* call succeeds.                                                          *)
(*                                                                         *)
(* A listing is a sequence the server cuts into pages by number at each    *)
(* request: what is created or deleted between two requests moves the      *)
(* rest.  go-github's paging and the servers are external.                 *)
(***************************************************************************)
EXTENDS ScanRun, Integers, Sequences, FiniteSets

CONSTANTS
  PageSize,  \* repositories per page
  MaxPages,  \* pages the GitLab client asks for
  Lookback,  \* the default number of releases
  Account,   \* the repositories an account may start with, as listed: sequences of Listed
  Newcomer,  \* names of repositories that may be created meanwhile
  MaxMoves   \* changes of the account during a listing

\* Marks settings that are done with.
Done == [done |-> TRUE]

Platform == {"github", "azuredevops", "gogs", "gitlab"}
Field == {"org", "platform", "project", "gogs_url", "gitlab_url", "github_url", "repos", "lookback"}

Kind == {"plain", "private", "archived", "fork"}
Listed == [name : STRING, kind : Kind]

\* A page holds something, and the names of an account are its own.
ASSUME ListingAssumption ==
  /\ PageSize \in Nat \ {0} /\ MaxPages \in Nat /\ MaxMoves \in Nat
  /\ Newcomer \subseteq STRING
  /\ \A a \in Account :
       /\ a \in Seq(Listed)
       /\ \A i, j \in DOMAIN a : a[i].name = a[j].name => i = j

VARIABLES
  stage,     \* how far the command is
  given,     \* what it was called with, until it has been used
  cfg,       \* the configuration made of it
  personal,  \* the account is a user's
  typed,     \* GitLab: how the group was named, by its path or its number
  server,    \* how the server pages
  account,   \* the repositories of the account now
  page,      \* the page to ask for next
  got,       \* what the pages so far listed
  inside,    \* the names are relative to the group
  scope,     \* the repositories to scan, each at its place in what was given or listed
  stood,     \* history: plain repositories there from the first request on
  came,      \* history: repositories created since
  left       \* history: repositories deleted since

scopeVars == <<stage, given, cfg, personal, typed, server, account, page, got, inside, scope,
               stood, came, left>>
world == <<personal, typed, server, account, stood, came, left>>
listing == <<page, got, inside>>
-----------------------------------------------------------------------------
(* Settings: a file, flags that were given, an environment. *)

\* A mutant of Merged: a file's list of repositories is not replaced.
MergedReposKept(file, flags) ==
  [f \in Field |->
     IF f \in DOMAIN flags /\ (f = "gitlab_url" => flags[f] # "") /\ (f = "repos" => file[f] = <<>>)
       THEN flags[f] ELSE file[f]]

\* mergeScanConfig: --gitlab-url counts if it is not empty, the others if they were given.
Merged(file, flags) ==
  [f \in Field |->
     IF f \in DOMAIN flags /\ (f = "gitlab_url" => flags[f] # "") THEN flags[f] ELSE file[f]]

WithDefaults(c) ==
  [c EXCEPT !["platform"] = IF @ = "" THEN "github" ELSE @,
            !["lookback"] = IF @ <= 0 THEN Lookback ELSE @]

Settings(g) == WithDefaults(Merged(g.file, g.flags))

\* validate, with validateGogsURL; "bad" stands for an address it refuses.
Valid(c) ==
  /\ c["org"] # ""
  /\ c["platform"] \in Platform
  /\ c["platform"] = "azuredevops" <=> c["project"] # ""
  /\ c["platform"] = "gogs" <=> c["gogs_url"] # ""
  /\ c["gogs_url"] # "bad"
  /\ c["platform"] # "gitlab" => c["gitlab_url"] = ""
  /\ c["platform"] # "github" => c["github_url"] = ""

\* A mutant of Host: the variable counts on every platform.
HostFromAnyEnvironment(c, env) ==
  IF c["platform"] = "gogs" THEN c["gogs_url"]
  ELSE IF c["platform"] = "gitlab" /\ c["gitlab_url"] # "" THEN c["gitlab_url"]
  ELSE IF c["github_url"] # "" THEN c["github_url"] ELSE env.github_url

\* resolveGitHubURL and the client of each platform; "" is the public service.
Host(c, env) ==
  CASE c["platform"] = "github" /\ c["github_url"] = "" -> env.github_url
    [] c["platform"] = "github" /\ c["github_url"] # "" -> c["github_url"]
    [] c["platform"] = "gitlab" -> c["gitlab_url"]
    [] c["platform"] = "gogs" -> c["gogs_url"]
    [] OTHER -> ""

\* The file reads, validate agrees, the platform's token is set, the client can be built.
Accepted(g) ==
  LET c == Settings(g) IN
    /\ g.readable
    /\ Valid(c)
    /\ c["platform"] \in g.env.tokens
    /\ Host(c, g.env) # "bad"

Configuration(g) ==
  LET c == Settings(g) IN
    [platform |-> c["platform"], org |-> c["org"], project |-> c["project"], lookback |-> c["lookback"],
     repos |-> SelectSeq(c["repos"], LAMBDA r : r # ""), server |-> Host(c, g.env),
     isGHES |-> Host(c, g.env) # "" /\ c["platform"] = "github"]

Configure ==
  /\ stage = "called"
  /\ Accepted(given)
  /\ stage' = "configured"
  /\ cfg' = Configuration(given)
  /\ UNCHANGED <<given, world, listing, scope>>

RefuseSettings ==
  /\ stage = "called"
  /\ ~Accepted(given)
  /\ stage' = "refused"
  /\ UNCHANGED <<given, cfg, world, listing, scope>>
-----------------------------------------------------------------------------
(* Preflight and scope. *)

\* What later steps read of the configuration.
Needed(c) == [platform |-> c.platform, repos |-> c.repos]

\* CheckAccount on GitHub: an organisation, or taken for a user's account.
CheckAccount ==
  /\ stage = "configured" /\ cfg.platform = "github"
  /\ stage' = "resolving"
  /\ personal' \in BOOLEAN
  /\ given' = Done /\ cfg' = Needed(cfg)
  /\ UNCHANGED <<typed, server, account, stood, came, left, listing, scope>>

\* The other platforms have no orgChecker.
NoPreflight ==
  /\ stage = "configured" /\ cfg.platform # "github"
  /\ stage' = "resolving"
  /\ given' = Done /\ cfg' = Needed(cfg)
  /\ UNCHANGED <<world, listing, scope>>

\* resolveRepos: the repositories are given.
TakeGiven ==
  /\ stage = "resolving"
  /\ cfg.repos # <<>>
  /\ stage' = "resolved"
  /\ scope' = cfg.repos
  /\ UNCHANGED <<given, cfg, world, listing>>

\* resolveRepos: no repositories are given, and nobody lists those of Azure DevOps.
NothingToList ==
  /\ stage = "resolving"
  /\ cfg.repos = <<>> /\ cfg.platform = "azuredevops"
  /\ stage' = "refused"
  /\ UNCHANGED <<given, cfg, world, listing, scope>>

Lies == [github |-> {"honest"}, gitlab |-> {"honest", "stuck"}, gogs |-> {"honest", "paging"}]

\* The listings of a user's account are of its public repositories.
Listings == {a \in Account : personal => \A i \in DOMAIN a : a[i].kind # "private"}

Plain(a) == {a[i].name : i \in {j \in DOMAIN a : a[j].kind \in {"plain", "private"}}}

StartListing ==
  /\ stage = "resolving"
  /\ cfg.repos = <<>> /\ cfg.platform # "azuredevops"
  /\ stage' = "listing"
  /\ server' \in Lies[cfg.platform]
  /\ typed' \in (IF cfg.platform = "gitlab" THEN {"path", "otherCase", "number"} ELSE {"path"})
  /\ account' \in Listings
  /\ stood' = Plain(account')
  /\ page' = 1
  /\ UNCHANGED <<given, cfg, personal, came, left, got, inside, scope>>
-----------------------------------------------------------------------------
(* Listing. *)

From(n) == (n - 1) * PageSize + 1
Upto(n) == IF n * PageSize < Len(account) THEN n * PageSize ELSE Len(account)
PageOf(n) == SubSeq(account, From(n), Upto(n))
More(n) == n * PageSize < Len(account)

\* A mutant of GitHubPage: the number of the next page is set one request late.
GitHubPageLate ==
  /\ stage = "listing" /\ cfg.platform = "github"
  /\ got' = got \o PageOf(page)
  /\ page' = IF got = <<>> THEN page ELSE page + 1
  /\ stage' = IF More(page) THEN stage ELSE "listed"
  /\ UNCHANGED <<given, cfg, world, inside, scope>>

\* A mutant of GitHubPage: nothing ends the loop.
GitHubPageEndless ==
  /\ stage = "listing" /\ cfg.platform = "github"
  /\ got' = got \o PageOf(page)
  /\ page' = page + 1
  /\ UNCHANGED <<stage, given, cfg, world, inside, scope>>

\* listByOrg and listByUser: until the response names no next page.
GitHubPage ==
  /\ stage = "listing" /\ cfg.platform = "github"
  /\ got' = got \o PageOf(page)
  /\ page' = page + 1
  /\ stage' = IF More(page) THEN stage ELSE "listed"
  /\ UNCHANGED <<given, cfg, world, inside, scope>>

\* The X-Next-Page of a response, 0 when empty.
NextPage == IF server = "stuck" THEN page ELSE IF More(page) THEN page + 1 ELSE 0

\* A mutant of GitLabPage: what was read is handed on when the paging breaks.
GitLabPageKeepsPart ==
  /\ stage = "listing" /\ cfg.platform = "gitlab"
  /\ page' = NextPage
  /\ got' = got \o PageOf(page)
  /\ stage' = IF NextPage \notin page + 1..MaxPages THEN "naming" ELSE stage
  /\ UNCHANGED <<given, cfg, world, inside, scope>>

\* GetJSONPaged: the next page must be a later one, and there are not too many.
GitLabPage ==
  /\ stage = "listing" /\ cfg.platform = "gitlab"
  /\ page' = NextPage
  /\ got' = got \o PageOf(page)
  /\ stage' = CASE NextPage = 0 -> "naming"
                [] NextPage \in page + 1..MaxPages -> stage
                [] OTHER -> "refused"
  /\ UNCHANGED <<given, cfg, world, inside, scope>>

\* ListRepos on GitLab: the group's own path is what every project's begins with.
NameProjects ==
  /\ stage = "naming"
  /\ stage' = "listed"
  /\ inside' = TRUE
  /\ UNCHANGED <<given, cfg, world, page, got, scope>>

\* A mutant of NameUnasked: prefixes are compared as they were typed.
NameUnaskedExactly ==
  /\ stage = "naming"
  /\ stage' = "listed"
  /\ inside' = (typed = "path")
  /\ UNCHANGED <<given, cfg, world, page, got, scope>>

\* The group cannot be asked for its path: what was typed is tried, in any case.
NameUnasked ==
  /\ stage = "naming"
  /\ stage' = "listed"
  /\ inside' = (typed # "number")
  /\ UNCHANGED <<given, cfg, world, page, got, scope>>

\* Gogs: one response, unless it says that it is one page of several.
GogsList ==
  /\ stage = "listing" /\ cfg.platform = "gogs"
  /\ IF server = "paging"
       THEN stage' = "refused" /\ UNCHANGED got
       ELSE stage' = "listed" /\ got' = account
  /\ UNCHANGED <<given, cfg, world, page, inside, scope>>

\* resolveRepos: archived ones and forks are left out, as they were when listed.
Filter ==
  /\ stage = "listed"
  /\ stage' = "resolved"
  /\ scope' = [i \in {j \in DOMAIN got : got[j].kind \notin {"archived", "fork"}} |-> got[i].name]
  /\ UNCHANGED <<given, cfg, world, listing>>

Calling == stage = "listing" \/ (stage = "configured" /\ cfg.platform = "github")

\* The preflight call or the call for a page fails, and the command with it.
CallFails ==
  /\ Calling
  /\ stage' = "refused"
  /\ UNCHANGED <<given, cfg, world, listing, scope>>

Reply == CheckAccount \/ GitHubPage \/ GitLabPage \/ NameProjects \/ GogsList
LocalStep == Configure \/ RefuseSettings \/ NoPreflight \/ TakeGiven \/ NothingToList \/ StartListing \/ NameUnasked \/ Filter
-----------------------------------------------------------------------------
(* The people who work in the account. *)

Moving == stage = "listing" /\ page > 1 /\ came + left < MaxMoves

Names(a) == {a[i].name : i \in DOMAIN a}

Create(n) ==
  /\ Moving
  /\ n \notin Names(account) \cup Names(got)
  /\ \E i \in 0..Len(account) :
       account' = SubSeq(account, 1, i) \o <<[name |-> n, kind |-> "plain"]>>
                    \o SubSeq(account, i + 1, Len(account))
  /\ came' = came + 1
  /\ UNCHANGED <<stage, given, cfg, personal, typed, server, stood, left, listing, scope>>

Delete(i) ==
  /\ Moving
  /\ account' = SubSeq(account, 1, i - 1) \o SubSeq(account, i + 1, Len(account))
  /\ stood' = stood \ {account[i].name}
  /\ left' = left + 1
  /\ UNCHANGED <<stage, given, cfg, personal, typed, server, came, listing, scope>>

Move == (\E n \in Newcomer : Create(n)) \/ \E i \in DOMAIN account : Delete(i)
-----------------------------------------------------------------------------
\* The command is called with g: a file, flags and an environment.
ScopeInit(g) ==
  /\ stage = "called"
  /\ given = g
  /\ cfg = Done /\ personal = FALSE /\ typed = "path" /\ server = "honest" /\ account = <<>>
  /\ page = 0 /\ got = <<>> /\ inside = TRUE /\ scope = <<>>
  /\ stood = {} /\ came = 0 /\ left = 0

\* The scope is handed to the collectors, and the settings are done with.
HandOver ==
  /\ stage = "resolved"
  /\ stage' = "scanning"
  /\ given' = Done /\ cfg' = Done
  /\ personal' = FALSE /\ typed' = "path" /\ server' = "honest" /\ account' = <<>>
  /\ page' = 0 /\ got' = <<>> /\ inside' = TRUE /\ scope' = <<>>
  /\ stood' = {} /\ came' = 0 /\ left' = 0
-----------------------------------------------------------------------------
commandVars == <<scanVars, scopeVars>>

ResolveScope == (LocalStep \/ (Reply /\ ~cancelled) \/ CallFails) /\ UNCHANGED scanVars

\* A collector filter that matches nothing still ends the scan here.
BeginScan == HandOver /\ Preflight

RefuseScan ==
  /\ stage = "refused" /\ Preflight
  /\ phase' = "aborted"
  /\ UNCHANGED scopeVars

CommandMain ==
  \/ ResolveScope
  \/ BeginScan
  \/ RefuseScan
  \/ (CheckCancelled \/ Assemble) /\ UNCHANGED scopeVars

CommandNext ==
  \/ CommandMain
  \/ Move /\ UNCHANGED scanVars
  \/ /\ \/ CancelScan
        \/ \E c \in FansOut : OpenRepos(c)
        \/ \E p \in Pool : LaunchStep(p)
        \/ \E p \in Pool : \E i \in Item(p) : FinishCall(p, i) \/ UnwindCall(p, i)
     /\ UNCHANGED scopeVars

(***************************************************************************)
(* As in ScanRun; the calls that find the scope are calls of the main      *)
(* goroutine and return, like those of the collectors.  Nobody has to stop *)
(* changing the account: the pages it can add are bounded by MaxMoves.     *)
(***************************************************************************)
Fairness ==
  /\ WF_commandVars(CommandMain)
  /\ \A c \in FansOut : WF_commandVars(OpenRepos(c) /\ UNCHANGED scopeVars)
  /\ \A p \in Pool : WF_commandVars(LaunchStep(p) /\ UNCHANGED scopeVars)
  /\ \A p \in Pool : \A i \in Item(p) :
       WF_commandVars((FinishCall(p, i) \/ UnwindCall(p, i)) /\ UNCHANGED scopeVars)
-----------------------------------------------------------------------------
(* Properties. *)

ScopeTypeOK ==
  /\ stage \in {"called", "configured", "resolving", "listing", "naming", "listed", "resolved",
                "refused", "scanning"}
  /\ {account[i].kind : i \in DOMAIN account} \subseteq Kind
  /\ page \in 0..(Len(account) + left + 2)
  /\ Names(got) \subseteq STRING /\ personal \in BOOLEAN /\ inside \in BOOLEAN
  /\ came \in 0..MaxMoves /\ left \in 0..MaxMoves
  /\ stage = "configured" => cfg.platform \in Platform

\* Every variable of the command holds a value of its kind.
CommandTypeOK == ScanTypeOK /\ ScopeTypeOK

SameOutcome(g) ==
  /\ stage = "refused" <=> ~Accepted(g)
  /\ stage = "configured" => cfg = Configuration(g)

Blank(f) == IF f = "repos" THEN <<>> ELSE IF f = "lookback" THEN 0 ELSE ""
WithoutFile(g, f) == [g EXCEPT !.file[f] = Blank(f)]

OwnEnvironment(g) ==
  LET p == Settings(g)["platform"] IN
    [g EXCEPT !.env = [tokens |-> @.tokens \cap {p},
                       github_url |-> IF p = "github" THEN @.github_url ELSE ""]]

(***************************************************************************)
(* Only what was chosen counts.  Where a flag is given, what the file says *)
(* of the same setting makes no difference ("flags override its values",   *)
(* scan.go:102), with one exception: --gitlab-url "" leaves the address in *)
(* the file in force.  And what the environment holds for other platforms  *)
(* has no effect: without their tokens and GITHUB_URL the same is scanned, *)
(* on the same host ("a stray GITHUB_URL ... must not affect an            *)
(* azuredevops scan", runScanCmd).                                         *)
(***************************************************************************)
SettingsDecide ==
  stage = "configured" \/ (stage = "refused" /\ cfg = Done) =>
    /\ \A f \in DOMAIN given.flags :
         (f = "gitlab_url" => given.flags[f] # "") => SameOutcome(WithoutFile(given, f))
    /\ SameOutcome(OwnEnvironment(given))

InScope == {scope[i] : i \in DOMAIN scope}

(***************************************************************************)
(* Of the repositories there all through the listing at most one is missed *)
(* for each that was deleted meanwhile, none in an account that stood      *)
(* still, however the server pages: a broken listing is no shorter list    *)
(* but no scan at all.  One is scanned twice, which makes a pack that      *)
(* `diff` refuses, at most for each that was created.  On GitLab the names *)
(* fit under the group, also one written in another case or one whose path *)
(* could not be asked for, unless it was given by number ("cannot silently *)
(* address the wrong thing", scanrepos_gitlab.go:86).                      *)
(***************************************************************************)
ListingIsFaithful ==
  stage = "resolved" /\ cfg.repos = <<>> =>
    /\ Cardinality(stood \ InScope) <= left
    /\ Cardinality(DOMAIN scope) <= Cardinality(InScope) + came
    /\ typed # "number" => inside
=============================================================================
