----------------------------- MODULE MCScanRun ------------------------------
(***************************************************************************)
(* Three collectors, two of which fan out over the repositories in scope.  *)
(* Flag is --concurrency; ForEachRepo is always called with                *)
(* DefaultConcurrency.                                                     *)
(*                                                                         *)
(* The command is called as for a plain scan of each platform but for two  *)
(* settings, or one setting and the environment.  Accounts hold up to five *)
(* repositories (three pages), one of those of four not a plain one.       *)
(***************************************************************************)
EXTENDS ScanCommand, TLC

CONSTANTS Flag, RepoLimit, NumRepos, NumCollectors

MCCollectors == <<"collectors", 0>>
MCFansOut == 1..(NumCollectors - 1)
MCRepoPool == [c \in MCFansOut |-> <<"repos", c>>]
MCPool == {MCCollectors} \cup {MCRepoPool[c] : c \in MCFansOut}
MCSize == [p \in MCPool |-> IF p = MCCollectors THEN NumCollectors ELSE NumRepos]
MCLimit == [p \in MCPool |-> IF p = MCCollectors THEN Flag ELSE RepoLimit]
MCResult == [p \in MCPool |-> IF p = MCCollectors THEN {"returned", "failed"} ELSE {"rows"}]

Invocation(p) ==
  [readable |-> TRUE,
   file |-> [org |-> "team", platform |-> p, project |-> IF p = "azuredevops" THEN "file" ELSE "",
             gogs_url |-> IF p = "gogs" THEN "file" ELSE "", gitlab_url |-> "", github_url |-> "",
             repos |-> <<>>, lookback |-> 0],
   flags |-> <<>>,
   env |-> [tokens |-> Platform, github_url |-> "env"]]

Names4 == Platform \cup {"", "other"}
Addresses(from) == {"", from, "bad"}

InFile(f) ==
  CASE f = "org" -> {"", "team"}
    [] f = "platform" -> Names4
    [] f = "project" -> {"", "file"}
    [] f = "repos" -> {<<>>, <<"a">>}
    [] f = "lookback" -> {0, 3}
    [] OTHER -> Addresses("file")

OnFlag(f) ==
  CASE f = "org" -> {"", "flag"}
    [] f = "platform" -> Names4
    [] f = "project" -> {"", "flag"}
    [] f = "repos" -> {<<"">>, <<"b", "b">>, <<"b", "">>}
    [] f = "lookback" -> {0, 7}
    [] OTHER -> Addresses("flag")

\* Settings with a value in the file and perhaps one on the command line.
Way == UNION {{f} \X InFile(f) \X ({<<>>} \cup {<<x>> : x \in OnFlag(f)}) : f \in Field}

With(g, w) ==
  [g EXCEPT !.file[w[1]] = w[2],
            !.flags = IF w[3] = <<>> THEN @ ELSE (w[1] :> w[3][1]) @@ @]

Environment == [tokens : {Platform, {"github"}, {}}, github_url : Addresses("env")]

RepoName == <<"r1", "r2", "r3", "r4", "r5">>
Repos(n, odd, k) == [i \in 1..n |-> [name |-> RepoName[i], kind |-> IF i = odd THEN k ELSE "plain"]]
MCAccount == {Repos(n, 0, "plain") : n \in 0..5} \cup {Repos(4, odd, k) : odd \in {2, 3}, k \in Kind}

CallWith(g) == ScanInit /\ ScopeInit(g)

MCInit ==
  \E p \in Platform :
    \/ \E v, w \in Way : CallWith(With(With(Invocation(p), v), w))
    \/ \E v \in Way, e \in Environment : CallWith([With(Invocation(p), v) EXCEPT !.env = e])
    \/ CallWith([Invocation(p) EXCEPT !.readable = FALSE])

MCSpec == MCInit /\ [][CommandNext]_commandVars /\ Fairness
=============================================================================
