----------------------------- MODULE MCApiCalls -----------------------------
(***************************************************************************)
(* Instances of ApiCalls.  The retry limits of the code (5, 5, 3, 3) are   *)
(* brought down to one: what matters is that there is a first request, one *)
(* more, and the end of the retries.                                       *)
(***************************************************************************)
EXTENDS ApiCalls

All == {"github", "azuredevops", "gitlab", "gogs"}
OnlyGitHub == {"github"}
TwoThenOne == <<2, 1>>
OneOnly == <<1>>
Once == [p \in Platform |-> 1]
=============================================================================
