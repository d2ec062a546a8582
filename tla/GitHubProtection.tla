-------------------------- MODULE GitHubProtection ---------------------------
(***************************************************************************)
(* C02.repo-protection on GitHub: the default branch is protected by the   *)
(* legacy branch protection and by any number of rulesets at once, and the *)
(* collector merges the two (internal/collect/github/repoprotection).      *)
(*                                                                         *)
(* A restriction is what a regime demands.  "pull" is a pull-request rule  *)
(* that requires no review, "unnamed" a status-check rule that names no    *)
(* check, "other" any rule the collector does not track.                   *)
(***************************************************************************)
EXTENDS BranchChecks

CONSTANTS
  Ruleset,  \* the rulesets that can apply to the branch
  Kind,     \* the kinds of rule there are
  NoLegacy  \* a 404: the branch has no legacy protection

Kinds == {"review", "checks", "force", "deletion", "pull", "unnamed", "other"}

Restriction == Kind \cap {"review", "checks", "force", "deletion"}
Tracked == Kind \ {"other"}

Legacy == [on : SUBSET Restriction, excused : BOOLEAN, admins : BOOLEAN]
Rules == [on : SUBSET Kind, bypass : SUBSET {"pull_request", "always"}]
World == [branch : BOOLEAN, legacy : Legacy \cup {NoLegacy}, rules : [Ruleset -> Rules]]

Call == {"repository", "protection", "rules"} \cup Ruleset

Init == InitWith(World, Call)

(***************************************************************************)
(* The calls, in the order the code makes them.  Ruleset details are asked *)
(* for in the order of a Go map, one failure not keeping the others back.  *)
(***************************************************************************)
ReadRepository == Get("repository", world.branch)

ReadProtection ==
  /\ Got("repository") /\ heard["repository"]
  /\ Get("protection", world.legacy)

ReadRules ==
  /\ Got("protection")
  /\ Get("rules", [r \in Ruleset |-> world.rules[r].on])

Relevant == {r \in Ruleset : heard["rules"][r] \cap Tracked # {}}

ReadRuleset(r) ==
  /\ Got("rules")
  /\ r \in Relevant
  /\ Get(r, world.rules[r].bypass)
-----------------------------------------------------------------------------
(***************************************************************************)
(* resolveEffectiveProtection: what either regime provides is provided.    *)
(***************************************************************************)
legacy == heard["protection"]

LegacyHas(what) == legacy # NoLegacy /\ what \in legacy.on
RulesHave(what) == \E r \in Ruleset : what \in heard["rules"][r]
Effective(what) == LegacyHas(what) \/ RulesHave(what)

ProtectionExists ==
  PassIf(\/ legacy # NoLegacy
         \/ \E r \in Ruleset : heard["rules"][r] \cap (Tracked \ {"unnamed"}) # {})

\* A mutant of RequiredReviews: the named bypass allowances are not looked at.
RequiredReviewsUnexcused == PassIf(Effective("review"))

RequiredReviews ==
  IF LegacyHas("review") /\ legacy.excused THEN Partial ELSE PassIf(Effective("review"))

LegacyEnforcesAdmins == legacy # NoLegacy /\ legacy.admins
Bypass == UNION {heard[r] : r \in Relevant}

(***************************************************************************)
(* A mutant of AdminsBound: one regime that binds admins is enough (the    *)
(* bug the comment in resolveEffectiveProtection tells of).                *)
(***************************************************************************)
AdminsBoundByEither ==
  /\ LegacyEnforcesAdmins \/ Relevant # {}
  /\ "always" \notin Bypass

AdminsBound ==
  /\ LegacyEnforcesAdmins \/ Relevant # {}
  /\ legacy = NoLegacy \/ LegacyEnforcesAdmins
  /\ "always" \notin Bypass

AdminEnforced ==
  CASE \E r \in Relevant : heard[r] = Failed -> NotCheckable
    [] OTHER ->
         CASE AdminsBound /\ Bypass = {}                 -> Pass
           [] AdminsBound /\ Bypass # {}                 -> Partial
           [] ~AdminsBound /\ "always" \in Bypass        -> Partial
           [] OTHER                                      -> Fail

Verdict(c) ==
  CASE c = "protection-exists" -> ProtectionExists
    [] c = "required-reviews"  -> RequiredReviews
    [] c = "admin-enforced"    -> AdminEnforced
    [] OTHER                   -> PassIf(Effective(Subject[c]))

\* A mutant of GiveUp: a lookup of bypass actors that failed takes all six along.
GiveUpOnAnyFailure ==
  /\ \/ \E c \in Call : heard[c] = Failed
     \/ heard["repository"] = FALSE
  /\ Emit(AllNotCheckable)

GiveUp ==
  /\ \/ \E c \in {"repository", "protection", "rules"} : heard[c] = Failed
     \/ heard["repository"] = FALSE
  /\ Emit(AllNotCheckable)

Decide ==
  /\ Got("rules")
  /\ \A r \in Relevant : heard[r] # Unasked
  /\ Emit([c \in Check |-> Verdict(c)])

\* One act of an administrator.
Edit == Change({[world EXCEPT !.legacy = l] : l \in Legacy \cup {NoLegacy}}
          \cup {[world EXCEPT !.rules[r] = s] : r \in Ruleset, s \in Rules})

Next ==
  \/ ReadRepository \/ ReadProtection \/ ReadRules
  \/ \E r \in Ruleset : ReadRuleset(r)
  \/ GiveUp \/ Decide \/ Edit

Spec == Init /\ [][Next]_vars
-----------------------------------------------------------------------------
TypeOK == Typed(World, Call)

(***************************************************************************)
(* What GitHub lets happen: does some regime stop this person from doing   *)
(* what the restriction forbids?  A member has no privilege; the excused   *)
(* are named in bypass_pull_request_allowances; the admins are also the    *)
(* bypass actors of every ruleset that has any.                            *)
(***************************************************************************)
Stops(w, who, what) ==
  \/ /\ w.legacy # NoLegacy /\ what \in w.legacy.on
     /\ who = "admin" => w.legacy.admins
     /\ who = "excused" => what # "review" \/ ~w.legacy.excused
  \/ \E r \in Ruleset :
       /\ what \in w.rules[r].on
       /\ who = "admin" => w.rules[r].bypass = {}

Protected(w) == w.legacy # NoLegacy \/ \E r \in Ruleset : w.rules[r].on \cap Tracked # {}

(***************************************************************************)
(* A verified-pass tells of a restriction that did stop everybody without  *)
(* admin rights, at one of the moments of the scan, however the settings   *)
(* were changed during it; partial, of one that stopped the members.       *)
(***************************************************************************)
PassWasTrue ==
  /\ \A c \in DOMAIN Subject : Is(c, Pass) =>
       \E w \in seen : \A who \in {"member", "excused"} : Stops(w, who, Subject[c])
  /\ Is("required-reviews", Partial) => \E w \in seen : Stops(w, "member", "review")
  /\ Is("protection-exists", Pass) => \E w \in seen : Protected(w)

(***************************************************************************)
(* With the settings unchanged during the scan: a verified-fail is true,   *)
(* and admin-enforced passes only if whatever stops a member stops the     *)
(* admins too, both regimes taken together.  These two merge answers of    *)
(* several calls, and a change in between can make either wrong.           *)
(***************************************************************************)
StillTrue ==
  Quiet =>
    /\ \A c \in DOMAIN Subject : Is(c, Fail) => ~Stops(world, "member", Subject[c])
    /\ Is("protection-exists", Fail) => \A a \in Restriction : ~Stops(world, "member", a)
    /\ Is("admin-enforced", Pass) =>
         \A a \in Restriction : Stops(world, "member", a) => Stops(world, "admin", a)
    /\ Is("admin-enforced", Fail) =>
         \/ world.legacy # NoLegacy /\ ~world.legacy.admins
         \/ \A a \in Restriction : ~Stops(world, "member", a)

VerifiedIsTrue == PassWasTrue /\ StillTrue

(***************************************************************************)
(* A check is not-checkable only if a call it needs failed, or there is no *)
(* branch: one lost answer takes along no check that does not rest on it.  *)
(***************************************************************************)
FailuresStayLocal ==
  /\ \A c \in Check \ {"admin-enforced"} : Is(c, NotCheckable) =>
       \/ \E k \in {"repository", "protection", "rules"} : heard[k] = Failed
       \/ heard["repository"] = FALSE
  /\ Is("admin-enforced", NotCheckable) =>
       \/ \E k \in Call : heard[k] = Failed
       \/ heard["repository"] = FALSE
=============================================================================
