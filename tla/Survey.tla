-------------------------------- MODULE Survey --------------------------------
(***************************************************************************)
(* What the collectors of the other themes share: a collector works        *)
(* through its calls, of which a few may fail, and reports each check with *)
(* a status that the check's rubric, the table of conditions published     *)
(* with the check, has to account for.  A module of this kind says what    *)
(* the settings are (Worlds), which calls there are (Call), what is made   *)
(* of the answers, and what the rubric says of the settings (Rubric).      *)
(***************************************************************************)
EXTENDS Observation

CONSTANTS
  Disabled,   \* a feature that is turned off altogether
  Settings,   \* the settings there may be at first, by the collector's directory: some of its Worlds
  MaxFailures \* bound: the calls that fail during one collection

FewFailures == Cardinality({c \in DOMAIN heard : heard[c] = Failed}) <= MaxFailures

Ask(c, answer) == Get(c, answer) /\ FewFailures'

Lost(c) == heard[c] = Failed
Heard(calls) == \A c \in calls : heard[c] # Unasked

\* A mutant of Nothing: the first error is all that is reported.
NothingAtAll(checks) == <<>>

\* Something all checks rest on is missing: every check of the collector is not-checkable.
Nothing(checks) == [c \in checks |-> NotCheckable]

SurveyTypeOK(Worlds, Call, Check) ==
  /\ seen \subseteq Worlds /\ world \in seen
  /\ DOMAIN heard = Call
  /\ status = Undecided \/ status \in [Check -> {Pass, Fail, Partial, NotCheckable}]
-----------------------------------------------------------------------------
(***************************************************************************)
(* One verdict per release: a failed one is one failure too many, and one  *)
(* that could not be told only keeps the check from passing.               *)
(***************************************************************************)
\* A mutant of RollUp: what could not be told passes.
RollUpByFailures(verdict) ==
  CASE DOMAIN verdict = {}                           -> NotCheckable
    [] \E r \in DOMAIN verdict : verdict[r] = "failed" -> Fail
    [] OTHER                                         -> Pass

RollUp(verdict) ==
  IF DOMAIN verdict = {} THEN NotCheckable
  ELSE IF \E r \in DOMAIN verdict : verdict[r] = "failed" THEN Fail
  ELSE IF \E r \in DOMAIN verdict : verdict[r] = "unresolved" THEN Partial
  ELSE Pass

\* A tool is recognised by what a file invokes, or only suspected by a name.
ToolVerdict(matched, strong, skipped) ==
  IF strong THEN Pass
  ELSE IF matched # {} THEN Partial
  ELSE IF skipped # {} THEN NotCheckable
  ELSE Fail
-----------------------------------------------------------------------------
(***************************************************************************)
(* Open alerts: one of critical severity may be open for so long, and one  *)
(* whose severity cannot be read may be critical.                          *)
(***************************************************************************)
Alerts == [severity : {"critical", "lesser", "unreadable"}, overdue : BOOLEAN]

Untriaged(alerts) ==
  \/ \E a \in alerts : a.severity = "critical" /\ a.overdue
  \/ \E a \in alerts : a.severity = "unreadable"
=============================================================================
