------------------------------ MODULE ApiCalls ------------------------------
(***************************************************************************)
(* How a collector's calls reach a platform: http.Client.Do through the    *)
(* chain of RoundTrippers of a Client, for each of the four platforms      *)
(* (internal/collect/<platform>/{client,transport,ratelimit,retry}.go).    *)
(*                                                                         *)
(* Several goroutines scan at once.  Each works on one unit after another  *)
(* (a repository, or the organisation) and builds a Client of its own for  *)
(* each, so a Client's provenance log and, for Azure DevOps, its pending   *)
(* delay belong to one unit.                                               *)
(*                                                                         *)
(* There is no clock: a sleep ends at some time, a delay the platform has  *)
(* asked for is over at some time.                                         *)
(***************************************************************************)
EXTENDS Naturals

CONSTANTS
  Platform,    \* the platforms looked at: a subset of the four
  Thread,      \* the goroutines that make calls
  NumUnits,    \* how many units each works on, in turn
  NumCalls,    \* the most calls each unit needs
  MaxRetries   \* per platform: maxRateLimitRetries or maxRetries

ASSUME CallsAssumption ==
  /\ Platform \subseteq {"github", "azuredevops", "gitlab", "gogs"}
  /\ NumUnits \in Nat \ {0}
  /\ MaxRetries \in [Platform -> Nat]

ASSUME UnitsAssumption == NumCalls \in [1..NumUnits -> Nat \ {0}]

VARIABLES
  platform,   \* the platform of this scan
  cancelled,  \* the context is done
  unit, call, \* the unit and the call each goroutine is at
  pc,         \* where it is inside RoundTrip
  tries,      \* the retries of the layer that counts them
  again,      \* GitLab: the rate-limit layer has already sent once more
  log,        \* per client: how often each answer is in the provenance log
  delay,      \* per client, Azure DevOps: delayUntil lies in the future
  handed,     \* per unit: how often each answer was handed to the collector
  snapshot,   \* per unit: Provenance() as copied into its results
  sent,       \* history: requests on the wire during the present call
  last,       \* history: the last answer to the present call
  stopped     \* history: a secondary rate limit has been met

thread == <<unit, call, pc, tries, again>>
client == <<log, delay>>
results == <<handed, snapshot>>
history == <<sent, last, stopped>>
vars == <<platform, cancelled, thread, client, results, history>>

(***************************************************************************)
(* What may come back.  "limited": 429, or GitHub's primary limit;         *)
(* "slow": 200 with a Retry-After; "final": any other answer below 500;    *)
(* "broken": one whose body could not be read; "error": no answer at all.  *)
(***************************************************************************)
Answer == {"final", "slow", "limited", "secondary", "5xx", "broken", "error"}
Possible ==
  Answer \ CASE platform = "github" -> {"slow"}
             [] platform = "azuredevops" -> {"secondary"}
             [] OTHER -> {"slow", "secondary"}

Client == Thread \X (1..NumUnits)

\* A mutant of ClientOf: all units of a scan share a client.
ClientOfShared(t) == CHOOSE c \in Client : TRUE

\* newClient() is called inside the loop over repositories.
ClientOf(t) == <<t, unit[t]>>

\* What a collector can be handed: an answer, or the error in place of one.
Handed == Answer \cup {"ErrRateLimited"}

NoAnswers == [a \in Answer |-> 0]

Init ==
  /\ platform \in Platform
  /\ cancelled = FALSE
  /\ unit = [t \in Thread |-> 1]
  /\ call = [t \in Thread |-> 1]
  /\ pc = [t \in Thread |-> "idle"]
  /\ tries = [t \in Thread |-> 0]
  /\ again = [t \in Thread |-> FALSE]
  /\ log = [c \in Client |-> NoAnswers]
  /\ delay = [c \in Client |-> FALSE]
  /\ handed = [c \in Client |-> [h \in Handed |-> 0]]
  /\ snapshot = [c \in Client |-> NoAnswers]
  /\ sent = [t \in Thread |-> 0]
  /\ last = [t \in Thread |-> "none"]
  /\ stopped = FALSE
-----------------------------------------------------------------------------
(***************************************************************************)
(* A request is put on the wire; net/http refuses to when the context is   *)
(* done.                                                                   *)
(***************************************************************************)
Send(t) ==
  IF cancelled
    THEN /\ pc' = [pc EXCEPT ![t] = "unsent"]
         /\ UNCHANGED sent
    ELSE /\ pc' = [pc EXCEPT ![t] = "sent"]
         /\ sent' = [sent EXCEPT ![t] = @ + 1]

\* A call begins.  Azure DevOps first sleeps off a delay asked for earlier.
Begin(t) ==
  /\ pc[t] = "idle"
  /\ unit[t] <= NumUnits
  /\ call[t] <= NumCalls[unit[t]]
  /\ IF delay[ClientOf(t)]
       THEN pc' = [pc EXCEPT ![t] = "delayed"] /\ UNCHANGED sent
       ELSE Send(t)
  /\ UNCHANGED <<platform, cancelled, unit, call, tries, again, client, results, last, stopped>>

(***************************************************************************)
(* What the chain does with an answer.                                     *)
(***************************************************************************)
\* A mutant of Transient: GitHub's secondary limit is taken for the primary.
TransientSecondary ==
  CASE platform \in {"github", "azuredevops"} -> {"limited", "secondary"}
    [] platform = "gogs"   -> {"5xx"}
    [] platform = "gitlab" -> {"5xx", "broken", "error"}

\* Retried by the layer that counts its retries.
Transient ==
  CASE platform \in {"github", "azuredevops"} -> {"limited"}
    [] platform = "gogs"   -> {"5xx"}
    [] platform = "gitlab" -> {"5xx", "broken", "error"}

\* A mutant of Pause: Gogs waits with time.Sleep.
PauseUninterruptible == "asleep"

\* How it waits: time.Sleep, or a select with ctx.Done().
Pause == IF platform \in {"github", "azuredevops"} THEN "asleep" ELSE "waiting"

\* A mutant of Recorded: the log is above the layer that retries.
RecordedOutermost(a) == a \notin Transient \cup {"broken", "error"}

\* In the log: every answer read in full; for GitLab failed attempts too.
Recorded(a) == a \notin {"broken", "error"} \/ (a = "error" /\ platform = "gitlab")

\* A mutant of Retry: the retries are counted and the count is not looked at.
RetryUnbounded(t, a) ==
  /\ a \in Transient
  /\ tries[t] < MaxRetries[platform] + 2
  /\ pc' = [pc EXCEPT ![t] = Pause]
  /\ tries' = [tries EXCEPT ![t] = @ + 1]
  /\ UNCHANGED <<call, again, handed>>

Retry(t, a) ==
  /\ a \in Transient
  /\ tries[t] < MaxRetries[platform]
  /\ pc' = [pc EXCEPT ![t] = Pause]
  /\ tries' = [tries EXCEPT ![t] = @ + 1]
  /\ UNCHANGED <<call, again, handed>>

(***************************************************************************)
(* The call is over: the collector gets the answer, or an error in its     *)
(* place, and what comes next starts with fresh counters.                  *)
(***************************************************************************)
HandOver(t, a) ==
  /\ handed' = [handed EXCEPT ![ClientOf(t)][a] = @ + 1]
  /\ pc' = [pc EXCEPT ![t] = "idle"]
  /\ call' = [call EXCEPT ![t] = @ + 1]
  /\ tries' = [tries EXCEPT ![t] = 0]
  /\ again' = [again EXCEPT ![t] = FALSE]

\* ErrRateLimited takes the place of the last 429 of Azure DevOps.
AsHanded(a) == IF platform = "azuredevops" /\ a = "limited" THEN "ErrRateLimited" ELSE a

\* A mutant of ResendLimited: the rate-limit layer is a loop.
ResendLimitedForever(t, a) ==
  /\ platform = "gitlab" /\ a = "limited"
  /\ pc' = [pc EXCEPT ![t] = "asleep"]
  /\ again' = [again EXCEPT ![t] = TRUE]
  /\ tries' = [tries EXCEPT ![t] = 0]
  /\ UNCHANGED <<call, handed>>

\* GitLab: a 429 with a bearable Retry-After is sent once more, retries and all.
ResendLimited(t, a) ==
  /\ platform = "gitlab" /\ a = "limited" /\ ~again[t]
  /\ pc' = [pc EXCEPT ![t] = "asleep"]
  /\ again' = [again EXCEPT ![t] = TRUE]
  /\ tries' = [tries EXCEPT ![t] = 0]
  /\ UNCHANGED <<call, handed>>

\* A mutant of Settled: after the last retry nothing is returned.
SettledOnlyFinal(t, a) == a \notin Transient

Settled(t, a) == ~(a \in Transient /\ tries[t] < MaxRetries[platform])

Answered(t) ==
  /\ pc[t] \in {"sent", "unsent"}
  /\ \E a \in (IF pc[t] = "sent" THEN Possible ELSE {"error"}) :
       /\ log' = IF Recorded(a) THEN [log EXCEPT ![ClientOf(t)][a] = @ + 1] ELSE log
       /\ delay' = [delay EXCEPT ![ClientOf(t)] = @ \/ a = "slow"]
       /\ stopped' = (stopped \/ a = "secondary")
       /\ \/ Retry(t, a)
          \/ ResendLimited(t, a)
          \/ Settled(t, a) /\ HandOver(t, AsHanded(a))
       /\ IF call'[t] = call[t]
            THEN last' = [last EXCEPT ![t] = a] /\ UNCHANGED sent
            ELSE last' = [last EXCEPT ![t] = "none"] /\ sent' = [sent EXCEPT ![t] = 0]
  /\ UNCHANGED <<platform, cancelled, unit, snapshot>>

(***************************************************************************)
(* A sleep is over.  waitPendingDelay sleeps to the deadline it has read.  *)
(***************************************************************************)
Wake(t) ==
  /\ \/ pc[t] \in {"asleep", "waiting"}
     \/ pc[t] = "delayed" /\ ~delay[ClientOf(t)]
  /\ Send(t)
  /\ UNCHANGED <<platform, cancelled, unit, call, tries, again, client, results, last, stopped>>

\* The select of the interruptible wait finds the context done.
Interrupt(t) ==
  /\ pc[t] = "waiting"
  /\ cancelled
  /\ HandOver(t, "error")
  /\ last' = [last EXCEPT ![t] = "none"]
  /\ sent' = [sent EXCEPT ![t] = 0]
  /\ UNCHANGED <<platform, cancelled, unit, client, snapshot, stopped>>

\* The time the platform asked for is over.
DelayOver(c) ==
  /\ delay[c]
  /\ delay' = [delay EXCEPT ![c] = FALSE]
  /\ UNCHANGED <<platform, cancelled, thread, log, results, history>>

(***************************************************************************)
(* The unit is done - after which of its calls depends on their answers -  *)
(* and its results take a copy of the log; the next unit begins.  The      *)
(* pool skips a collector whose turn comes after the cancellation; the     *)
(* collectors, but for those of GitLab, skip a repository.                 *)
(***************************************************************************)
NextUnit(t) ==
  /\ unit' = [unit EXCEPT ![t] = @ + 1]
  /\ call' = [call EXCEPT ![t] = 1]
  /\ UNCHANGED <<platform, cancelled, pc, tries, again, client, handed, history>>

FinishUnit(t) ==
  /\ pc[t] = "idle"
  /\ unit[t] <= NumUnits
  /\ call[t] > 1
  /\ snapshot' = [snapshot EXCEPT ![<<t, unit[t]>>] = log[ClientOf(t)]]
  /\ NextUnit(t)

SkipUnit(t) ==
  /\ pc[t] = "idle"
  /\ unit[t] <= NumUnits
  /\ call[t] = 1
  /\ cancelled /\ (unit[t] = 1 \/ platform # "gitlab")
  /\ NextUnit(t)
  /\ UNCHANGED snapshot

Cancel ==
  /\ ~cancelled
  /\ cancelled' = TRUE
  /\ UNCHANGED <<platform, thread, client, results, history>>

Step(t) ==
  Begin(t) \/ Answered(t) \/ Wake(t) \/ Interrupt(t) \/ FinishUnit(t) \/ SkipUnit(t)

Next ==
  \/ \E t \in Thread : Step(t)
  \/ \E c \in Client : DelayOver(c)
  \/ Cancel

Spec == Init /\ [][Next]_vars

(***************************************************************************)
(* The goroutines run, and a request whose context is done returns         *)
(* (net/http).  That the platform answers a request or its connection      *)
(* fails - the client sets no timeout of its own - and that time passes is *)
(* no more than an assumption: Environment.                                *)
(***************************************************************************)
Prompt(t) ==
  \/ Begin(t) \/ Interrupt(t) \/ FinishUnit(t) \/ SkipUnit(t)
  \/ cancelled /\ Answered(t)

FairSpec == Spec /\ \A t \in Thread : WF_vars(Prompt(t))

Environment ==
  /\ \A t \in Thread : WF_vars(Answered(t) \/ Wake(t))
  /\ \A c \in Client : WF_vars(DelayOver(c))
-----------------------------------------------------------------------------
Counts == [Answer -> Nat]

TypeOK ==
  /\ platform \in Platform
  /\ cancelled \in BOOLEAN
  /\ unit \in [Thread -> 1..(NumUnits + 1)]
  /\ call \in [Thread -> Nat \ {0}]
  /\ pc \in [Thread -> {"idle", "delayed", "sent", "unsent", "asleep", "waiting"}]
  /\ tries \in [Thread -> Nat] /\ \A t \in Thread : tries[t] <= MaxRetries[platform]
  /\ again \in [Thread -> BOOLEAN]
  /\ log \in [Client -> Counts] /\ snapshot \in [Client -> Counts]
  /\ handed \in [Client -> [Handed -> Nat]]
  /\ delay \in [Client -> BOOLEAN]
  /\ sent \in [Thread -> Nat]
  /\ last \in [Thread -> Answer \cup {"none"}]
  /\ stopped \in BOOLEAN

(***************************************************************************)
(* The provenance copied into the results of a unit is that unit's own and *)
(* leaves nothing out: whatever the other goroutines call meanwhile and    *)
(* however often the chain retried, an answer that is never retried is in  *)
(* it exactly as often as the collector was handed it, any other one at    *)
(* least as often, and ErrRateLimited stands for a 429 of every attempt.   *)
(***************************************************************************)
Read == {"final", "slow", "secondary", "limited", "5xx"}

Backed(s, h) ==
  /\ \A a \in Read : s[a] >= h[a]
  /\ \A a \in Read \ (Transient \cup {"limited"}) : s[a] = h[a]
  /\ s["limited"] >= h["ErrRateLimited"] * (MaxRetries[platform] + 1)

ResultsAreBacked ==
  \A t \in Thread : \A u \in 1..NumUnits :
    u < unit[t] => Backed(snapshot[<<t, u>>], handed[<<t, u>>])

(***************************************************************************)
(* However answers alternate between what one layer retries and what the   *)
(* other does, no call puts more requests on the wire than this.           *)
(***************************************************************************)
Most ==
  IF platform = "gitlab" THEN 2 * (MaxRetries[platform] + 1) ELSE MaxRetries[platform] + 1

RequestsBounded == \A t \in Thread : sent[t] <= Most

(***************************************************************************)
(* A settled answer is never asked for again: within one call only a rate  *)
(* limit, a server error or, for GitLab, a lost answer is followed by      *)
(* another request.  GitHub's secondary limit is not ("never auto-retried  *)
(* - a global stop").                                                      *)
(***************************************************************************)
MayRepeat ==
  {"limited", "5xx"} \cup (IF platform = "gitlab" THEN {"broken", "error"} ELSE {})

OnlyTransientsRetried ==
  [][\A t \in Thread : sent'[t] > sent[t] => last[t] \in {"none"} \cup MayRepeat]_vars

(***************************************************************************)
(* With answers coming and time passing, every goroutine comes to the end  *)
(* of its units: no chain of retries and waits goes on for ever.           *)
(***************************************************************************)
Ended(t) == unit[t] > NumUnits

CallsEnd == Environment => \A t \in Thread : <>Ended(t)

(***************************************************************************)
(* Gogs: a cancelled call ends without waiting for its backoff to pass ("a *)
(* deadline that expires during a backoff has to end the call then"): with *)
(* no sleep ever ending and no answer coming, the goroutines still end.    *)
(***************************************************************************)
CancelEndsCalls == (cancelled /\ platform = "gogs") ~> \A t \in Thread : Ended(t)

(***************************************************************************)
(* docs/architecture.md:303: "stop-the-world on secondary-limit            *)
(* responses".                                                             *)
(***************************************************************************)
StopsTheWorld == [][stopped => \A t \in Thread : sent'[t] <= sent[t]]_vars
=============================================================================
