--------------------------- MODULE ApiCallsProofs ---------------------------
(***************************************************************************)
(* Theorems about ApiCalls: for any number of goroutines, units and calls, *)
(* and any retry limits.  The invariant relates what the goroutine counts  *)
(* (tries, again) to what has gone over the wire (sent), and the log of    *)
(* each client to what its collector was handed.                           *)
(***************************************************************************)
EXTENDS ApiCalls, TLAPS

USE CallsAssumption

\* Requests of the present call: those of the first round of GitLab's
\* rate-limit layer, one per retry, and the one on the wire.
Rounds(t) == IF again[t] THEN MaxRetries[platform] + 1 ELSE 0

Counted(t) ==
  /\ sent[t] <= Rounds(t) + tries[t] + (IF pc[t] = "sent" THEN 1 ELSE 0)
  /\ again[t] => platform = "gitlab"

\* Between requests: a call that is being retried has had a transient answer.
Between(t) ==
  /\ pc[t] \in {"asleep", "waiting"} => last[t] \in MayRepeat
  /\ pc[t] \in {"idle", "delayed"} => last[t] = "none" /\ sent[t] = 0 /\ tries[t] = 0 /\ ~again[t]
  /\ pc[t] # "idle" => unit[t] <= NumUnits /\ call[t] <= NumCalls[unit[t]]

\* The log of a client and what was handed over are in step at any time;
\* the 429s of an Azure DevOps call under way are in the log.
Attempts(c) ==
  IF platform = "azuredevops" /\ unit[c[1]] = c[2] THEN tries[c[1]] ELSE 0

InStep(c) ==
  /\ \A a \in Read : log[c][a] >= handed[c][a]
  /\ \A a \in Read \ (Transient \cup {"limited"}) : log[c][a] = handed[c][a]
  /\ log[c]["limited"] >=
       handed[c]["ErrRateLimited"] * (MaxRetries[platform] + 1) + Attempts(c)
  /\ platform # "azuredevops" => handed[c]["ErrRateLimited"] = 0

\* A finished unit keeps a backed copy; one that has made no call has nothing.
Copied(c) ==
  /\ c[2] < unit[c[1]] => Backed(snapshot[c], handed[c])
  /\ c[2] >= unit[c[1]] => snapshot[c] = NoAnswers
  /\ c[2] > unit[c[1]] \/ (c[2] = unit[c[1]] /\ call[c[1]] = 1) =>
       \A h \in Handed : handed[c][h] = 0

CallsInv ==
  /\ TypeOK
  /\ \A t \in Thread : Counted(t) /\ Between(t)
  /\ \A c \in Client : InStep(c) /\ Copied(c)
-----------------------------------------------------------------------------
(***************************************************************************)
(* The client a goroutine uses is its own.                                 *)
(***************************************************************************)
LEMMA OwnClient ==
  ASSUME NEW t \in Thread, unit[t] \in 1..NumUnits
  PROVE  /\ ClientOf(t) \in Client
         /\ ClientOf(t)[1] = t
         /\ ClientOf(t)[2] = unit[t]
  BY DEF ClientOf, Client

LEMMA ClientParts ==
  ASSUME NEW c \in Client
  PROVE  c[1] \in Thread /\ c[2] \in 1..NumUnits /\ c = <<c[1], c[2]>>
  BY DEF Client

LEMMA RetriesNat == TypeOK => MaxRetries[platform] \in Nat
  BY DEF TypeOK

LEMMA InitInv == Init => CallsInv
<1> SUFFICES ASSUME Init PROVE CallsInv
  OBVIOUS
<1>1. platform \in Platform /\ MaxRetries[platform] \in Nat
  BY DEF Init
<1>2. TypeOK
  <2>1. log \in [Client -> Counts] /\ snapshot \in [Client -> Counts]
    BY DEF Init, Counts, NoAnswers
  <2>2. handed \in [Client -> [Handed -> Nat]]
    BY DEF Init
  <2>3. unit \in [Thread -> 1..(NumUnits + 1)] /\ call \in [Thread -> Nat \ {0}]
    BY DEF Init
  <2>4. tries \in [Thread -> Nat] /\ \A t \in Thread : tries[t] <= MaxRetries[platform]
    BY <1>1 DEF Init
  <2>5. pc \in [Thread -> {"idle", "delayed", "sent", "unsent", "asleep", "waiting"}]
    BY DEF Init
  <2>6. /\ cancelled \in BOOLEAN /\ stopped \in BOOLEAN
        /\ again \in [Thread -> BOOLEAN] /\ delay \in [Client -> BOOLEAN]
    BY DEF Init
  <2>7. sent \in [Thread -> Nat] /\ last \in [Thread -> Answer \cup {"none"}]
    BY DEF Init
  <2> QED  BY <1>1, <2>1, <2>2, <2>3, <2>4, <2>5, <2>6, <2>7 DEF TypeOK
<1>3. \A t \in Thread : Counted(t) /\ Between(t)
  BY <1>1 DEF Init, Counted, Between, Rounds, MayRepeat
<1>4. ASSUME NEW c \in Client PROVE InStep(c)
  <2>1. \A a \in Answer : log[c][a] = 0 /\ handed[c][a] = 0
    BY <1>4 DEF Init, NoAnswers, Handed
  <2>2. handed[c]["ErrRateLimited"] = 0
    BY <1>4 DEF Init, Handed
  <2>3. Attempts(c) = 0
    BY <1>4, ClientParts DEF Init, Attempts
  <2> QED  BY <1>1, <2>1, <2>2, <2>3 DEF InStep, Read, Answer
<1>5. ASSUME NEW c \in Client PROVE Copied(c)
  BY <1>5, ClientParts DEF Init, Copied
<1> QED  BY <1>2, <1>3, <1>4, <1>5 DEF CallsInv
-----------------------------------------------------------------------------
(***************************************************************************)
(* Type correctness, one lemma per kind of step.                           *)
(***************************************************************************)
Places == {"idle", "delayed", "sent", "unsent", "asleep", "waiting"}

LEMMA SendTyped ==
  ASSUME TypeOK, NEW t \in Thread, Send(t)
  PROVE  /\ pc' \in [Thread -> Places]
         /\ sent' \in [Thread -> Nat]
<1>1. pc \in [Thread -> Places] /\ sent \in [Thread -> Nat]
  BY DEF TypeOK, Places
<1>2. CASE cancelled
  BY <1>1, <1>2 DEF Send, Places
<1>3. CASE ~cancelled
  <2>1. sent[t] + 1 \in Nat
    BY <1>1
  <2> QED  BY <1>1, <1>3, <2>1 DEF Send, Places
<1> QED  BY <1>2, <1>3

LEMMA HandOverTyped ==
  ASSUME TypeOK, NEW t \in Thread, NEW h \in Handed, HandOver(t, h),
         ClientOf(t) \in Client, call[t] <= NumCalls[unit[t]]
  PROVE  /\ handed' \in [Client -> [Handed -> Nat]]
         /\ pc' \in [Thread -> Places]
         /\ call' \in [Thread -> Nat \ {0}]
         /\ tries' \in [Thread -> Nat]
         /\ \A u \in Thread : tries'[u] <= MaxRetries[platform]
         /\ again' \in [Thread -> BOOLEAN]
<1>1. handed' \in [Client -> [Handed -> Nat]]
  BY DEF HandOver, TypeOK
<1>2. MaxRetries[platform] \in Nat
  BY RetriesNat
<1>3. call[t] + 1 \in Nat \ {0}
  BY DEF TypeOK
<1>4. call' \in [Thread -> Nat \ {0}]
  BY <1>3 DEF HandOver, TypeOK
<1> QED  BY <1>1, <1>2, <1>4 DEF HandOver, TypeOK, Places

LEMMA AnsweredTyped ==
  ASSUME CallsInv, NEW t \in Thread, Answered(t)
  PROVE  TypeOK'
<1> USE DEF CallsInv
<1>1. /\ unit[t] \in 1..NumUnits
      /\ call[t] <= NumCalls[unit[t]]
  BY DEF Answered, Between, TypeOK
<1>2. ClientOf(t) \in Client
  BY <1>1, OwnClient
<1>3. PICK a \in Answer :
        /\ log' = IF Recorded(a) THEN [log EXCEPT ![ClientOf(t)][a] = @ + 1] ELSE log
        /\ delay' = [delay EXCEPT ![ClientOf(t)] = @ \/ a = "slow"]
        /\ stopped' = (stopped \/ a = "secondary")
        /\ \/ Retry(t, a)
           \/ ResendLimited(t, a)
           \/ Settled(t, a) /\ HandOver(t, AsHanded(a))
        /\ IF call'[t] = call[t]
             THEN last' = [last EXCEPT ![t] = a] /\ UNCHANGED sent
             ELSE last' = [last EXCEPT ![t] = "none"] /\ sent' = [sent EXCEPT ![t] = 0]
  BY DEF Answered, Possible, Answer
<1>4. log' \in [Client -> Counts]
  <2>1. CASE Recorded(a)
    BY <1>2, <1>3, <2>1 DEF TypeOK, Counts
  <2>2. CASE ~Recorded(a)
    BY <1>3, <2>2 DEF TypeOK
  <2> QED  BY <2>1, <2>2
<1>5. delay' \in [Client -> BOOLEAN] /\ stopped' \in BOOLEAN
  BY <1>2, <1>3 DEF TypeOK
<1>6. sent' \in [Thread -> Nat] /\ last' \in [Thread -> Answer \cup {"none"}]
  <2>1. CASE call'[t] = call[t]
    BY <1>3, <2>1 DEF TypeOK
  <2>2. CASE call'[t] # call[t]
    BY <1>3, <2>2 DEF TypeOK
  <2> QED  BY <2>1, <2>2
<1>7. UNCHANGED <<platform, cancelled, unit, snapshot>>
  BY DEF Answered
<1>8. /\ handed' \in [Client -> [Handed -> Nat]]
      /\ pc' \in [Thread -> Places]
      /\ call' \in [Thread -> Nat \ {0}]
      /\ tries' \in [Thread -> Nat]
      /\ \A u \in Thread : tries'[u] <= MaxRetries[platform]
      /\ again' \in [Thread -> BOOLEAN]
  <2>1. MaxRetries[platform] \in Nat
    BY RetriesNat
  <2>2. CASE Retry(t, a)
    BY <2>1, <2>2 DEF Retry, Pause, TypeOK, Places
  <2>3. CASE ResendLimited(t, a)
    BY <2>1, <2>3 DEF ResendLimited, TypeOK, Places
  <2>4. CASE HandOver(t, AsHanded(a))
    <3>1. AsHanded(a) \in Handed
      BY DEF AsHanded, Handed
    <3> QED  BY <1>1, <1>2, <2>4, <3>1, HandOverTyped
  <2> QED  BY <1>3, <2>2, <2>3, <2>4
<1> QED  BY <1>4, <1>5, <1>6, <1>7, <1>8 DEF TypeOK, Places

LEMMA NextUnitTyped ==
  ASSUME CallsInv, NEW t \in Thread, NextUnit(t), unit[t] <= NumUnits,
         snapshot' \in [Client -> Counts]
  PROVE  TypeOK'
<1>1. unit[t] + 1 \in 1..(NumUnits + 1)
  BY DEF CallsInv, TypeOK
<1>2. unit' \in [Thread -> 1..(NumUnits + 1)] /\ call' \in [Thread -> Nat \ {0}]
  BY <1>1 DEF NextUnit, CallsInv, TypeOK
<1> QED  BY <1>2 DEF NextUnit, client, history, CallsInv, TypeOK

LEMMA TypePreserved ==
  ASSUME CallsInv, [Next]_vars
  PROVE  TypeOK'
<1>1. ASSUME NEW t \in Thread, Begin(t) PROVE TypeOK'
  <2>1. /\ pc' \in [Thread -> Places]
        /\ sent' \in [Thread -> Nat]
    <3>1. CASE delay[ClientOf(t)]
      BY <1>1, <3>1 DEF Begin, CallsInv, TypeOK, Places
    <3>2. CASE ~delay[ClientOf(t)]
      BY <1>1, <3>2, SendTyped DEF Begin, CallsInv
    <3> QED  BY <3>1, <3>2
  <2> QED  BY <1>1, <2>1 DEF Begin, client, results, CallsInv, TypeOK, Places
<1>2. ASSUME NEW t \in Thread, Answered(t) PROVE TypeOK'
  BY <1>2, AnsweredTyped
<1>3. ASSUME NEW t \in Thread, Wake(t) PROVE TypeOK'
  <2>1. /\ pc' \in [Thread -> Places]
        /\ sent' \in [Thread -> Nat]
    BY <1>3, SendTyped DEF Wake, CallsInv
  <2> QED  BY <1>3, <2>1 DEF Wake, client, results, CallsInv, TypeOK, Places
<1>4. ASSUME NEW t \in Thread, Interrupt(t) PROVE TypeOK'
  <2>1. unit[t] \in 1..NumUnits /\ call[t] <= NumCalls[unit[t]]
    BY <1>4 DEF Interrupt, CallsInv, Between, TypeOK
  <2>2. ClientOf(t) \in Client /\ "error" \in Handed
    BY <2>1, OwnClient DEF Handed, Answer
  <2>3. /\ handed' \in [Client -> [Handed -> Nat]]
        /\ pc' \in [Thread -> Places]
        /\ call' \in [Thread -> Nat \ {0}]
        /\ tries' \in [Thread -> Nat]
        /\ \A u \in Thread : tries'[u] <= MaxRetries[platform]
        /\ again' \in [Thread -> BOOLEAN]
    BY <1>4, <2>1, <2>2, HandOverTyped DEF Interrupt, CallsInv
  <2>4. last' \in [Thread -> Answer \cup {"none"}] /\ sent' \in [Thread -> Nat]
    BY <1>4 DEF Interrupt, CallsInv, TypeOK
  <2> QED  BY <1>4, <2>3, <2>4 DEF Interrupt, client, CallsInv, TypeOK, Places
<1>5. ASSUME NEW t \in Thread, FinishUnit(t) PROVE TypeOK'
  <2>1. unit[t] \in 1..NumUnits
    BY <1>5 DEF FinishUnit, CallsInv, TypeOK
  <2>2. log[ClientOf(t)] \in Counts
    BY <2>1, OwnClient DEF CallsInv, TypeOK
  <2>3. snapshot' \in [Client -> Counts]
    BY <1>5, <2>2 DEF FinishUnit, CallsInv, TypeOK
  <2> QED  BY <1>5, <2>3, NextUnitTyped DEF FinishUnit
<1>6. ASSUME NEW t \in Thread, SkipUnit(t) PROVE TypeOK'
  BY <1>6, NextUnitTyped DEF SkipUnit, CallsInv, TypeOK
<1>7. ASSUME NEW c \in Client, DelayOver(c) PROVE TypeOK'
  BY <1>7 DEF DelayOver, thread, results, history, CallsInv, TypeOK
<1>8. CASE Cancel
  BY <1>8 DEF Cancel, thread, client, results, history, CallsInv, TypeOK
<1>9. CASE UNCHANGED vars
  BY <1>9 DEF vars, thread, client, results, history, CallsInv, TypeOK
<1> QED  BY <1>1, <1>2, <1>3, <1>4, <1>5, <1>6, <1>7, <1>8, <1>9 DEF Next, Step
-----------------------------------------------------------------------------
(***************************************************************************)
(* What one answer does.                                                   *)
(***************************************************************************)
Effect(t, a) ==
  /\ log' = IF Recorded(a) THEN [log EXCEPT ![ClientOf(t)][a] = @ + 1] ELSE log
  /\ \/ Retry(t, a)
     \/ ResendLimited(t, a)
     \/ Settled(t, a) /\ HandOver(t, AsHanded(a))
  /\ IF call'[t] = call[t]
       THEN last' = [last EXCEPT ![t] = a] /\ UNCHANGED sent
       ELSE last' = [last EXCEPT ![t] = "none"] /\ sent' = [sent EXCEPT ![t] = 0]
  /\ UNCHANGED <<platform, cancelled, unit, snapshot>>

LEMMA AnswerHasEffect ==
  ASSUME CallsInv, NEW t \in Thread, Answered(t)
  PROVE  /\ \E a \in Answer : Effect(t, a)
         /\ unit[t] \in 1..NumUnits
         /\ call[t] \in Nat \ {0}
<1>1. unit[t] \in 1..NumUnits /\ call[t] \in Nat \ {0}
  BY DEF Answered, CallsInv, Between, TypeOK
<1>2. \E a \in Answer : Effect(t, a)
  BY DEF Answered, Possible, Answer, Effect
<1> QED  BY <1>1, <1>2

(***************************************************************************)
(* The counters of the goroutine that moves.                               *)
(***************************************************************************)
LEMMA MoverCounted ==
  ASSUME CallsInv, NEW t \in Thread, Step(t)
  PROVE  Counted(t)' /\ Between(t)'
<1> USE DEF Counted, Between, Rounds
<1>0. /\ Counted(t) /\ Between(t)
      /\ tries[t] \in Nat /\ tries[t] <= MaxRetries[platform]
      /\ MaxRetries[platform] \in Nat /\ sent[t] \in Nat
      /\ again[t] \in BOOLEAN /\ unit[t] \in Nat /\ call[t] \in Nat
  BY RetriesNat DEF CallsInv, TypeOK
<1>1. CASE Begin(t)
  <2>1. CASE delay[ClientOf(t)]
    BY <1>0, <1>1, <2>1 DEF Begin, CallsInv, TypeOK, MayRepeat
  <2>2. CASE ~delay[ClientOf(t)] /\ cancelled
    BY <1>0, <1>1, <2>2 DEF Begin, Send, CallsInv, TypeOK, MayRepeat
  <2>3. CASE ~delay[ClientOf(t)] /\ ~cancelled
    BY <1>0, <1>1, <2>3 DEF Begin, Send, CallsInv, TypeOK, MayRepeat
  <2> QED  BY <2>1, <2>2, <2>3
<1>2. CASE Answered(t)
  <2>1. PICK a \in Answer : Effect(t, a)
    BY <1>2, AnswerHasEffect
  <2>2. pc[t] \in {"sent", "unsent"}
    BY <1>2 DEF Answered
  <2>3. CASE Retry(t, a)
    <3>1. /\ pc'[t] \in {"asleep", "waiting"} /\ tries'[t] = tries[t] + 1
          /\ again'[t] = again[t] /\ call' = call /\ platform' = platform
      BY <2>1, <2>3 DEF Retry, Pause, Effect, CallsInv, TypeOK
    <3>2. last'[t] = a /\ sent' = sent /\ unit' = unit
      BY <2>1, <3>1 DEF Effect, CallsInv, TypeOK
    <3>3. a \in MayRepeat
      BY <2>3 DEF Retry, Transient, MayRepeat, CallsInv, TypeOK, CallsAssumption
    <3> QED  BY <1>0, <2>2, <3>1, <3>2, <3>3 DEF MayRepeat
  <2>4. CASE ResendLimited(t, a)
    <3>1. /\ pc'[t] = "asleep" /\ tries'[t] = 0 /\ again'[t] = TRUE /\ ~again[t]
          /\ call' = call /\ platform' = platform /\ platform = "gitlab"
      BY <2>1, <2>4 DEF ResendLimited, Effect, CallsInv, TypeOK
    <3>2. last'[t] = "limited" /\ sent' = sent /\ unit' = unit
      BY <2>1, <2>4, <3>1 DEF ResendLimited, Effect, CallsInv, TypeOK
    <3> QED  BY <1>0, <2>2, <3>1, <3>2 DEF MayRepeat
  <2>5. CASE HandOver(t, AsHanded(a))
    <3>1. /\ pc'[t] = "idle" /\ tries'[t] = 0 /\ again'[t] = FALSE
          /\ call'[t] = call[t] + 1
      BY <2>5 DEF HandOver, CallsInv, TypeOK
    <3>2. last'[t] = "none" /\ sent'[t] = 0
      BY <1>0, <2>1, <3>1 DEF Effect, CallsInv, TypeOK
    <3> QED  BY <1>0, <3>1, <3>2
  <2> QED  BY <2>1, <2>3, <2>4, <2>5 DEF Effect
<1>3. CASE Wake(t)
  <2>1. CASE cancelled
    BY <1>0, <1>3, <2>1 DEF Wake, Send, CallsInv, TypeOK, MayRepeat
  <2>2. CASE ~cancelled
    BY <1>0, <1>3, <2>2 DEF Wake, Send, CallsInv, TypeOK, MayRepeat
  <2> QED  BY <2>1, <2>2
<1>4. CASE Interrupt(t)
  BY <1>0, <1>4 DEF Interrupt, HandOver, CallsInv, TypeOK, MayRepeat
<1>5. CASE FinishUnit(t)
  BY <1>0, <1>5 DEF FinishUnit, NextUnit, history, CallsInv, TypeOK, MayRepeat
<1>6. CASE SkipUnit(t)
  BY <1>0, <1>6 DEF SkipUnit, NextUnit, history, CallsInv, TypeOK, MayRepeat
<1> QED  BY <1>1, <1>2, <1>3, <1>4, <1>5, <1>6 DEF Step

(***************************************************************************)
(* The others keep theirs.                                                 *)
(***************************************************************************)
Same(t) ==
  /\ pc'[t] = pc[t] /\ tries'[t] = tries[t] /\ again'[t] = again[t]
  /\ unit'[t] = unit[t] /\ call'[t] = call[t]
  /\ sent'[t] = sent[t] /\ last'[t] = last[t]

LEMMA OthersSame ==
  ASSUME CallsInv, NEW t \in Thread, Step(t)
  PROVE  /\ platform' = platform
         /\ \A u \in Thread \ {t} : Same(u)
<1>1. CASE Begin(t)
  BY <1>1 DEF Begin, Send, Same, CallsInv, TypeOK
<1>2. CASE Answered(t)
  <2>1. PICK a \in Answer : Effect(t, a)
    BY <1>2, AnswerHasEffect
  <2>2. /\ platform' = platform /\ unit' = unit
        /\ \A u \in Thread \ {t} : last'[u] = last[u] /\ sent'[u] = sent[u]
    BY <2>1 DEF Effect, CallsInv, TypeOK
  <2>3. \A u \in Thread \ {t} : /\ pc'[u] = pc[u] /\ tries'[u] = tries[u]
                                 /\ again'[u] = again[u] /\ call'[u] = call[u]
    BY <2>1 DEF Effect, Retry, ResendLimited, HandOver, CallsInv, TypeOK
  <2> QED  BY <2>2, <2>3 DEF Same
<1>3. CASE Wake(t)
  BY <1>3 DEF Wake, Send, Same, CallsInv, TypeOK
<1>4. CASE Interrupt(t)
  BY <1>4 DEF Interrupt, HandOver, Same, CallsInv, TypeOK
<1>5. CASE FinishUnit(t)
  BY <1>5 DEF FinishUnit, NextUnit, history, Same, CallsInv, TypeOK
<1>6. CASE SkipUnit(t)
  BY <1>6 DEF SkipUnit, NextUnit, history, Same, CallsInv, TypeOK
<1> QED  BY <1>1, <1>2, <1>3, <1>4, <1>5, <1>6 DEF Step

LEMMA CountersPreserved ==
  ASSUME CallsInv, [Next]_vars
  PROVE  \A t \in Thread : Counted(t)' /\ Between(t)'
<1>1. ASSUME NEW t \in Thread, Step(t), NEW u \in Thread PROVE Counted(u)' /\ Between(u)'
  <2>1. CASE u = t
    BY <1>1, <2>1, MoverCounted
  <2>2. CASE u # t
    BY <1>1, <2>2, OthersSame DEF Same, Counted, Between, Rounds, MayRepeat, CallsInv
  <2> QED  BY <2>1, <2>2
<1>2. ASSUME NEW c \in Client, DelayOver(c), NEW u \in Thread PROVE Counted(u)' /\ Between(u)'
  BY <1>2 DEF DelayOver, thread, history, Counted, Between, Rounds, MayRepeat, CallsInv
<1>3. ASSUME Cancel, NEW u \in Thread PROVE Counted(u)' /\ Between(u)'
  BY <1>3 DEF Cancel, thread, history, Counted, Between, Rounds, MayRepeat, CallsInv
<1>4. ASSUME UNCHANGED vars, NEW u \in Thread PROVE Counted(u)' /\ Between(u)'
  BY <1>4 DEF vars, thread, history, Counted, Between, Rounds, MayRepeat, CallsInv
<1> QED  BY <1>1, <1>2, <1>3, <1>4 DEF Next
-----------------------------------------------------------------------------
(***************************************************************************)
(* The log of the client that gets an answer.                              *)
(***************************************************************************)
LEMMA LogGrows ==
  ASSUME CallsInv, NEW t \in Thread, NEW a \in Answer, Effect(t, a),
         unit[t] \in 1..NumUnits
  PROVE  LET c == ClientOf(t) IN
         /\ \A b \in Answer : /\ log[c][b] \in Nat
                              /\ b # a => log'[c][b] = log[c][b]
         /\ Recorded(a) => log'[c][a] = log[c][a] + 1
         /\ log'[c][a] >= log[c][a]
         /\ \A d \in Client \ {c} : log'[d] = log[d]
<1>1. ClientOf(t) \in Client
  BY OwnClient
<1>2. CASE Recorded(a)
  BY <1>1, <1>2 DEF Effect, CallsInv, TypeOK, Counts
<1>3. CASE ~Recorded(a)
  BY <1>1, <1>3 DEF Effect, CallsInv, TypeOK, Counts
<1> QED  BY <1>2, <1>3

LEMMA HandedGrows ==
  ASSUME CallsInv, NEW t \in Thread, NEW h \in Handed, HandOver(t, h),
         unit[t] \in 1..NumUnits
  PROVE  LET c == ClientOf(t) IN
         /\ \A b \in Handed : /\ handed[c][b] \in Nat
                              /\ b # h => handed'[c][b] = handed[c][b]
         /\ handed'[c][h] = handed[c][h] + 1
         /\ \A d \in Client \ {c} : handed'[d] = handed[d]
<1>1. ClientOf(t) \in Client
  BY OwnClient
<1> QED  BY <1>1 DEF HandOver, CallsInv, TypeOK

LEMMA OneMore ==
  ASSUME NEW x \in Nat, NEW m \in Nat
  PROVE  (x + 1) * (m + 1) = x * (m + 1) + m + 1
OBVIOUS

LEMMA AnswerInStep ==
  ASSUME CallsInv, NEW t \in Thread, NEW a \in Answer, Effect(t, a),
         unit[t] \in 1..NumUnits, NEW c, c = ClientOf(t)
  PROVE  InStep(c)'
<1> DEFINE M == MaxRetries[platform]
<1>0. /\ c \in Client /\ c[1] = t /\ c[2] = unit[t] /\ InStep(c)
      /\ M \in Nat /\ tries[t] \in Nat /\ tries[t] <= M
      /\ platform' = platform /\ unit' = unit
      /\ platform \in {"github", "azuredevops", "gitlab", "gogs"}
  BY OwnClient, RetriesNat DEF Effect, CallsInv, TypeOK
<1>1. /\ \A b \in Answer : /\ log[c][b] \in Nat
                           /\ b # a => log'[c][b] = log[c][b]
      /\ Recorded(a) => log'[c][a] = log[c][a] + 1
      /\ log'[c][a] >= log[c][a]
  BY LogGrows
<1>2. Attempts(c) = (IF platform = "azuredevops" THEN tries[t] ELSE 0)
  BY <1>0 DEF Attempts
<1>3. Attempts(c)' = (IF platform = "azuredevops" THEN tries'[t] ELSE 0)
  BY <1>0 DEF Attempts
<1>4. \A b \in Handed : handed[c][b] \in Nat
  BY <1>0 DEF CallsInv, TypeOK
<1>5. Read \subseteq Answer /\ Answer \subseteq Handed /\ "ErrRateLimited" \in Handed \ Answer
  BY DEF Read, Answer, Handed
<1>6. Transient' = Transient
  BY <1>0 DEF Transient
<1>7. platform = "azuredevops" => Transient = {"limited"}
  BY DEF Transient
<1>8. a \in Read => Recorded(a)
  BY DEF Recorded, Read
<1>12. \A b \in Read : /\ log[c][b] \in Nat /\ handed[c][b] \in Nat
                       /\ log'[c][b] = log[c][b] \/ log'[c][b] = log[c][b] + 1
  BY <1>1, <1>4, <1>5, <1>8
<1>9. CASE Retry(t, a)
  <2>1. handed' = handed /\ tries'[t] = tries[t] + 1 /\ a \in Transient
    BY <1>9 DEF Retry, CallsInv, TypeOK
  <2>2. \A b \in Read : log'[c][b] >= handed'[c][b]
    BY <1>0, <1>12, <2>1 DEF InStep
  <2>3. \A b \in Read \ (Transient \cup {"limited"}) : log'[c][b] = handed'[c][b]
    BY <1>0, <1>1, <1>5, <2>1 DEF InStep
  <2>4. log'[c]["limited"] >= handed'[c]["ErrRateLimited"] * (M + 1) + Attempts(c)'
    <3>1. log[c]["limited"] >= handed[c]["ErrRateLimited"] * (M + 1) + Attempts(c)
      BY <1>0 DEF InStep
    <3>2. handed[c]["ErrRateLimited"] * (M + 1) \in Nat
      BY <1>0, <1>4, <1>5
    <3>3. CASE platform = "azuredevops"
      <4>1. a = "limited" /\ log'[c]["limited"] = log[c]["limited"] + 1
        BY <1>1, <1>7, <1>8, <2>1, <3>3 DEF Read
      <4> QED  BY <1>0, <1>1, <1>2, <1>3, <2>1, <3>1, <3>2, <3>3, <4>1
    <3>4. CASE platform # "azuredevops"
      <4>1. log[c]["limited"] \in Nat /\ log'[c]["limited"] \in Nat
        BY <1>1, <1>8 DEF Answer, Read
      <4>2. log'[c]["limited"] >= log[c]["limited"]
        BY <1>1, <4>1 DEF Answer
      <4> QED  BY <1>2, <1>3, <2>1, <3>1, <3>2, <3>4, <4>1, <4>2
    <3> QED  BY <3>3, <3>4
  <2> QED  BY <1>0, <1>6, <2>1, <2>2, <2>3, <2>4 DEF InStep
<1>10. CASE ResendLimited(t, a)
  <2>1. handed' = handed /\ a = "limited" /\ platform = "gitlab"
    BY <1>10 DEF ResendLimited
  <2>2. \A b \in Read : log'[c][b] >= handed'[c][b]
    BY <1>0, <1>12, <2>1 DEF InStep
  <2>3. \A b \in Read \ (Transient \cup {"limited"}) : log'[c][b] = handed'[c][b]
    BY <1>0, <1>1, <1>5, <2>1 DEF InStep
  <2>4. handed'[c]["ErrRateLimited"] = 0 /\ Attempts(c)' = 0
    BY <1>0, <1>3, <2>1 DEF InStep
  <2>5. log'[c]["limited"] >= 0
    BY <1>1, <1>8, <2>1 DEF Answer, Read
  <2> QED  BY <1>0, <1>6, <2>2, <2>3, <2>4, <2>5 DEF InStep
<1>11. CASE Settled(t, a) /\ HandOver(t, AsHanded(a))
  <2>0. AsHanded(a) \in Handed
    BY <1>5 DEF AsHanded
  <2>1. /\ \A b \in Handed : b # AsHanded(a) => handed'[c][b] = handed[c][b]
        /\ handed'[c][AsHanded(a)] = handed[c][AsHanded(a)] + 1
    BY <1>11, <2>0, HandedGrows
  <2>2. tries'[t] = 0
    BY <1>11 DEF HandOver, CallsInv, TypeOK
  <2>3. CASE platform = "azuredevops" /\ a = "limited"
    <3>1. AsHanded(a) = "ErrRateLimited" /\ log'[c]["limited"] = log[c]["limited"] + 1
      BY <1>1, <1>8, <2>3 DEF AsHanded, Read
    <3>2. tries[t] = M
      BY <1>0, <1>7, <1>11, <2>3 DEF Settled
    <3>3. \A b \in Read : log'[c][b] >= handed'[c][b]
      BY <1>0, <1>12, <1>5, <2>1, <3>1 DEF InStep
    <3>4. \A b \in Read \ (Transient \cup {"limited"}) : log'[c][b] = handed'[c][b]
      BY <1>0, <1>1, <1>5, <2>1, <2>3, <3>1 DEF InStep
    <3>5. log'[c]["limited"] >= handed'[c]["ErrRateLimited"] * (M + 1) + Attempts(c)'
      <4>1. log[c]["limited"] >= handed[c]["ErrRateLimited"] * (M + 1) + M
        BY <1>0, <1>2, <2>3, <3>2 DEF InStep
      <4>2. \A x \in Nat : (x + 1) * (M + 1) = x * (M + 1) + M + 1
        BY <1>0, OneMore
      <4>3. handed[c]["ErrRateLimited"] \in Nat /\ handed'[c]["ErrRateLimited"] = handed[c]["ErrRateLimited"] + 1
        BY <1>4, <1>5, <2>1, <3>1
      <4>4. handed[c]["ErrRateLimited"] * (M + 1) \in Nat
        BY <1>0, <4>3
      <4>5. Attempts(c)' = 0
        BY <1>3, <2>2
      <4>6. handed'[c]["ErrRateLimited"] * (M + 1) = handed[c]["ErrRateLimited"] * (M + 1) + M + 1
        BY <4>2, <4>3
      <4>7. log[c]["limited"] \in Nat
        BY <1>1 DEF Answer
      <4> QED  BY <1>0, <3>1, <4>1, <4>4, <4>5, <4>6, <4>7
    <3> QED  BY <1>0, <1>6, <2>3, <3>3, <3>4, <3>5 DEF InStep
  <2>4. CASE ~(platform = "azuredevops" /\ a = "limited")
    <3>1. AsHanded(a) = a /\ a # "ErrRateLimited"
      BY <1>5, <2>4 DEF AsHanded
    <3>2. \A b \in Read : log'[c][b] >= handed'[c][b]
      BY <1>0, <1>1, <1>4, <1>5, <1>8, <2>1, <3>1 DEF InStep
    <3>3. \A b \in Read \ (Transient \cup {"limited"}) : log'[c][b] = handed'[c][b]
      BY <1>0, <1>1, <1>5, <1>8, <2>1, <3>1 DEF InStep
    <3>4. handed'[c]["ErrRateLimited"] = handed[c]["ErrRateLimited"]
      BY <1>5, <2>1, <3>1
    <3>5. Attempts(c)' = 0
      BY <1>3, <2>2
    <3>6. log'[c]["limited"] >= handed'[c]["ErrRateLimited"] * (M + 1) + Attempts(c)'
      <4>1. log[c]["limited"] >= handed[c]["ErrRateLimited"] * (M + 1) + Attempts(c)
        BY <1>0 DEF InStep
      <4>2. Attempts(c) \in Nat
        BY <1>0, <1>2
      <4>3. handed[c]["ErrRateLimited"] * (M + 1) \in Nat
        BY <1>0, <1>4, <1>5
      <4>4. log[c]["limited"] \in Nat /\ log'[c]["limited"] \in Nat
        BY <1>0, <1>1, <1>8 DEF Answer, Read
      <4>5. log'[c]["limited"] >= log[c]["limited"]
        BY <1>1, <4>4 DEF Answer
      <4> QED  BY <3>4, <3>5, <4>1, <4>2, <4>3, <4>4, <4>5
    <3> QED  BY <1>0, <1>6, <3>2, <3>3, <3>4, <3>6 DEF InStep
  <2> QED  BY <2>3, <2>4
<1> QED  BY <1>9, <1>10, <1>11 DEF Effect
-----------------------------------------------------------------------------
(***************************************************************************)
(* A client nobody has an answer for keeps its log and what was handed.    *)
(***************************************************************************)
LEMMA AnswerElsewhere ==
  ASSUME CallsInv, NEW t \in Thread, NEW a \in Answer, Effect(t, a),
         unit[t] \in 1..NumUnits, NEW c \in Client, c # ClientOf(t)
  PROVE  /\ log'[c] = log[c] /\ handed'[c] = handed[c]
         /\ c[1] # t \/ c[2] # unit[t]
<1>1. log'[c] = log[c]
  BY LogGrows
<1>2. handed'[c] = handed[c]
  <2>1. AsHanded(a) \in Handed
    BY DEF AsHanded, Handed
  <2>2. CASE HandOver(t, AsHanded(a))
    BY <2>1, <2>2, HandedGrows
  <2>3. CASE handed' = handed
    BY <2>3
  <2> QED  BY <2>2, <2>3 DEF Effect, Retry, ResendLimited
<1>3. c[1] # t \/ c[2] # unit[t]
  BY ClientParts DEF ClientOf
<1> QED  BY <1>1, <1>2, <1>3

\* InStep depends on no more than this.
LEMMA InStepFrame ==
  ASSUME NEW c, InStep(c), platform' = platform,
         log'[c] = log[c], handed'[c] = handed[c], Attempts(c)' = Attempts(c)
  PROVE  InStep(c)'
  BY DEF InStep, Transient

LEMMA CopiedFrame ==
  ASSUME NEW c \in Client, Copied(c), platform' = platform,
         snapshot'[c] = snapshot[c], handed'[c] = handed[c],
         unit'[c[1]] = unit[c[1]], call'[c[1]] = call[c[1]]
  PROVE  Copied(c)'
  BY DEF Copied, Backed, Transient

LEMMA AnsweredClients ==
  ASSUME CallsInv, NEW t \in Thread, Answered(t), NEW c \in Client
  PROVE  InStep(c)' /\ Copied(c)'
<1>1. PICK a \in Answer : Effect(t, a)
  BY AnswerHasEffect
<1>2. unit[t] \in 1..NumUnits /\ call[t] \in Nat \ {0}
  BY AnswerHasEffect
<1>3. /\ InStep(c) /\ Copied(c) /\ platform' = platform
      /\ unit' = unit /\ snapshot' = snapshot
      /\ c[1] \in Thread
  BY <1>1, ClientParts DEF Effect, CallsInv
<1>4. CASE c # ClientOf(t)
  <2>1. /\ log'[c] = log[c] /\ handed'[c] = handed[c]
        /\ c[1] # t \/ c[2] # unit[t]
    BY <1>1, <1>2, <1>4, AnswerElsewhere
  <2>2. c[1] # t => Same(c[1])
    BY <1>3, OthersSame DEF Step
  <2>3. Attempts(c)' = Attempts(c)
    BY <1>3, <2>1, <2>2 DEF Attempts, Same
  <2>4. InStep(c)'
    BY <1>3, <2>1, <2>3, InStepFrame
  <2>5. Copied(c)'
    BY <1>3, <2>1, <2>2 DEF Copied, Backed, Transient, Same
  <2> QED  BY <2>4, <2>5
<1>5. CASE c = ClientOf(t)
  <2>1. InStep(c)'
    BY <1>1, <1>2, <1>5, AnswerInStep
  <2>2. c[1] = t /\ c[2] = unit[t]
    BY <1>2, <1>5, OwnClient
  <2>3. call'[t] # 1 \/ handed' = handed
    BY <1>1, <1>2 DEF Effect, Retry, ResendLimited, HandOver, CallsInv, TypeOK
  <2>4. call'[t] = 1 => call[t] = 1
    <3>1. call' = call \/ call' = [call EXCEPT ![t] = @ + 1]
      BY <1>1 DEF Effect, Retry, ResendLimited, HandOver
    <3>2. call \in [Thread -> Nat \ {0}]
      BY DEF CallsInv, TypeOK
    <3>3. call[t] + 1 # 1
      BY <1>2
    <3> QED  BY <3>1, <3>2, <3>3
  <2>5. Copied(c)'
    BY <1>2, <1>3, <2>2, <2>3, <2>4 DEF Copied
  <2> QED  BY <2>1, <2>5
<1> QED  BY <1>4, <1>5

LEMMA InterruptClients ==
  ASSUME CallsInv, NEW t \in Thread, Interrupt(t), NEW c \in Client
  PROVE  InStep(c)' /\ Copied(c)'
<1>1. /\ unit[t] \in 1..NumUnits /\ call[t] \in Nat \ {0}
      /\ InStep(c) /\ Copied(c) /\ c[1] \in Thread
      /\ "error" \in Handed /\ "error" \notin Read \cup {"ErrRateLimited"}
      /\ Read \subseteq Handed /\ "limited" \in Read /\ "ErrRateLimited" \in Handed
  BY ClientParts DEF Interrupt, Between, CallsInv, TypeOK, Handed, Answer, Read
<1>2. /\ log' = log /\ unit' = unit /\ snapshot' = snapshot /\ platform' = platform
      /\ HandOver(t, "error")
  BY DEF Interrupt, client
<1>3. /\ \A b \in Handed : b # "error" => handed'[ClientOf(t)][b] = handed[ClientOf(t)][b]
      /\ \A d \in Client \ {ClientOf(t)} : handed'[d] = handed[d]
  BY <1>1, <1>2, HandedGrows
<1>4. \A b \in Read \cup {"ErrRateLimited"} : handed'[c][b] = handed[c][b]
  BY <1>1, <1>3
<1>5. tries'[t] = 0 /\ call'[t] = call[t] + 1
  BY <1>2 DEF HandOver, CallsInv, TypeOK
<1>6. c[1] # t => Same(c[1])
  BY <1>1, OthersSame DEF Step
<1>7. /\ Attempts(c) \in Nat /\ Attempts(c)' \in Nat
      /\ Attempts(c)' <= Attempts(c)
  BY <1>1, <1>2, <1>5, <1>6 DEF Attempts, Same, CallsInv, TypeOK
<1>8. InStep(c)'
  <2>1. \A b \in Read : log'[c][b] >= handed'[c][b]
    BY <1>1, <1>2, <1>4 DEF InStep
  <2>2. \A b \in Read \ (Transient \cup {"limited"})' : log'[c][b] = handed'[c][b]
    BY <1>1, <1>2, <1>4 DEF InStep, Transient
  <2>3. log'[c]["limited"] >=
          handed'[c]["ErrRateLimited"] * (MaxRetries[platform'] + 1) + Attempts(c)'
    <3>1. log[c]["limited"] >=
            handed[c]["ErrRateLimited"] * (MaxRetries[platform] + 1) + Attempts(c)
      BY <1>1 DEF InStep
    <3>2. handed[c]["ErrRateLimited"] * (MaxRetries[platform] + 1) \in Nat
      BY <1>1, RetriesNat DEF CallsInv, TypeOK
    <3>3. log[c]["limited"] \in Nat
      BY DEF CallsInv, TypeOK, Counts, Answer
    <3> QED  BY <1>2, <1>4, <1>7, <3>1, <3>2, <3>3
  <2>4. platform' # "azuredevops" => handed'[c]["ErrRateLimited"] = 0
    BY <1>1, <1>2, <1>4 DEF InStep
  <2> QED  BY <2>1, <2>2, <2>3, <2>4 DEF InStep
<1>9. Copied(c)'
  <2>1. CASE c[1] = t /\ c[2] = unit[t]
    BY <1>1, <1>2, <1>5, <2>1 DEF Copied, CallsInv, TypeOK
  <2>2. CASE c[1] = t /\ c[2] # unit[t]
    <3>1. handed'[c] = handed[c]
      BY <1>1, <1>3, <2>2, OwnClient
    <3> QED  BY <1>1, <1>2, <2>2, <3>1 DEF Copied, Backed, Transient
  <2>3. CASE c[1] # t
    <3>1. handed'[c] = handed[c]
      BY <1>1, <1>3, <2>3, OwnClient
    <3> QED  BY <1>1, <1>2, <1>6, <2>3, <3>1 DEF Copied, Backed, Transient, Same
  <2> QED  BY <2>1, <2>2, <2>3
<1> QED  BY <1>8, <1>9

LEMMA NextUnitInStep ==
  ASSUME CallsInv, NEW t \in Thread, NextUnit(t), pc[t] = "idle", NEW c \in Client
  PROVE  InStep(c)'
<1>1. /\ InStep(c) /\ c[1] \in Thread /\ platform' = platform
      /\ log' = log /\ handed' = handed /\ tries' = tries /\ tries[t] = 0
      /\ unit' = [unit EXCEPT ![t] = @ + 1]
  BY ClientParts DEF NextUnit, client, CallsInv, Between
<1>2. Attempts(c)' = Attempts(c)
  <2>1. CASE c[1] = t
    BY <1>1, <2>1 DEF Attempts
  <2>2. CASE c[1] # t
    BY <1>1, <2>2 DEF Attempts, CallsInv, TypeOK
  <2> QED  BY <2>1, <2>2
<1> QED  BY <1>1, <1>2, InStepFrame

LEMMA NextUnitCopiedElsewhere ==
  ASSUME CallsInv, NEW t \in Thread, NextUnit(t), NEW c \in Client,
         snapshot'[c] = snapshot[c], c[1] = t => c[2] # unit[t]
  PROVE  Copied(c)'
<1>1. /\ Copied(c) /\ c[1] \in Thread /\ c[2] \in Nat /\ platform' = platform
      /\ handed' = handed
      /\ unit[t] \in Nat
      /\ unit' = [unit EXCEPT ![t] = @ + 1] /\ call' = [call EXCEPT ![t] = 1]
  BY ClientParts DEF NextUnit, client, CallsInv, TypeOK
<1>2. CASE c[1] = t
  <2>1. unit'[t] = unit[t] + 1
    BY <1>1 DEF CallsInv, TypeOK
  <2>2. CASE c[2] < unit[t]
    <3>1. Backed(snapshot[c], handed[c])
      BY <1>1, <1>2, <2>2 DEF Copied
    <3>2. Transient' = Transient
      BY <1>1 DEF Transient
    <3>3. Backed(snapshot[c], handed[c])'
      BY <1>1, <3>1, <3>2 DEF Backed
    <3> QED  BY <1>1, <1>2, <2>1, <2>2, <3>3 DEF Copied
  <2>3. CASE c[2] > unit[t]
    BY <1>1, <1>2, <2>1, <2>3 DEF Copied
  <2> QED  BY <1>1, <1>2, <2>2, <2>3
<1>3. CASE c[1] # t
  <2>1. unit'[c[1]] = unit[c[1]] /\ call'[c[1]] = call[c[1]]
    BY <1>1, <1>3 DEF CallsInv, TypeOK
  <2> QED  BY <1>1, <2>1, CopiedFrame
<1> QED  BY <1>2, <1>3

LEMMA FinishClients ==
  ASSUME CallsInv, NEW t \in Thread, FinishUnit(t), NEW c \in Client
  PROVE  InStep(c)' /\ Copied(c)'
<1>1. /\ pc[t] = "idle" /\ unit[t] \in 1..NumUnits /\ NextUnit(t)
      /\ snapshot' = [snapshot EXCEPT ![<<t, unit[t]>>] = log[ClientOf(t)]]
  BY DEF FinishUnit, CallsInv, TypeOK
<1>2. InStep(c)'
  BY <1>1, NextUnitInStep
<1>3. CASE c = ClientOf(t)
  <2>1. c[1] = t /\ c[2] = unit[t]
    BY <1>1, <1>3, OwnClient
  <2>2. snapshot'[c] = log[c]
    BY <1>1, <1>3 DEF ClientOf, CallsInv, TypeOK
  <2>3. /\ InStep(c) /\ tries[t] = 0
        /\ unit'[t] = unit[t] + 1 /\ handed' = handed /\ platform' = platform
    BY <1>1 DEF NextUnit, client, CallsInv, TypeOK, Between
  <2>4. Attempts(c) = 0
    BY <2>1, <2>3 DEF Attempts
  <2>5. handed[c]["ErrRateLimited"] * (MaxRetries[platform] + 1) \in Nat
    BY RetriesNat DEF CallsInv, TypeOK, Handed
  <2>6. Backed(snapshot[c], handed[c])'
    <3>1. Transient' = Transient
      BY <2>3 DEF Transient
    <3>2. log[c]["limited"] >= handed[c]["ErrRateLimited"] * (MaxRetries[platform] + 1)
      BY <2>3, <2>4, <2>5 DEF InStep
    <3> QED  BY <2>2, <2>3, <3>1, <3>2 DEF Backed, InStep
  <2> QED  BY <1>1, <1>2, <2>1, <2>3, <2>6 DEF Copied
<1>4. CASE c # ClientOf(t)
  <2>1. snapshot'[c] = snapshot[c]
    BY <1>1, <1>4 DEF ClientOf, CallsInv, TypeOK
  <2>2. c[1] = t => c[2] # unit[t]
    BY <1>4, ClientParts DEF ClientOf
  <2> QED  BY <1>1, <1>2, <2>1, <2>2, NextUnitCopiedElsewhere
<1> QED  BY <1>3, <1>4

LEMMA SkipClients ==
  ASSUME CallsInv, NEW t \in Thread, SkipUnit(t), NEW c \in Client
  PROVE  InStep(c)' /\ Copied(c)'
<1>1. /\ pc[t] = "idle" /\ unit[t] \in 1..NumUnits /\ NextUnit(t)
      /\ snapshot' = snapshot /\ call[t] = 1
  BY DEF SkipUnit, CallsInv, TypeOK
<1>2. InStep(c)'
  BY <1>1, NextUnitInStep
<1>3. CASE c[1] = t /\ c[2] = unit[t]
  <2>1. /\ Copied(c) /\ unit'[t] = unit[t] + 1 /\ handed' = handed /\ platform' = platform
    BY <1>1 DEF NextUnit, client, CallsInv, TypeOK
  <2>2. snapshot[c] = NoAnswers /\ \A h \in Handed : handed[c][h] = 0
    BY <1>1, <1>3, <2>1 DEF Copied
  <2>3. Backed(snapshot[c], handed[c])'
    <3>1. /\ "ErrRateLimited" \in Handed /\ Read \subseteq Answer /\ Answer \subseteq Handed
          /\ "limited" \in Read
      BY DEF Read, Answer, Handed
    <3>2. MaxRetries[platform] \in Nat
      BY RetriesNat DEF CallsInv
    <3> QED  BY <1>1, <2>1, <2>2, <3>1, <3>2 DEF Backed, NoAnswers, Transient
  <2> QED  BY <1>1, <1>2, <1>3, <2>1, <2>3 DEF Copied
<1>4. CASE ~(c[1] = t /\ c[2] = unit[t])
  BY <1>1, <1>2, <1>4, NextUnitCopiedElsewhere
<1> QED  BY <1>3, <1>4

LEMMA ClientsPreserved ==
  ASSUME CallsInv, [Next]_vars, NEW c \in Client
  PROVE  InStep(c)' /\ Copied(c)'
<1>1. /\ InStep(c) /\ Copied(c)
  BY DEF CallsInv
<1>2. ASSUME UNCHANGED <<platform, unit, call, tries, log, handed, snapshot>>
      PROVE  InStep(c)' /\ Copied(c)'
  <2>1. Attempts(c)' = Attempts(c)
    BY <1>2 DEF Attempts
  <2> QED  BY <1>1, <1>2, <2>1, InStepFrame, CopiedFrame
<1>3. ASSUME NEW t \in Thread, Begin(t) PROVE InStep(c)' /\ Copied(c)'
  BY <1>2, <1>3 DEF Begin, client, results
<1>4. ASSUME NEW t \in Thread, Wake(t) PROVE InStep(c)' /\ Copied(c)'
  BY <1>2, <1>4 DEF Wake, client, results
<1>5. ASSUME NEW t \in Thread, Answered(t) PROVE InStep(c)' /\ Copied(c)'
  BY <1>5, AnsweredClients
<1>6. ASSUME NEW t \in Thread, Interrupt(t) PROVE InStep(c)' /\ Copied(c)'
  BY <1>6, InterruptClients
<1>7. ASSUME NEW t \in Thread, FinishUnit(t) PROVE InStep(c)' /\ Copied(c)'
  BY <1>7, FinishClients
<1>8. ASSUME NEW t \in Thread, SkipUnit(t) PROVE InStep(c)' /\ Copied(c)'
  BY <1>8, SkipClients
<1>9. ASSUME NEW d \in Client, DelayOver(d) PROVE InStep(c)' /\ Copied(c)'
  BY <1>2, <1>9 DEF DelayOver, thread, results
<1>10. CASE Cancel
  BY <1>2, <1>10 DEF Cancel, thread, client, results
<1>11. CASE UNCHANGED vars
  BY <1>2, <1>11 DEF vars, thread, client, results
<1> QED  BY <1>3, <1>4, <1>5, <1>6, <1>7, <1>8, <1>9, <1>10, <1>11 DEF Next, Step
-----------------------------------------------------------------------------
(***************************************************************************)
(* The invariant, and what follows from it for every instance.             *)
(***************************************************************************)
THEOREM CallsInvariant == Spec => []CallsInv
<1>1. CallsInv /\ [Next]_vars => CallsInv'
  BY TypePreserved, CountersPreserved, ClientsPreserved DEF CallsInv, Client
<1> QED  BY InitInv, <1>1, PTL DEF Spec

(***************************************************************************)
(* Every variable keeps its type; no goroutine counts more retries than    *)
(* its platform allows.                                                    *)
(***************************************************************************)
THEOREM CallsTyped == Spec => []TypeOK
<1>1. CallsInv => TypeOK
  BY DEF CallsInv
<1> QED  BY CallsInvariant, <1>1, PTL

(***************************************************************************)
(* No call puts more than (retries + 1) requests on the wire, twice that   *)
(* for GitLab with its two layers, whatever the platform answers.          *)
(***************************************************************************)
THEOREM RequestsAreBounded == Spec => []RequestsBounded
<1>1. CallsInv => RequestsBounded
  <2> SUFFICES ASSUME CallsInv, NEW t \in Thread PROVE sent[t] <= Most
    BY DEF RequestsBounded
  <2>1. /\ Counted(t) /\ MaxRetries[platform] \in Nat
        /\ tries[t] \in Nat /\ tries[t] <= MaxRetries[platform] /\ sent[t] \in Nat
    BY RetriesNat DEF CallsInv, TypeOK
  <2> QED  BY <2>1 DEF Counted, Rounds, Most
<1> QED  BY CallsInvariant, <1>1, PTL

(***************************************************************************)
(* The provenance in the results of a finished unit accounts for every     *)
(* answer the collector was handed.                                        *)
(***************************************************************************)
THEOREM ResultsAlwaysBacked == Spec => []ResultsAreBacked
<1>1. CallsInv => ResultsAreBacked
  <2> SUFFICES ASSUME CallsInv, NEW t \in Thread, NEW u \in 1..NumUnits, u < unit[t]
               PROVE  Backed(snapshot[<<t, u>>], handed[<<t, u>>])
    BY DEF ResultsAreBacked
  <2>1. <<t, u>> \in Client /\ <<t, u>>[1] = t /\ <<t, u>>[2] = u
    BY DEF Client
  <2> QED  BY <2>1 DEF CallsInv, Copied
<1> QED  BY CallsInvariant, <1>1, PTL

(***************************************************************************)
(* A settled answer is never asked for again.                              *)
(***************************************************************************)
THEOREM OnlyTransientsAreRetried == Spec => OnlyTransientsRetried
<1> DEFINE Repeats == \A t \in Thread : sent'[t] > sent[t] => last[t] \in {"none"} \cup MayRepeat
<1>1. CallsInv /\ [Next]_vars => [Repeats]_vars
  <2> SUFFICES ASSUME CallsInv, Next, NEW u \in Thread, sent'[u] > sent[u]
               PROVE  last[u] \in {"none"} \cup MayRepeat
    OBVIOUS
  <2>0. sent[u] \in Nat
    BY DEF CallsInv, TypeOK
  <2>1. sent' # sent
    BY <2>0
  <2>2. PICK t \in Thread : Step(t)
    BY <2>1 DEF Next, DelayOver, Cancel, history
  <2>3. u = t
    BY <2>0, <2>2, OthersSame DEF Same
  <2>4. CASE Begin(t) \/ Wake(t)
    BY <2>3, <2>4 DEF Begin, Wake, CallsInv, Between
  <2>5. CASE Answered(t) \/ Interrupt(t)
    <3>1. sent' = sent \/ sent' = [sent EXCEPT ![t] = 0]
      BY <2>5 DEF Answered, Interrupt
    <3> QED  BY <2>0, <2>1, <2>3, <3>1 DEF CallsInv, TypeOK
  <2>6. CASE FinishUnit(t) \/ SkipUnit(t)
    BY <2>1, <2>6 DEF FinishUnit, SkipUnit, NextUnit, history
  <2> QED  BY <2>2, <2>4, <2>5, <2>6 DEF Step
<1> QED  BY CallsInvariant, <1>1, PTL DEF Spec, OnlyTransientsRetried
=============================================================================
