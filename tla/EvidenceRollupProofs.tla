------------------------ MODULE EvidenceRollupProofs ------------------------
(***************************************************************************)
(* What EvidenceRollup promises, for any checks, collectors, tasks and     *)
(* clusters and any statuses the collectors may hand over, and then Report *)
(* of the documents, for any two builds and mappings.                      *)
(***************************************************************************)
EXTENDS Report, FiniteSetTheorems, WellFoundedInduction, TLAPS

(***************************************************************************)
(* Rollup without its precedence list: the most dominant of what is there. *)
(***************************************************************************)
Worst(S) ==
  IF "verified-fail" \in S THEN "verified-fail"
  ELSE IF "partial" \in S THEN "partial"
  ELSE IF ~(S \subseteq {"self-attested", "verified-pass"}) THEN "not-checkable"
  ELSE IF "self-attested" \in S THEN "self-attested"
  ELSE "verified-pass"

LEMMA ValidIs ==
  Valid = {"verified-fail", "partial", "not-checkable", "self-attested", "verified-pass"}
BY DEF Valid, Precedence

LEMMA OutranksIs ==
  /\ \A s \in Valid : Outranks(s, s) /\ Outranks("verified-fail", s) /\ Outranks(s, "verified-pass")
  /\ \A s \in Valid \ {"verified-fail"} : Outranks("partial", s) /\ ~Outranks(s, "verified-fail")
  /\ \A s \in Valid \ {"verified-fail", "partial"} :
       Outranks("not-checkable", s) /\ ~Outranks(s, "partial")
  /\ Outranks("self-attested", "verified-pass")
  /\ ~Outranks("verified-pass", "self-attested")
  /\ \A s \in {"self-attested", "verified-pass"} : ~Outranks(s, "not-checkable")
<1>1. /\ Precedence[1] = "verified-fail" /\ Precedence[2] = "partial"
      /\ Precedence[3] = "not-checkable" /\ Precedence[4] = "self-attested"
      /\ Precedence[5] = "verified-pass"
  BY DEF Precedence
<1>2. \A j \in 1..5 : j = 1 \/ j = 2 \/ j = 3 \/ j = 4 \/ j = 5
  OBVIOUS
<1>3. \A j, k \in 1..5 : Outranks(Precedence[j], Precedence[k]) <=> j <= k
  BY <1>1, <1>2 DEF Outranks
<1> QED
  BY <1>1, <1>3, ValidIs

(***************************************************************************)
(* On what is present, Rollup picks the worst; nothing present counts as   *)
(* not checkable.                                                          *)
(***************************************************************************)
LEMMA RollupIsWorst ==
  ASSUME NEW S, S # {}
  PROVE  Rollup(S) = Worst(S)
<1> DEFINE present == {Normal(s) : s \in S}
<1>1. Worst(S) \in present
  BY ValidIs DEF Worst, Normal
<1>2. \A t \in present : Outranks(Worst(S), t)
  BY ValidIs, OutranksIs DEF Worst, Normal
<1>3. present \subseteq Valid
  BY ValidIs DEF Normal
<1>4. \A r \in present : (\A t \in present : Outranks(r, t)) => r = Worst(S)
  <2> SUFFICES ASSUME NEW r \in present, Outranks(r, Worst(S)) PROVE r = Worst(S)
    BY <1>1
  <2>1. Outranks(Worst(S), r) /\ r \in Valid /\ Worst(S) \in Valid
    BY <1>1, <1>2, <1>3
  <2> QED
    BY <2>1, OutranksIs, ValidIs
<1> HIDE DEF present
<1>5. (CHOOSE s \in present : \A t \in present : Outranks(s, t)) = Worst(S)
  BY <1>1, <1>2, <1>4
<1> QED
  BY <1>5 DEF Rollup, present

LEMMA WorstIsValid ==
  ASSUME NEW S
  PROVE  Worst(S) \in Valid
BY ValidIs DEF Worst

\* Worst(S) is what the truth table says of a non-empty S.
LEMMA WorstIsTrue ==
  ASSUME NEW S, S # {}
  PROVE  TruthTable(S)[Worst(S)]
<1>1. CASE "verified-fail" \in S
  BY <1>1, ValidIs DEF TruthTable, Worst
<1>2. CASE "verified-fail" \notin S /\ "partial" \in S
  BY <1>2, ValidIs DEF TruthTable, Worst
<1>3. CASE S \cap Gap = {} /\ ~(S \subseteq {"self-attested", "verified-pass"})
  BY <1>3, ValidIs DEF TruthTable, Worst, Gap
<1>4. CASE S \cap Gap = {} /\ S \subseteq {"self-attested", "verified-pass"}
  BY <1>4, ValidIs DEF TruthTable, Worst, Gap
<1> QED
  BY <1>1, <1>2, <1>3, <1>4 DEF Gap

(***************************************************************************)
(* The status of every child in D that has one stands for what is below    *)
(* the child, and there is nothing below the others.                       *)
(***************************************************************************)
StandsFor(D, status, below) ==
  \A c \in D : IF c \in DOMAIN status
                 THEN below[c] # {} /\ Normal(status[c]) = Worst(below[c])
                 ELSE below[c] = {}

IsImage(F, D, status) == \A s : s \in F <=> \E c \in D : s = status[c]
AllBelow(U, D, below) == \A s : s \in U <=> \E c \in D : s \in below[c]

(***************************************************************************)
(* The worst of the worsts is the worst of all.                            *)
(***************************************************************************)
LEMMA WorstOfUnion ==
  ASSUME NEW D, D # {}, NEW f, NEW R, D \subseteq DOMAIN f, StandsFor(D, f, R),
         NEW F, IsImage(F, D, f),
         NEW U, AllBelow(U, D, R)
  PROVE  Worst(F) = Worst(U)
<1> USE DEF StandsFor, IsImage, AllBelow
<1>1. "verified-fail" \in F <=> "verified-fail" \in U
  <2>1. \A c \in D : f[c] = "verified-fail" <=> "verified-fail" \in R[c]
    BY ValidIs DEF Normal, Worst
  <2> QED
    BY <2>1
<1>2. "verified-fail" \notin U => ("partial" \in F <=> "partial" \in U)
  <2>1. \A c \in D : "verified-fail" \notin R[c] => (f[c] = "partial" <=> "partial" \in R[c])
    BY ValidIs DEF Normal, Worst
  <2> QED
    BY <2>1
<1>3. U \cap Gap = {} =>
        (F \subseteq {"self-attested", "verified-pass"} <=> U \subseteq {"self-attested", "verified-pass"})
  <2>1. \A c \in D : R[c] \cap Gap = {} =>
          (f[c] \in {"self-attested", "verified-pass"} <=> R[c] \subseteq {"self-attested", "verified-pass"})
    BY ValidIs DEF Normal, Worst, Gap
  <2> QED
    BY <2>1
<1>4. U \subseteq {"self-attested", "verified-pass"} => ("self-attested" \in F <=> "self-attested" \in U)
  <2>1. \A c \in D : R[c] \subseteq {"self-attested", "verified-pass"} =>
          (f[c] = "self-attested" <=> "self-attested" \in R[c])
    BY ValidIs DEF Normal, Worst
  <2> QED
    BY <2>1
<1>5. Worst(F) = Worst(U)
  <2>1. CASE "verified-fail" \in U
    BY <2>1, <1>1 DEF Worst
  <2>2. CASE "verified-fail" \notin U /\ "partial" \in U
    BY <2>2, <1>1, <1>2 DEF Worst
  <2>3. CASE "verified-fail" \notin U /\ "partial" \notin U
    <3>1. U \cap Gap = {}
      BY <2>3 DEF Gap
    <3>2. CASE U \subseteq {"self-attested", "verified-pass"}
      BY <2>3, <3>1, <3>2, <1>1, <1>2, <1>3, <1>4 DEF Worst
    <3>3. CASE ~(U \subseteq {"self-attested", "verified-pass"})
      BY <2>3, <3>1, <3>3, <1>1, <1>2, <1>3 DEF Worst
    <3> QED
      BY <3>2, <3>3
  <2> QED
    BY <2>1, <2>2, <2>3
<1> QED
  BY <1>5

\* Merging one more status into what stands for S.
LEMMA WorstOfTwo ==
  ASSUME NEW S, S # {}, NEW a, NEW s, Normal(a) = Worst(S)
  PROVE  /\ Rollup({a, s}) = Worst(S \cup {s})
         /\ Outranks(Rollup({a, s}), Normal(a))
<1>1. Rollup({a, s}) = Worst({a, s})
  BY RollupIsWorst
<1>2. Worst({a, s}) = Worst(S \cup {s})
  BY ValidIs DEF Worst, Normal
<1>3. Worst({a, s}) \in Valid /\ Normal(a) \in Valid
  BY ValidIs DEF Worst, Normal
<1>4. Outranks(Worst({a, s}), Normal(a))
  BY ValidIs, OutranksIs DEF Worst, Normal
<1> QED
  BY <1>1, <1>2, <1>4

LEMMA WorstOfOne ==
  ASSUME NEW s
  PROVE  Normal(s) = Worst({s})
BY ValidIs DEF Worst, Normal
-----------------------------------------------------------------------------
(***************************************************************************)
(* What BuildRollup's first loop has made of the results before next.      *)
(***************************************************************************)
Read(rs, n) == {j \in DOMAIN rs : j < n}
CheckAt(rs, j) == Check(rs[j].key)
Seen(rs, c, n) == {rs[j].status : j \in {i \in Read(rs, n) : CheckAt(rs, i) = c}}

Reduced ==
  /\ DOMAIN statusByCheck = {CheckAt(results, j) : j \in Read(results, next)}
  /\ \A c \in DOMAIN statusByCheck : Normal(statusByCheck[c]) = Worst(Seen(results, c, next))

HasGap == \E j \in DOMAIN results : results[j].status \in Gap

IInv ==
  /\ TypeOK
  /\ phase = "flattening" => next \in 1..NumCollectors
  /\ phase \in {"flattening", "attesting"} => statusByCheck = NoMap
  /\ phase \in {"flattening", "attesting", "reducing"} => tasks = NoMap /\ clusters = NoMap
  /\ phase = "reducing" => next \in 1..(Len(results) + 1) /\ Reduced
  /\ phase \in {"reducing", "writing", "written"} => InOrder(results)
  /\ phase \in {"writing", "written"} =>
       TasksAreFlat /\ ClustersAreFlat /\ exitCode = IF HasGap THEN 2 ELSE 0
  /\ phase = "written" => SchemaValid
-----------------------------------------------------------------------------
(***************************************************************************)
(* Sorting returns the same results in another order.                      *)
(***************************************************************************)
LEMMA SortedTyped ==
  ASSUME NEW s \in Seq(Result), NEW t \in StablySorted(s)
  PROVE  /\ t \in Seq(Result)
         /\ RollupAssumption => InOrder(t)
<1>1. PICK p \in Reordering(s) :
        /\ t = [i \in DOMAIN s |-> s[p[i]]]
        /\ \A i, j \in DOMAIN s :
             i < j => \/ Rank[s[p[i]].key] < Rank[s[p[j]].key]
                      \/ Rank[s[p[i]].key] = Rank[s[p[j]].key] /\ p[i] < p[j]
  BY DEF StablySorted
<1>2. p \in [DOMAIN s -> DOMAIN s]
  BY DEF Reordering
<1>3. DOMAIN s = 1..Len(s) /\ Len(s) \in Nat /\ \A i \in DOMAIN s : s[i] \in Result
  OBVIOUS
<1>4. t \in [1..Len(s) -> Result]
  BY <1>1, <1>2, <1>3
<1>5. t \in Seq(Result)
  BY <1>3, <1>4
<1>6. ASSUME RollupAssumption, NEW i \in DOMAIN t, NEW j \in DOMAIN t, i < j
      PROVE  Rank[t[i].key] <= Rank[t[j].key]
  <2>1. i \in DOMAIN s /\ j \in DOMAIN s /\ t[i] = s[p[i]] /\ t[j] = s[p[j]]
    BY <1>1
  <2>2. Rank[t[i].key] \in Nat /\ Rank[t[j].key] \in Nat
    BY <1>4, <1>6, <2>1, <1>3 DEF Result, RollupAssumption
  <2>3. Rank[t[i].key] < Rank[t[j].key] \/ Rank[t[i].key] = Rank[t[j].key]
    BY <1>1, <1>6, <2>1
  <2> QED
    BY <2>2, <2>3
<1> QED
  BY <1>5, <1>6 DEF InOrder

(***************************************************************************)
(* One turn of the first loop.                                             *)
(***************************************************************************)
LEMMA ReduceStep ==
  ASSUME TypeOK, phase = "reducing", Reduced, ReduceNext
  PROVE  /\ Reduced'
         /\ \A c \in DOMAIN statusByCheck :
              /\ c \in DOMAIN statusByCheck'
              /\ Outranks(Normal(statusByCheck'[c]), Normal(statusByCheck[c]))
         /\ statusByCheck' \in [DOMAIN statusByCheck' -> Emitted \cup Valid]
<1> DEFINE k == CheckAt(results, next)
           r == results[next]
<1>1. /\ next \in DOMAIN results /\ next' = next + 1 /\ results' = results
      /\ statusByCheck' = [d \in DOMAIN statusByCheck \cup {k} |->
                             IF d = k THEN Merged(r) ELSE statusByCheck[d]]
  BY DEF ReduceNext, TypeOK, CheckAt
<1>2. Read(results', next') = Read(results, next) \cup {next}
  BY <1>1 DEF Read, TypeOK
<1>3. \A c : Seen(results', c, next') = Seen(results, c, next) \cup (IF c = k THEN {r.status} ELSE {})
  BY <1>1, <1>2 DEF Seen, CheckAt
<1>4. \A c \in DOMAIN statusByCheck : Seen(results, c, next) # {}
  BY DEF Reduced, Seen
<1>5. CASE k \in DOMAIN statusByCheck
  <2>1. Merged(r) = Rollup({statusByCheck[k], r.status})
    BY <1>5 DEF Merged, CheckAt
  <2>2. Normal(statusByCheck[k]) = Worst(Seen(results, k, next)) /\ Seen(results, k, next) # {}
    BY <1>4, <1>5 DEF Reduced
  <2>3. /\ Merged(r) = Worst(Seen(results, k, next) \cup {r.status})
        /\ Outranks(Merged(r), Normal(statusByCheck[k]))
    <3> DEFINE S == Seen(results, k, next)
               a == statusByCheck[k]
               s == r.status
    <3>1. S # {} /\ Normal(a) = Worst(S)
      BY <2>2
    <3> HIDE DEF S, a, s
    <3>2. Rollup({a, s}) = Worst(S \cup {s}) /\ Outranks(Rollup({a, s}), Normal(a))
      BY <3>1, WorstOfTwo
    <3> QED
      BY <2>1, <3>2 DEF S, a, s
  <2>4. Merged(r) \in Valid /\ Normal(Merged(r)) = Merged(r)
    BY <2>3, WorstIsValid DEF Normal
  <2>5. DOMAIN statusByCheck' = {CheckAt(results', j) : j \in Read(results', next')}
    BY <1>1, <1>2, <1>5 DEF Reduced, CheckAt
  <2>6. \A c \in DOMAIN statusByCheck' : Normal(statusByCheck'[c]) = Worst(Seen(results', c, next'))
    <3> SUFFICES ASSUME NEW c \in DOMAIN statusByCheck'
                 PROVE  Normal(statusByCheck'[c]) = Worst(Seen(results', c, next'))
      OBVIOUS
    <3>1. CASE c = k
      BY <3>1, <1>1, <1>3, <2>3, <2>4
    <3>2. CASE c # k
      <4>1. c \in DOMAIN statusByCheck /\ statusByCheck'[c] = statusByCheck[c]
        BY <3>2, <1>1
      <4>2. Seen(results', c, next') = Seen(results, c, next)
        BY <3>2, <1>3
      <4> QED
        BY <4>1, <4>2 DEF Reduced
    <3> QED
      BY <3>1, <3>2
  <2>7. \A c \in DOMAIN statusByCheck : Normal(statusByCheck[c]) \in Valid
    BY ValidIs DEF Normal
  <2>8. statusByCheck' \in [DOMAIN statusByCheck' -> Emitted \cup Valid]
    BY <1>1, <1>5, <2>4 DEF TypeOK
  <2> QED
    BY <1>1, <1>5, <2>3, <2>4, <2>5, <2>6, <2>7, <2>8, OutranksIs DEF Reduced
<1>6. CASE k \notin DOMAIN statusByCheck
  <2>1. Merged(r) = r.status
    BY <1>6 DEF Merged, CheckAt
  <2>2. Seen(results, k, next) = {}
    BY <1>6 DEF Reduced, Seen
  <2>3. Normal(Merged(r)) = Worst(Seen(results', k, next'))
    BY <1>3, <2>1, <2>2, WorstOfOne
  <2>4. r.status \in Emitted
    <3>1. r \in Result
      BY <1>1 DEF TypeOK
    <3> QED
      BY <3>1 DEF Result
  <2>5. DOMAIN statusByCheck' = {CheckAt(results', j) : j \in Read(results', next')}
    BY <1>1, <1>2 DEF Reduced, CheckAt
  <2>6. \A c \in DOMAIN statusByCheck' : Normal(statusByCheck'[c]) = Worst(Seen(results', c, next'))
    <3> SUFFICES ASSUME NEW c \in DOMAIN statusByCheck'
                 PROVE  Normal(statusByCheck'[c]) = Worst(Seen(results', c, next'))
      OBVIOUS
    <3>1. CASE c = k
      BY <3>1, <1>1, <1>3, <2>3
    <3>2. CASE c # k
      <4>1. c \in DOMAIN statusByCheck /\ statusByCheck'[c] = statusByCheck[c]
        BY <3>2, <1>1
      <4>2. Seen(results', c, next') = Seen(results, c, next)
        BY <3>2, <1>3
      <4> QED
        BY <4>1, <4>2 DEF Reduced
    <3> QED
      BY <3>1, <3>2
  <2>7. \A c \in DOMAIN statusByCheck : Normal(statusByCheck[c]) \in Valid
    BY ValidIs DEF Normal
  <2>8. statusByCheck' \in [DOMAIN statusByCheck' -> Emitted \cup Valid]
    BY <1>1, <1>6, <2>1, <2>4 DEF TypeOK
  <2> QED
    BY <1>1, <1>6, <2>5, <2>6, <2>7, <2>8, OutranksIs DEF Reduced
<1> QED
  BY <1>5, <1>6
-----------------------------------------------------------------------------
(***************************************************************************)
(* The two other loops, when the first has read everything.                *)
(***************************************************************************)
LEMMA RawIsBefore ==
  ASSUME TypeOK, phase = "reducing", next = Len(results) + 1, NEW checks
  PROVE  Raw(checks) = UNION {Seen(results, c, next) : c \in checks}
BY DEF Raw, Seen, Read, CheckAt, TypeOK

\* What a map m of statuses should say of p, when U is what is below p.
Told(m, p, U) ==
  /\ p \in DOMAIN m <=> U # {}
  /\ p \in DOMAIN m => m[p] = Worst(U)

\* One level: if every child's status stands for what is below the child, every parent's does.
LEMMA RollUpIsWorst ==
  ASSUME NEW Parent, NEW Children, NEW status, NEW below,
         NEW p, p \in Parent, StandsFor(Children[p], status, below),
         NEW U, AllBelow(U, Children[p], below)
  PROVE  Told(RollUp(Parent, Children, status), p, U)
<1> DEFINE D == Children[p] \cap DOMAIN status
           F == {status[c] : c \in D}
<1>1. AllBelow(U, D, below)
  BY DEF AllBelow, StandsFor
<1>2. p \in DOMAIN RollUp(Parent, Children, status) <=> F # {}
  BY DEF RollUp
<1>3. F # {} <=> U # {}
  BY <1>1 DEF AllBelow, StandsFor
<1>4. ASSUME F # {}
      PROVE  RollUp(Parent, Children, status)[p] = Worst(U)
  <2>1. RollUp(Parent, Children, status)[p] = Rollup(F)
    BY <1>4 DEF RollUp
  <2>2. Rollup(F) = Worst(F)
    BY <1>4, RollupIsWorst
  <2>3. D # {} /\ D \subseteq DOMAIN status /\ StandsFor(D, status, below)
    BY <1>4 DEF StandsFor
  <2>4. Worst(F) = Worst(U)
    <3>1. IsImage(F, D, status)
      BY DEF IsImage
    <3> HIDE DEF D, F
    <3> QED
      BY <1>1, <2>3, <3>1, WorstOfUnion
  <2> QED
    BY <2>1, <2>2, <2>4
<1> HIDE DEF D, F
<1> QED
  BY <1>2, <1>3, <1>4 DEF Told

\* A check in the map has something behind it, and one outside it nothing.
LEMMA ReducedNonEmpty ==
  ASSUME Reduced
  PROVE  \A c : c \in DOMAIN statusByCheck <=> Seen(results, c, next) # {}
BY DEF Reduced, Seen

LEMMA RollUpStep ==
  ASSUME RollupAssumption, TypeOK, phase = "reducing", next \in 1..(Len(results) + 1),
         Reduced, BuildRollup
  PROVE  /\ TasksAreFlat' /\ ClustersAreFlat'
         /\ DOMAIN tasks' \subseteq Task /\ tasks' \in [DOMAIN tasks' -> Valid]
         /\ DOMAIN clusters' \subseteq Cluster /\ clusters' \in [DOMAIN clusters' -> Valid]
<1>1. /\ next = Len(results) + 1 /\ results' = results
      /\ tasks' = RollUp(Task, Checks, statusByCheck)
      /\ clusters' = RollUp(Cluster, SSDFTasks, tasks')
  BY DEF BuildRollup, TypeOK
<1> DEFINE below == [c \in UNION {Checks[t] : t \in Task} |-> Seen(results, c, next)]
           under == [t \in Task |-> Raw(Checks[t])]
<1>2. ASSUME NEW t \in Task
      PROVE  /\ t \in DOMAIN tasks' <=> under[t] # {}
             /\ t \in DOMAIN tasks' => tasks'[t] = Worst(under[t])
  <2>1. \A c \in Checks[t] : below[c] = Seen(results, c, next)
    OBVIOUS
  <2>2. StandsFor(Checks[t], statusByCheck, below)
    BY <2>1, ReducedNonEmpty DEF Reduced, StandsFor
  <2>4. AllBelow(under[t], Checks[t], below)
    <3>1. under[t] = UNION {Seen(results, c, next) : c \in Checks[t]}
      BY <1>1, RawIsBefore
    <3> HIDE DEF below, under
    <3> QED
      BY <2>1, <3>1 DEF AllBelow
  <2> HIDE DEF below, under
  <2>5. Told(RollUp(Task, Checks, statusByCheck), t, under[t])
    BY <2>2, <2>4, RollUpIsWorst
  <2> QED
    BY <1>1, <2>5 DEF Told
<1>3. DOMAIN tasks' \subseteq Task
  BY <1>1 DEF RollUp
<1>4. \A t \in DOMAIN tasks' : tasks'[t] \in Valid /\ Normal(tasks'[t]) = tasks'[t]
  BY <1>2, <1>3, WorstIsValid DEF Normal
<1>5. ASSUME NEW c \in Cluster
      PROVE  /\ c \in DOMAIN clusters' <=> Raw(ChecksOf(c)) # {}
             /\ c \in DOMAIN clusters' => clusters'[c] = Worst(Raw(ChecksOf(c)))
  <2>1. SSDFTasks[c] \subseteq Task
    BY DEF RollupAssumption
  <2>2. StandsFor(SSDFTasks[c], tasks', under)
    BY <2>1, <1>2, <1>4 DEF StandsFor
  <2>4. AllBelow(Raw(ChecksOf(c)), SSDFTasks[c], under)
    <3>1. \A t \in SSDFTasks[c] : under[t] = Raw(Checks[t])
      BY <2>1
    <3> HIDE DEF under
    <3>2. Raw(ChecksOf(c)) = UNION {Raw(Checks[t]) : t \in SSDFTasks[c]}
      BY DEF Raw, ChecksOf
    <3> QED
      BY <3>1, <3>2 DEF AllBelow
  <2> HIDE DEF under
  <2>5. Told(RollUp(Cluster, SSDFTasks, tasks'), c, Raw(ChecksOf(c)))
    BY <2>2, <2>4, RollUpIsWorst
  <2> QED
    BY <1>1, <2>5 DEF Told
<1>6. DOMAIN clusters' \subseteq Cluster
  BY <1>1 DEF RollUp
<1>7. \A c \in DOMAIN clusters' : clusters'[c] \in Valid
  BY <1>5, <1>6, WorstIsValid
<1>8. TasksAreFlat'
  <2>1. \A t \in Task : Raw(Checks[t])' = under[t]
    BY <1>1 DEF Raw
  <2>2. \A t \in DOMAIN tasks' : TruthTable(under[t])[tasks'[t]]
    BY <1>2, <1>3, WorstIsTrue
  <2> HIDE DEF under
  <2> QED
    BY <1>2, <1>3, <2>1, <2>2 DEF TasksAreFlat
<1>9. ClustersAreFlat'
  <2>1. \A c \in Cluster : Raw(ChecksOf(c))' = Raw(ChecksOf(c))
    BY <1>1 DEF Raw
  <2>2. \A c \in DOMAIN clusters' : TruthTable(Raw(ChecksOf(c)))[clusters'[c]]
    BY <1>5, <1>6, WorstIsTrue
  <2> QED
    BY <1>5, <1>6, <2>1, <2>2 DEF ClustersAreFlat
<1>10. tasks' \in [DOMAIN tasks' -> Valid] /\ clusters' \in [DOMAIN clusters' -> Valid]
  BY <1>1, <1>4, <1>7 DEF RollUp
<1> QED
  BY <1>3, <1>6, <1>8, <1>9, <1>10
-----------------------------------------------------------------------------
(***************************************************************************)
(* The steps of runScan, one lemma for every group of conjuncts.           *)
(***************************************************************************)
\* Appending rows, sorted or not, keeps the results a sequence of results.
LEMMA AppendStep ==
  ASSUME RollupAssumption, IInv, phase = "flattening", NEW rows \in Seq(Result), Append1(rows)
  PROVE  IInv'
<1>1. next \in 1..NumCollectors /\ NumCollectors \in Nat /\ results \in Seq(Result)
  BY DEF IInv, TypeOK, RollupAssumption
<1>2. results \o rows \in Seq(Result)
  BY <1>1
<1>3. results' \in Seq(Result)
  BY <1>2, SortedTyped DEF Append1
<1>4. next' = next + 1
  BY DEF Append1
<1>5. /\ phase' \in {"flattening", "attesting"}
      /\ phase' = "flattening" => next' \in 1..NumCollectors
  BY <1>1, <1>4 DEF Append1
<1>6. UNCHANGED <<statusByCheck, tasks, clusters, exitCode>>
  BY DEF Append1
<1>7. TypeOK'
  BY <1>1, <1>3, <1>4, <1>5, <1>6 DEF IInv, TypeOK
<1>8. statusByCheck' = NoMap /\ tasks' = NoMap /\ clusters' = NoMap
  BY <1>6 DEF IInv
<1> QED
  BY <1>5, <1>7, <1>8 DEF IInv

LEMMA AttestStep ==
  ASSUME RollupAssumption, IInv, Attest
  PROVE  IInv'
<1>1. PICK answered \in SUBSET DOMAIN Questions :
        results' \in StablySorted(results \o SelfAttested(answered))
  BY DEF Attest
<1>2. SelfAttested(answered) \in Seq(Result)
  <2>1. Questions \in Seq(Key) /\ DOMAIN Questions = 1..Len(Questions) /\ Len(Questions) \in Nat
    BY DEF RollupAssumption
  <2>2. "self-attested" \in Emitted /\ "not-checkable" \in Emitted
    BY ValidIs DEF RollupAssumption
  <2>3. SelfAttested(answered) \in [1..Len(Questions) -> Result]
    BY <2>1, <2>2 DEF SelfAttested, Result
  <2>4. \A n \in Nat : \A f \in [1..n -> Result] : f \in Seq(Result)
    OBVIOUS
  <2> QED
    BY <2>1, <2>3, <2>4
<1>3. results \o SelfAttested(answered) \in Seq(Result)
  BY <1>2 DEF IInv, TypeOK
<1>4. results' \in Seq(Result) /\ InOrder(results')
  BY <1>1, <1>3, SortedTyped
<1>5. phase = "attesting" /\ phase' = "reducing" /\ next' = 1
      /\ UNCHANGED <<statusByCheck, tasks, clusters, exitCode>>
  BY DEF Attest
<1>6. TypeOK'
  BY <1>4, <1>5 DEF IInv, TypeOK
<1>7. statusByCheck' = NoMap /\ tasks' = NoMap /\ clusters' = NoMap
  BY <1>5 DEF IInv
<1>8. next' \in 1..(Len(results') + 1)
  BY <1>4, <1>5
<1>9. Reduced'
  <2>1. Read(results', next') = {}
    BY <1>4, <1>5 DEF Read
  <2> QED
    BY <2>1, <1>7 DEF Reduced, NoMap
<1>10. InOrder(results)'
  BY <1>4 DEF InOrder
<1> QED
  BY <1>5, <1>6, <1>7, <1>8, <1>9, <1>10 DEF IInv

LEMMA BuildStep ==
  ASSUME RollupAssumption, IInv, BuildRollup
  PROVE  IInv'
<1>1. phase = "reducing" /\ phase' = "writing"
      /\ exitCode' = (IF HasGap THEN 2 ELSE 0)
      /\ UNCHANGED <<next, results, statusByCheck>>
  BY DEF BuildRollup, HasGap
<1>2. TypeOK /\ next \in 1..(Len(results) + 1) /\ Reduced /\ InOrder(results)
  BY <1>1 DEF IInv
<1>3. /\ TasksAreFlat' /\ ClustersAreFlat'
      /\ DOMAIN tasks' \subseteq Task /\ tasks' \in [DOMAIN tasks' -> Valid]
      /\ DOMAIN clusters' \subseteq Cluster /\ clusters' \in [DOMAIN clusters' -> Valid]
  BY <1>1, <1>2, RollUpStep
<1>4. TypeOK'
  BY <1>1, <1>2, <1>3 DEF TypeOK
<1>5. InOrder(results)' /\ HasGap' = HasGap
  BY <1>1, <1>2 DEF InOrder, HasGap
<1> QED
  BY <1>1, <1>3, <1>4, <1>5 DEF IInv

LEMMA WriteStep ==
  ASSUME IInv, Write
  PROVE  IInv'
<1>1. phase = "writing" /\ UNCHANGED <<next, results, statusByCheck, tasks, clusters>>
  BY DEF Write
<1>2. /\ phase' \in {"written", "refused"}
      /\ phase' = "written" => exitCode' = exitCode /\ SchemaValid
      /\ phase' = "refused" => exitCode' = 1
  BY DEF Write
<1>3. TypeOK'
  BY <1>1, <1>2 DEF IInv, TypeOK
<1>4. /\ InOrder(results)' = InOrder(results) /\ SchemaValid' = SchemaValid
      /\ TasksAreFlat' = TasksAreFlat /\ ClustersAreFlat' = ClustersAreFlat /\ HasGap' = HasGap
  BY <1>1 DEF InOrder, SchemaValid, TasksAreFlat, ClustersAreFlat, Raw, HasGap
<1> QED
  BY <1>1, <1>2, <1>3, <1>4 DEF IInv

LEMMA StutterStep ==
  ASSUME IInv, UNCHANGED vars
  PROVE  IInv'
<1>1. UNCHANGED <<phase, next, results, statusByCheck, tasks, clusters, exitCode>>
  BY DEF vars
<1>2. TypeOK' = TypeOK /\ Reduced' = Reduced
  BY <1>1 DEF TypeOK, Reduced, Seen
<1>3. /\ InOrder(results)' = InOrder(results) /\ SchemaValid' = SchemaValid
      /\ TasksAreFlat' = TasksAreFlat /\ ClustersAreFlat' = ClustersAreFlat /\ HasGap' = HasGap
  BY <1>1 DEF InOrder, SchemaValid, TasksAreFlat, ClustersAreFlat, Raw, HasGap
<1> QED
  BY <1>1, <1>2, <1>3 DEF IInv

(***************************************************************************)
(* The invariant of the whole run: what the first loop has made of the     *)
(* results it has read, and, once the roll-up is built, what it says of    *)
(* the raw results.                                                        *)
(***************************************************************************)
THEOREM RollupInvariant == Spec => []IInv
<1>1. Init => IInv
  <2> SUFFICES ASSUME Init PROVE IInv
    OBVIOUS
  <2>1. TypeOK
    BY DEF Init, TypeOK, NoMap
  <2> QED
    BY <2>1, RollupAssumption DEF Init, IInv, RollupAssumption
<1>2. IInv /\ [Next]_vars => IInv'
  <2> SUFFICES ASSUME IInv, [Next]_vars PROVE IInv'
    OBVIOUS
  <2> USE RollupAssumption
  <2>1. CASE Collected
    <3>1. PICK st \in [DOMAIN Slots[next] -> Emitted] :
            Append1([k \in DOMAIN Slots[next] |-> [key |-> Slots[next][k], status |-> st[k]]])
      BY <2>1 DEF Collected
    <3>2. phase = "flattening" /\ next \in 1..NumCollectors
      BY <2>1 DEF Collected, IInv
    <3>3. Slots[next] \in Seq(Key)
      BY <3>2 DEF RollupAssumption
    <3>4. [k \in DOMAIN Slots[next] |-> [key |-> Slots[next][k], status |-> st[k]]] \in Seq(Result)
      <4> DEFINE keys == Slots[next]
      <4>1. keys \in Seq(Key) /\ DOMAIN keys = 1..Len(keys) /\ Len(keys) \in Nat
        BY <3>3
      <4> HIDE DEF keys
      <4>2. st \in [DOMAIN keys -> Emitted]
        BY DEF keys
      <4>3. [k \in DOMAIN keys |-> [key |-> keys[k], status |-> st[k]]] \in [1..Len(keys) -> Result]
        BY <4>1, <4>2 DEF Result
      <4>4. [k \in DOMAIN keys |-> [key |-> keys[k], status |-> st[k]]] \in Seq(Result)
        BY <4>1, <4>3
      <4> QED
        BY <4>4 DEF keys
    <3> QED
      BY <3>1, <3>2, <3>4, AppendStep
  <2>2. CASE CollectorFailed
    <3>1. phase = "flattening" /\ next \in 1..NumCollectors
      BY <2>2 DEF CollectorFailed, IInv
    <3>2. <<[key |-> Placeholder[next], status |-> "not-checkable"]>> \in Seq(Result)
      BY <3>1, ValidIs DEF RollupAssumption, Result
    <3> QED
      BY <2>2, <3>1, <3>2, AppendStep DEF CollectorFailed
  <2>3. CASE Attest
    BY <2>3, AttestStep
  <2>4. CASE RejectAnswers
    <3>1. TypeOK'
      BY <2>4 DEF RejectAnswers, IInv, TypeOK
    <3> QED
      BY <2>4, <3>1 DEF RejectAnswers, IInv
  <2>5. CASE ReduceNext
    <3>1. /\ phase = "reducing" /\ next <= Len(results) /\ next' = next + 1
          /\ UNCHANGED <<phase, results, tasks, clusters, exitCode>>
      BY <2>5 DEF ReduceNext
    <3>2. TypeOK /\ Reduced /\ InOrder(results) /\ next \in 1..(Len(results) + 1)
      BY <3>1 DEF IInv
    <3>3. Reduced' /\ statusByCheck' \in [DOMAIN statusByCheck' -> Emitted \cup Valid]
      BY <2>5, <3>1, <3>2, ReduceStep
    <3>4. TypeOK'
      BY <3>1, <3>2, <3>3 DEF TypeOK
    <3>5. InOrder(results)'
      BY <3>1, <3>2 DEF InOrder
    <3>6. next' \in 1..(Len(results') + 1)
      BY <3>1, <3>2 DEF TypeOK
    <3> QED
      BY <3>1, <3>3, <3>4, <3>5, <3>6 DEF IInv
  <2>6. CASE BuildRollup
    BY <2>6, BuildStep
  <2>7. CASE Write
    BY <2>7, WriteStep
  <2>8. CASE UNCHANGED vars
    BY <2>8, StutterStep
  <2> QED
    BY <2>1, <2>2, <2>3, <2>4, <2>5, <2>6, <2>7, <2>8 DEF Next
<1> QED
  BY <1>1, <1>2, PTL DEF Spec
-----------------------------------------------------------------------------
\* Every variable keeps its type, whatever the collectors hand over.
THEOREM RollupTyped == Spec => []TypeOK
<1>1. IInv => TypeOK
  BY DEF IInv
<1> QED
  BY <1>1, RollupInvariant, PTL

\* Three levels of merging give what the mapping's truth table says of the raw statuses.
THEOREM ThreeLevelsAreOne == Spec => []RollupIsFlat
<1>1. IInv => RollupIsFlat
  BY DEF IInv, RollupIsFlat
<1> QED
  BY <1>1, RollupInvariant, PTL

\* No result makes the status of a check cleaner than it was.
THEOREM BadNewsStays == Spec => NeverCleaner
<1>1. IInv /\ [Next]_vars =>
        [\A c \in DOMAIN statusByCheck :
           /\ c \in DOMAIN statusByCheck'
           /\ Outranks(Normal(statusByCheck'[c]), Normal(statusByCheck[c]))]_vars
  <2> SUFFICES ASSUME IInv, Next
               PROVE  \A c \in DOMAIN statusByCheck :
                        /\ c \in DOMAIN statusByCheck'
                        /\ Outranks(Normal(statusByCheck'[c]), Normal(statusByCheck[c]))
    OBVIOUS
  <2>1. CASE ReduceNext
    <3>1. phase = "reducing" /\ TypeOK /\ Reduced
      BY <2>1 DEF ReduceNext, IInv
    <3> QED
      BY <2>1, <3>1, ReduceStep
  <2>2. CASE ~ReduceNext
    <3>1. statusByCheck' = statusByCheck
      BY <2>2 DEF Next, Collected, CollectorFailed, Append1, Attest, RejectAnswers, BuildRollup, Write
    <3>2. \A s : Normal(s) \in Valid
      BY ValidIs DEF Normal
    <3> QED
      BY <3>1, <3>2, OutranksIs
  <2> QED
    BY <2>1, <2>2
<1> QED
  BY <1>1, RollupInvariant, PTL DEF Spec, NeverCleaner

\* The truth table gives a gap to those that have one.
LEMMA GapTruth == \A S : \A s \in Valid : TruthTable(S)[s] /\ S # {} => (s \in Gap <=> S \cap Gap # {})
<1> SUFFICES ASSUME NEW S, NEW s \in Valid, TruthTable(S)[s], S # {}
             PROVE  s \in Gap <=> S \cap Gap # {}
  OBVIOUS
<1>1. CASE s = "verified-fail"
  BY <1>1, ValidIs DEF TruthTable, Gap
<1>2. CASE s = "partial"
  BY <1>2, ValidIs DEF TruthTable, Gap
<1>3. CASE s = "not-checkable"
  BY <1>3, ValidIs DEF TruthTable, Gap
<1>4. CASE s = "self-attested"
  BY <1>4, ValidIs DEF TruthTable, Gap
<1>5. CASE s = "verified-pass"
  BY <1>5, ValidIs DEF TruthTable, Gap
<1> QED
  BY <1>1, <1>2, <1>3, <1>4, <1>5, ValidIs

\* The roll-up and the exit code, two loops over the same results, agree.
THEOREM ExitCodeAgrees == Spec => []GapsReachTheTop
<1>1. IInv => GapsReachTheTop
  <2> SUFFICES ASSUME IInv, phase = "written" PROVE
        /\ (\E c \in DOMAIN clusters : clusters[c] \in Gap) <=> Raw(Covered) \cap Gap # {}
        /\ Raw(Covered) \cap Gap # {} => exitCode = 2
        /\ exitCode = 2 => \E j \in DOMAIN results : results[j].status \in Gap
        /\ exitCode # 1
    BY DEF GapsReachTheTop
  <2>1. ClustersAreFlat /\ exitCode = (IF HasGap THEN 2 ELSE 0)
    BY DEF IInv
  <2>2. DOMAIN clusters \subseteq Cluster /\ \A c \in DOMAIN clusters : clusters[c] \in Valid
    BY DEF IInv, TypeOK
  <2>3. \A S : \A s \in Valid : TruthTable(S)[s] /\ S # {} => (s \in Gap <=> S \cap Gap # {})
    BY GapTruth
  <2>4. \A c \in DOMAIN clusters : clusters[c] \in Gap <=> Raw(ChecksOf(c)) \cap Gap # {}
    BY <2>1, <2>2, <2>3 DEF ClustersAreFlat
  <2>5. \A c \in Cluster : Raw(ChecksOf(c)) \cap Gap # {} => c \in DOMAIN clusters
    BY <2>1 DEF ClustersAreFlat
  <2>6. \A s : s \in Raw(Covered) <=> \E c \in Cluster : s \in Raw(ChecksOf(c))
    BY DEF Raw, Covered
  <2>7. Raw(Covered) \cap Gap # {} <=> \E c \in Cluster : Raw(ChecksOf(c)) \cap Gap # {}
    BY <2>6
  <2>8. (\E c \in DOMAIN clusters : clusters[c] \in Gap) <=> Raw(Covered) \cap Gap # {}
    BY <2>2, <2>4, <2>5, <2>7
  <2>9. Raw(Covered) \cap Gap # {} => HasGap
    BY DEF Raw, HasGap
  <2> QED
    BY <2>1, <2>8, <2>9 DEF HasGap
<1> QED
  BY <1>1, RollupInvariant, PTL

\* No status outside the five leaves in a written pack.
THEOREM InvalidIsRefused == Spec => []OnlyValidIsWritten
<1>1. IInv => OnlyValidIsWritten
  BY DEF IInv, OnlyValidIsWritten, SchemaValid
<1> QED
  BY <1>1, RollupInvariant, PTL

\* Appending the answers does not leave the pack unsorted.
THEOREM SortedToTheEnd == Spec => []PackIsSorted
<1>1. IInv => PackIsSorted
  BY DEF IInv, PackIsSorted
<1> QED
  BY <1>1, RollupInvariant, PTL
-----------------------------------------------------------------------------
(* The documents made of the pack. *)

LEMMA Least ==
  ASSUME NEW S \in SUBSET Nat, S # {}
  PROVE  \E m \in S : \A k \in S : m <= k
<1>1. PICK m \in S : \A k \in S : ~(<<k, m>> \in OpToRel(<, Nat))
  BY WFMin, NatLessThanWellFounded
<1>2. \A k \in S : ~(k < m)
  BY <1>1 DEF OpToRel
<1>3. QED
  BY <1>2

LEMMA Greatest ==
  ASSUME NEW N \in Nat, NEW S \in SUBSET (0..N), S # {}
  PROVE  \E m \in S : \A k \in S : k <= m
<1> DEFINE T == {N - n : n \in S}
<1>1. T \in SUBSET Nat /\ T # {}
  <2>1. \A n \in S : N - n \in Nat
    OBVIOUS
  <2>2. QED
    BY <2>1
<1>2. PICK l \in T : \A k \in T : l <= k
  BY <1>1, Least
<1>3. PICK m \in S : l = N - m
  OBVIOUS
<1>4. \A k \in S : N - m <= N - k
  BY <1>2, <1>3
<1>5. QED
  BY <1>4

LEMMA CountTwo ==
  ASSUME NEW S, NEW T, IsFiniteSet(S), IsFiniteSet(T), S \cap T = {}
  PROVE  /\ IsFiniteSet(S \cup T) /\ Cardinality(S \cup T) = Cardinality(S) + Cardinality(T)
         /\ Cardinality(S) \in Nat /\ Cardinality(T) \in Nat
<1>1. Cardinality(S) \in Nat /\ Cardinality(T) \in Nat
  BY FS_CardinalityType
<1>2. IsFiniteSet(S \cup T) /\ Cardinality(S \cup T) = Cardinality(S) + Cardinality(T) - Cardinality(S \cap T)
  BY FS_Union
<1>3. Cardinality(S \cap T) = 0
  BY FS_EmptySet
<1>4. QED
  BY <1>1, <1>2, <1>3

(***************************************************************************)
(* The gaps are a finite set of positions in the pack.                     *)
(***************************************************************************)
LEMMA GapsFinite ==
  ASSUME TypeOK
  PROVE  /\ Len(results) \in Nat /\ DOMAIN results = 1..Len(results)
         /\ IsFiniteSet(DOMAIN results) /\ Cardinality(DOMAIN results) = Len(results)
         /\ IsFiniteSet(Gaps) /\ Cardinality(Gaps) \in Nat /\ Gaps \subseteq Nat
         /\ \A S \in SUBSET DOMAIN results : IsFiniteSet(S)
<1>1. Len(results) \in Nat /\ DOMAIN results = 1..Len(results)
  BY DEF TypeOK
<1>2. IsFiniteSet(DOMAIN results) /\ Cardinality(DOMAIN results) = Len(results)
  <2> DEFINE n == Len(results)
  <2>1. n \in Int /\ 1 \in Int /\ (1 > n => n = 0)
    BY <1>1
  <2> HIDE DEF n
  <2>2. IsFiniteSet(1..n) /\ Cardinality(1..n) = IF 1 > n THEN 0 ELSE n - 1 + 1
    BY <2>1, FS_Interval
  <2>3. QED
    BY <1>1, <2>1, <2>2 DEF n
<1>3. \A S \in SUBSET DOMAIN results : IsFiniteSet(S)
  BY <1>2, FS_Subset
<1>4. IsFiniteSet(Gaps) /\ Cardinality(Gaps) \in Nat /\ Gaps \subseteq Nat
  BY <1>1, <1>3, FS_CardinalityType DEF Gaps
<1>5. QED
  BY <1>1, <1>2, <1>3, <1>4

(***************************************************************************)
(* Every finding has a place among the sections, and of two different ones *)
(* exactly one comes before the other.                                     *)
(***************************************************************************)
LEMMA SectionFound ==
  ASSUME NEW b, NEW j
  PROVE  GroupOrder(b, j) \in Section /\ Len(ClusterOrder) \in Nat
<1> DEFINE places == {i \in DOMAIN ClusterOrder : ClusterOrder[i] \in ClusterIDs(b, j)}
<1>1. Len(ClusterOrder) \in Nat /\ DOMAIN ClusterOrder = 1..Len(ClusterOrder)
  BY ReportAssumption
<1>2. CASE places = {}
  BY <1>1, <1>2 DEF GroupOrder, Section
<1>3. CASE places # {}
  <2>1. places \in SUBSET Nat /\ places \subseteq Section
    BY <1>1 DEF Section
  <2>2. \E m \in places : \A k \in places : m <= k
    BY <1>3, <2>1, Least
  <2>3. GroupOrder(b, j) = CHOOSE i \in places : \A k \in places : i <= k
    BY <1>3 DEF GroupOrder
  <2> HIDE DEF places
  <2>4. GroupOrder(b, j) \in places
    BY <2>2, <2>3
  <2>5. QED
    BY <1>1, <2>1, <2>4
<1>4. QED
  BY <1>2, <1>3

LEMMA BeforeIsOrder ==
  ASSUME TypeOK, NEW b, NEW i \in Gaps, NEW j \in Gaps, NEW k \in Gaps
  PROVE  /\ ~Before(b, i, i)
         /\ i # j => Before(b, i, j) \/ Before(b, j, i)
         /\ Before(b, i, j) /\ Before(b, j, k) => Before(b, i, k)
<1>1. \A n \in Gaps : n \in Nat /\ results[n].key \in Key
  <2>1. \A n \in DOMAIN results : results[n] \in Result
    BY DEF TypeOK
  <2>2. QED
    BY <2>1, GapsFinite DEF Gaps, Result
<1>2. \A n \in Gaps : Rank[results[n].key] \in Nat
  BY <1>1, RollupAssumption
<1>3. \A n : GroupOrder(b, n) \in Nat
  BY SectionFound DEF Section
<1>4. QED
  BY <1>1, <1>2, <1>3 DEF Before

(***************************************************************************)
(* The numbers of the findings are those from 1 on, each given once.       *)
(***************************************************************************)
LEMMA NumbersGivenOnce ==
  ASSUME TypeOK, NEW b
  PROVE  LET N == Cardinality(Gaps) IN
         /\ \A j \in Gaps : Number(b, j) \in 1..N
         /\ \A i, j \in Gaps : Before(b, i, j) => Number(b, i) < Number(b, j)
         /\ \A i, j \in Gaps : Number(b, i) = Number(b, j) => i = j
         /\ \A n \in 1..N : \E j \in Gaps : Number(b, j) = n
<1> DEFINE N == Cardinality(Gaps)
           upto(j) == {i \in Gaps : i = j \/ Before(b, i, j)}
           f == [j \in Gaps |-> Number(b, j)]
<1>1. IsFiniteSet(Gaps) /\ N \in Nat
  BY GapsFinite
<1>2. ASSUME NEW j \in Gaps
      PROVE  /\ IsFiniteSet(upto(j)) /\ Number(b, j) = Cardinality(upto(j)) /\ Number(b, j) \in 1..N
  <2>1. IsFiniteSet(upto(j)) /\ Cardinality(upto(j)) <= N /\ Cardinality(upto(j)) \in Nat
    BY <1>1, FS_Subset, FS_CardinalityType
  <2>2. Cardinality(upto(j)) # 0
    <3>1. j \in upto(j)
      OBVIOUS
    <3>2. QED
      BY <2>1, <3>1, FS_EmptySet
  <2>3. Number(b, j) = Cardinality(upto(j))
    BY DEF Number
  <2>4. QED
    BY <1>1, <2>1, <2>2, <2>3
<1> HIDE DEF N, upto
<1>2a. \A j \in Gaps : Number(b, j) \in Nat
  <2>1. 1..N \subseteq Nat
    BY <1>1
  <2>2. QED
    BY <1>2, <2>1
<1> USE DEF upto
<1>3. ASSUME NEW i \in Gaps, NEW j \in Gaps, Before(b, i, j)
      PROVE  Number(b, i) < Number(b, j)
  <2>1. upto(i) \subseteq upto(j) /\ j \in upto(j) /\ j \notin upto(i)
    BY <1>3, BeforeIsOrder
  <2>2. Cardinality(upto(i)) <= Cardinality(upto(j)) /\ Cardinality(upto(i)) # Cardinality(upto(j))
    BY <1>2, <2>1, FS_Subset
  <2>3. Number(b, i) <= Number(b, j) /\ Number(b, i) # Number(b, j)
    BY <1>2, <2>2
  <2>4. Number(b, i) \in Nat /\ Number(b, j) \in Nat
    BY <1>2a
  <2>5. QED
    BY <2>3, <2>4
<1>4. ASSUME NEW i \in Gaps, NEW j \in Gaps, Number(b, i) = Number(b, j)
      PROVE  i = j
  <2>1. ~(Number(b, i) < Number(b, j)) /\ ~(Number(b, j) < Number(b, i))
    <3>1. Number(b, i) \in Nat
      BY <1>2a
    <3>2. QED
      BY <1>4, <3>1
  <2>2. QED
    BY <1>3, <2>1, BeforeIsOrder
<1>5. f \in Injection(Gaps, 1..N)
  BY <1>2, <1>4 DEF Injection, IsInjective
<1>6. IsFiniteSet(1..N) /\ Cardinality(1..N) = N
  <2>1. N \in Int /\ 1 \in Int /\ (1 > N => N = 0)
    BY <1>1
  <2> HIDE DEF N
  <2>2. IsFiniteSet(1..N) /\ Cardinality(1..N) = IF 1 > N THEN 0 ELSE N - 1 + 1
    BY <2>1, FS_Interval
  <2>3. QED
    BY <2>1, <2>2
<1>7. f \in Surjection(Gaps, 1..N)
  BY <1>1, <1>5, <1>6, FS_Injection DEF N
<1>8. \A n \in 1..N : \E j \in Gaps : f[j] = n
  BY <1>7 DEF Surjection
<1>9. QED
  BY <1>2, <1>3, <1>4, <1>8 DEF N

LEMMA FindingsAre ==
  ASSUME TypeOK, NEW b
  PROVE  /\ DOMAIN Findings(b) = 1..Cardinality(Gaps) /\ Len(Findings(b)) = Cardinality(Gaps)
         /\ \A n \in DOMAIN Findings(b) : Findings(b)[n] \in Gaps /\ Number(b, Findings(b)[n]) = n
         /\ \A j \in Gaps : Number(b, j) \in DOMAIN Findings(b) /\ Findings(b)[Number(b, j)] = j
<1> DEFINE N == Cardinality(Gaps)
           f == Findings(b)
           number == [j \in Gaps |-> Number(b, j)]
<1>1. f = [n \in 1..N |-> CHOOSE j \in Gaps : number[j] = n]
  BY DEF Findings
<1>2. N \in Nat
  BY GapsFinite
<1>3. DOMAIN f = 1..N /\ Len(f) = N
  <2> DEFINE D == {CHOOSE j \in Gaps : number[j] = n : n \in 1..N}
  <2>1. f \in [1..N -> D]
    BY <1>1
  <2>2. DOMAIN f = 1..N
    BY <1>1
  <2> HIDE DEF f, N, D
  <2>3. f \in Seq(D)
    BY <1>2, <2>1
  <2>4. Len(f) = N
    BY <1>2, <2>2, <2>3
  <2>5. QED
    BY <2>2, <2>4
<1>4. ASSUME NEW n \in 1..N PROVE f[n] \in Gaps /\ Number(b, f[n]) = n
  <2>1. \E j \in Gaps : number[j] = n
    BY NumbersGivenOnce
  <2>2. f[n] = CHOOSE j \in Gaps : number[j] = n
    BY <1>1
  <2>3. f[n] \in Gaps /\ number[f[n]] = n
    BY <2>1, <2>2
  <2>4. QED
    BY <2>3
<1>5. ASSUME NEW j \in Gaps PROVE Number(b, j) \in 1..N /\ f[Number(b, j)] = j
  <2>1. Number(b, j) \in 1..N
    BY NumbersGivenOnce
  <2>2. f[Number(b, j)] \in Gaps /\ Number(b, f[Number(b, j)]) = Number(b, j)
    BY <1>4, <2>1
  <2>3. QED
    BY <2>1, <2>2, NumbersGivenOnce
<1>6. QED
  BY <1>3, <1>4, <1>5

(***************************************************************************)
(* Without a banner on these two files, what lists results below a task or *)
(* a cluster are the mappings that the pack was rolled up with.            *)
(***************************************************************************)
LEMMA UnmovedMaps ==
  ASSUME NEW b, {"ssdf", "cisa"} \subseteq recorded, Unmoved(b)
  PROVE  ChecksIn(b) = Checks /\ TasksIn(b) = SSDFTasks
BY DEF Unmoved, MappingVersionMismatch, ChecksIn, TasksIn

\* The clusters of a gap are those one of whose tasks lists its check.
LEMMA ClustersOfCheck ==
  ASSUME NEW b, ChecksIn(b) = Checks, TasksIn(b) = SSDFTasks, NEW j, NEW c \in Cluster
  PROVE  c \in ClusterIDs(b, j) <=> CheckOf(j) \in ChecksOf(c)
<1>1. SSDFTasks[c] \subseteq Task
  BY RollupAssumption
<1>2. QED
  BY <1>1 DEF ClusterIDs, TaskIDs, ChecksOf

(***************************************************************************)
(* What is read off the report: each result is counted once, and what is   *)
(* said of a task or a cluster follows from what is listed below it.       *)
(***************************************************************************)
LEMMA CountsAddUp ==
  ASSUME TypeOK, SchemaValid
  PROVE  LET n == StatusCounts IN
         /\ n["verified-fail"] + n["partial"] + n["not-checkable"] + n["self-attested"] + n["verified-pass"]
              = Len(results)
         /\ n["verified-fail"] + n["partial"] = Cardinality(Gaps)
         /\ n["not-checkable"] + n["self-attested"] = Cardinality(OutsideTool)
         /\ \A s \in Valid : n[s] \in Nat
<1> DEFINE of(s) == {j \in DOMAIN results : results[j].status = s}
           F == of("verified-fail")
           P == of("partial")
           N == of("not-checkable")
           A == of("self-attested")
           V == of("verified-pass")
           O == N \cup A
           FPO == Gaps \cup O
<1>1. IsFiniteSet(F) /\ IsFiniteSet(P) /\ IsFiniteSet(N) /\ IsFiniteSet(A) /\ IsFiniteSet(V)
  BY GapsFinite
<1>2. /\ StatusCounts["verified-fail"] = Cardinality(F) /\ StatusCounts["partial"] = Cardinality(P)
      /\ StatusCounts["not-checkable"] = Cardinality(N) /\ StatusCounts["self-attested"] = Cardinality(A)
      /\ StatusCounts["verified-pass"] = Cardinality(V)
  BY ValidIs DEF StatusCounts
<1>3. Gaps = F \cup P /\ OutsideTool = N \cup A /\ DOMAIN results = FPO \cup V
  <2>1. \A j \in DOMAIN results : results[j].status \in Valid
    BY DEF SchemaValid
  <2>2. Gaps = F \cup P /\ OutsideTool = N \cup A
    BY DEF Gaps, Gap, OutsideTool
  <2>3. DOMAIN results = FPO \cup V
    BY <2>1, <2>2, ValidIs
  <2>4. QED
    BY <2>2, <2>3
<1>4. F \cap P = {} /\ N \cap A = {} /\ Gaps \cap O = {} /\ FPO \cap V = {}
  BY DEF Gaps, Gap
<1>5. \A s \in Valid : StatusCounts[s] \in Nat
  BY GapsFinite, FS_CardinalityType DEF StatusCounts
<1> HIDE DEF F, P, N, A, V, O, FPO
<1>6. IsFiniteSet(Gaps) /\ Cardinality(Gaps) = Cardinality(F) + Cardinality(P)
  BY <1>1, <1>3, <1>4, CountTwo
<1>7. IsFiniteSet(O) /\ Cardinality(O) = Cardinality(N) + Cardinality(A)
  BY <1>1, <1>4, CountTwo DEF O
<1>8. IsFiniteSet(FPO) /\ Cardinality(FPO) = Cardinality(Gaps) + Cardinality(O)
  BY <1>4, <1>6, <1>7, CountTwo DEF FPO
<1>9. Cardinality(DOMAIN results) = Cardinality(FPO) + Cardinality(V)
  BY <1>1, <1>3, <1>4, <1>8, CountTwo
<1>10. /\ Cardinality(F) \in Nat /\ Cardinality(P) \in Nat /\ Cardinality(N) \in Nat
       /\ Cardinality(A) \in Nat /\ Cardinality(V) \in Nat
  BY <1>1, FS_CardinalityType
<1>11. Len(results) = Cardinality(DOMAIN results)
  BY GapsFinite
<1>12. OutsideTool = O
  BY <1>3 DEF O
<1> DEFINE cF == Cardinality(F)
           cP == Cardinality(P)
           cN == Cardinality(N)
           cA == Cardinality(A)
           cV == Cardinality(V)
<1>13. /\ Len(results) = (cF + cP) + (cN + cA) + cV /\ Cardinality(Gaps) = cF + cP
       /\ Cardinality(OutsideTool) = cN + cA
  BY <1>6, <1>7, <1>8, <1>9, <1>11, <1>12
<1>14. cF \in Nat /\ cP \in Nat /\ cN \in Nat /\ cA \in Nat /\ cV \in Nat
  BY <1>10
<1> HIDE DEF cF, cP, cN, cA, cV
<1>15. cF + cP + cN + cA + cV = Len(results)
  BY <1>13, <1>14
<1>16. QED
  BY <1>2, <1>5, <1>13, <1>15 DEF cF, cP, cN, cA, cV

LEMMA GapsTabled ==
  ASSUME TypeOK, NEW b
  PROVE  Cardinality(GapTable(b)) = Cardinality(Gaps)
<1> DEFINE row(j) == [result |-> j, poam |-> PoamID(Findings(b), j)]
           f == [j \in Gaps |-> row(j)]
<1>1. GapTable(b) = {row(j) : j \in Gaps}
  BY DEF GapTable
<1>2. \A j : row(j).result = j
  OBVIOUS
<1> HIDE DEF row
<1>3. f \in Surjection(Gaps, GapTable(b)) /\ f \in Injection(Gaps, GapTable(b))
  BY <1>1, <1>2 DEF Surjection, Injection, IsInjective
<1>4. QED
  BY <1>3, GapsFinite, FS_Surjection

LEMMA ReportAdds ==
  ASSUME TypeOK, RollupIsFlat, phase = "written", SchemaValid, {"ssdf", "cisa"} \subseteq recorded, NEW b
  PROVE  ReportAddsUp(b)
<1>1. ASSUME Unmoved(b), NEW c \in Cluster
      PROVE  LET view == ClusterView(b, c) IN
               /\ Agrees(view.status, UNION {t.shown : t \in view.tasks})
               /\ \A t \in view.tasks : Agrees(t.status, t.shown)
  <2> DEFINE below(t) == {j \in DOMAIN results : CheckOf(j) \in Checks[t]}
             view(t) == [status |-> StatusIn(tasks, t), shown |-> below(t)]
             under == {j \in DOMAIN results : CheckOf(j) \in ChecksOf(c)}
  <2>1. ChecksIn(b) = Checks /\ TasksIn(b) = SSDFTasks
    BY <1>1, UnmovedMaps
  <2>2. /\ ClusterView(b, c).status = StatusIn(clusters, c)
        /\ ClusterView(b, c).tasks = {view(t) : t \in SSDFTasks[c]}
    BY <2>1 DEF ClusterView, TaskView
  <2>3. UNION {v.shown : v \in {view(t) : t \in SSDFTasks[c]}} = under
    <3>1. \A t : view(t).shown = below(t)
      OBVIOUS
    <3> HIDE DEF view
    <3>2. QED
      BY <3>1 DEF ChecksOf
  <2>4. Statuses(under) = Raw(ChecksOf(c)) /\ (under = {} <=> Raw(ChecksOf(c)) = {})
    BY DEF Statuses, Raw, CheckOf
  <2>5. ASSUME NEW t \in SSDFTasks[c]
        PROVE  Statuses(below(t)) = Raw(Checks[t]) /\ (below(t) = {} <=> Raw(Checks[t]) = {})
    BY DEF Statuses, Raw, CheckOf
  <2>6. TasksAreFlat /\ ClustersAreFlat
    BY DEF RollupIsFlat
  <2>7. Agrees(StatusIn(clusters, c), under)
    BY <2>4, <2>6 DEF Agrees, StatusIn, ClustersAreFlat
  <2>8. ASSUME NEW t \in SSDFTasks[c]
        PROVE  Agrees(view(t).status, view(t).shown)
    <3>1. t \in Task
      BY RollupAssumption
    <3>2. view(t).status = StatusIn(tasks, t) /\ view(t).shown = below(t)
      OBVIOUS
    <3>3. Agrees(StatusIn(tasks, t), below(t))
      BY <2>5, <2>6, <3>1 DEF Agrees, StatusIn, TasksAreFlat
    <3>4. QED
      BY <3>2, <3>3
  <2> HIDE DEF view, under
  <2>9. QED
    BY <2>2, <2>3, <2>7, <2>8
<1>2. QED
  BY <1>1, CountsAddUp, GapsTabled DEF ReportAddsUp

(***************************************************************************)
(* The plan.                                                               *)
(***************************************************************************)
LEMMA GroupsAre ==
  ASSUME TypeOK, NEW b
  PROVE  /\ \A i \in Section : \A n : n \in Groups(b)[i] <=>
              n \in DOMAIN Findings(b) /\ GroupOrder(b, Findings(b)[n]) = i
         /\ UNION {Groups(b)[i] : i \in Section} = DOMAIN Findings(b)
         /\ \A i, k \in Section : i < k => \A m \in Groups(b)[i], n \in Groups(b)[k] : m < n
<1>1. ASSUME NEW i \in Section, NEW n
      PROVE  n \in Groups(b)[i] <=> n \in DOMAIN Findings(b) /\ GroupOrder(b, Findings(b)[n]) = i
  BY DEF Groups
<1>2. UNION {Groups(b)[i] : i \in Section} = DOMAIN Findings(b)
  BY <1>1, SectionFound
<1>3. ASSUME NEW i \in Section, NEW k \in Section, i < k, NEW m \in Groups(b)[i], NEW n \in Groups(b)[k]
      PROVE  m < n
  <2>1. /\ Findings(b)[m] \in Gaps /\ Number(b, Findings(b)[m]) = m
        /\ Findings(b)[n] \in Gaps /\ Number(b, Findings(b)[n]) = n
    BY <1>1, FindingsAre
  <2>2. Before(b, Findings(b)[m], Findings(b)[n])
    BY <1>1, <1>3 DEF Before
  <2>3. QED
    BY <2>1, <2>2, NumbersGivenOnce
<1>4. QED
  BY <1>1, <1>2, <1>3

LEMMA SummaryCounts ==
  ASSUME TypeOK, NEW b, NEW i \in Section
  PROVE  ClusterSummary(b, i).fail + ClusterSummary(b, i).partial = Cardinality(Groups(b)[i])
<1> DEFINE S == {j \in Gaps : GroupOrder(b, j) = i}
           F == {j \in S : results[j].status = "verified-fail"}
           P == {j \in S : results[j].status = "partial"}
           G == Groups(b)[i]
           f == [j \in S |-> Number(b, j)]
<1>1. ClusterSummary(b, i).fail = Cardinality(F) /\ ClusterSummary(b, i).partial = Cardinality(P)
  BY DEF ClusterSummary, Counted
<1>2. S = F \cup P /\ F \cap P = {} /\ IsFiniteSet(S) /\ IsFiniteSet(F) /\ IsFiniteSet(P)
  <2>1. S = F \cup P /\ F \cap P = {}
    BY DEF Gaps, Gap
  <2>2. S \subseteq DOMAIN results /\ F \subseteq DOMAIN results /\ P \subseteq DOMAIN results
    BY DEF Gaps
  <2>3. QED
    BY <2>1, <2>2, GapsFinite
<1>3. f \in Surjection(S, G) /\ f \in Injection(S, G)
  <2>1. ASSUME NEW j \in S PROVE Number(b, j) \in G
    <3>1. Number(b, j) \in DOMAIN Findings(b) /\ Findings(b)[Number(b, j)] = j
      BY FindingsAre
    <3>2. GroupOrder(b, Findings(b)[Number(b, j)]) = i
      BY <3>1
    <3>3. QED
      BY <3>1, <3>2, GroupsAre
  <2>2. ASSUME NEW n \in G PROVE Findings(b)[n] \in S /\ Number(b, Findings(b)[n]) = n
    BY FindingsAre, GroupsAre
  <2>3. \A j, k \in S : Number(b, j) = Number(b, k) => j = k
    BY NumbersGivenOnce
  <2> HIDE DEF S, G
  <2>4. QED
    BY <2>1, <2>2, <2>3 DEF Surjection, Injection, IsInjective
<1> HIDE DEF S, F, P, G
<1>4. Cardinality(S) = Cardinality(F) + Cardinality(P)
  BY <1>2, CountTwo
<1>5. Cardinality(G) = Cardinality(S)
  BY <1>2, <1>3, FS_Surjection
<1>6. QED
  BY <1>1, <1>4, <1>5 DEF G

LEMMA PlanAdds ==
  ASSUME TypeOK, RollupIsFlat, phase = "written", SchemaValid, {"ssdf", "cisa"} \subseteq recorded, NEW b
  PROVE  PlanAddsUp(b)
<1>1. ASSUME NEW j \in Gaps
      PROVE  \E n \in DOMAIN Findings(b) : \A m \in DOMAIN Findings(b) : Findings(b)[m] = j <=> m = n
  <2> DEFINE f == Findings(b)
             n == Number(b, j)
  <2>1. n \in DOMAIN f /\ f[n] = j
    BY FindingsAre
  <2>2. ASSUME NEW m \in DOMAIN f, f[m] = j PROVE m = n
    <3>1. Number(b, f[m]) = m
      BY FindingsAre
    <3>2. QED
      BY <2>2, <3>1
  <2> HIDE DEF f, n
  <2>3. \A m \in DOMAIN f : f[m] = j <=> m = n
    BY <2>1, <2>2
  <2>4. QED
    BY <2>1, <2>3 DEF f
<1>2. Len(Findings(b)) + Cardinality(OutsideTool) + StatusCounts["verified-pass"] = Len(results)
  <2>1. Len(Findings(b)) = Cardinality(Gaps)
    BY FindingsAre
  <2> DEFINE nF == StatusCounts["verified-fail"]
             nP == StatusCounts["partial"]
             nN == StatusCounts["not-checkable"]
             nA == StatusCounts["self-attested"]
             nV == StatusCounts["verified-pass"]
  <2>2. /\ nF \in Nat /\ nP \in Nat /\ nN \in Nat /\ nA \in Nat /\ nV \in Nat
        /\ nF + nP + nN + nA + nV = Len(results)
        /\ Cardinality(Gaps) = nF + nP /\ Cardinality(OutsideTool) = nN + nA
    BY CountsAddUp, ValidIs
  <2>3. Len(Findings(b)) = nF + nP
    BY <2>1, <2>2
  <2> HIDE DEF nF, nP, nN, nA
  <2>4. QED
    BY <2>2, <2>3
<1>3. ASSUME Unmoved(b)
      PROVE  UNION {ClusterIDs(b, j) : j \in Gaps} = {c \in DOMAIN clusters : clusters[c] \in Gap}
  <2>1. ChecksIn(b) = Checks /\ TasksIn(b) = SSDFTasks
    BY <1>3, UnmovedMaps
  <2>2. ClustersAreFlat /\ DOMAIN clusters \subseteq Cluster /\ \A c \in DOMAIN clusters : clusters[c] \in Valid
    BY DEF RollupIsFlat, TypeOK
  <2>3. \A c \in DOMAIN clusters : clusters[c] \in Gap <=> Raw(ChecksOf(c)) \cap Gap # {}
    BY <2>2, GapTruth DEF ClustersAreFlat
  <2>4. \A c \in Cluster : Raw(ChecksOf(c)) \cap Gap # {} <=> \E j \in Gaps : CheckOf(j) \in ChecksOf(c)
    BY DEF Raw, Gaps, CheckOf
  <2>5. \A j : ClusterIDs(b, j) \subseteq Cluster
    BY DEF ClusterIDs
  <2>6. \A c \in Cluster : \A j : c \in ClusterIDs(b, j) <=> CheckOf(j) \in ChecksOf(c)
    BY <2>1, ClustersOfCheck
  <2>7. \A c \in Cluster : Raw(ChecksOf(c)) \cap Gap # {} => c \in DOMAIN clusters
    BY <2>2 DEF ClustersAreFlat
  <2>8. \A c : c \in UNION {ClusterIDs(b, j) : j \in Gaps} <=> c \in DOMAIN clusters /\ clusters[c] \in Gap
    BY <2>2, <2>3, <2>4, <2>5, <2>6, <2>7
  <2>9. QED
    BY <2>8
<1>4. \A i \in Section :
        ClusterSummary(b, i).fail + ClusterSummary(b, i).partial = Cardinality(Groups(b)[i])
  BY SummaryCounts
<1>5. QED
  BY <1>1, <1>2, <1>3, <1>4, GroupsAre DEF PlanAddsUp

(***************************************************************************)
(* Two documents of builds that agree on both mappings number alike.       *)
(***************************************************************************)
LEMMA SameNumbers ==
  ASSUME {"ssdf", "cisa"} \subseteq recorded, NEW r, NEW p, Bannerless(r), Bannerless(p)
  PROVE  Findings(r) = Findings(p)
<1>1. /\ ChecksIn(r) = Checks /\ TasksIn(r) = SSDFTasks
      /\ ChecksIn(p) = Checks /\ TasksIn(p) = SSDFTasks
  BY UnmovedMaps DEF Bannerless, Unmoved
<1>2. \A j : ClusterIDs(r, j) = ClusterIDs(p, j)
  BY <1>1 DEF ClusterIDs, TaskIDs
<1>3. \A j : GroupOrder(r, j) = GroupOrder(p, j)
  <2> TAKE j
  <2> DEFINE places(b) == {i \in DOMAIN ClusterOrder : ClusterOrder[i] \in ClusterIDs(b, j)}
             first(S) == IF S = {} THEN Len(ClusterOrder) + 1 ELSE CHOOSE i \in S : \A k \in S : i <= k
  <2>1. places(r) = places(p)
    BY <1>2
  <2>2. GroupOrder(r, j) = first(places(r)) /\ GroupOrder(p, j) = first(places(p))
    BY DEF GroupOrder
  <2> HIDE DEF places, first
  <2>3. QED
    BY <2>1, <2>2
<1>4. \A i, j : Before(r, i, j) <=> Before(p, i, j)
  BY <1>3 DEF Before
<1>5. \A j : Number(r, j) = Number(p, j)
  <2> TAKE j
  <2>1. {i \in Gaps : i = j \/ Before(r, i, j)} = {i \in Gaps : i = j \/ Before(p, i, j)}
    BY <1>4
  <2>2. QED
    BY <2>1 DEF Number
<1>6. QED
  BY <1>5 DEF Findings

LEMMA IDsAgree ==
  ASSUME TypeOK, {"ssdf", "cisa"} \subseteq recorded, NEW r, NEW p, Bannerless(r), Bannerless(p)
  PROVE  SameIDs(r, p)
<1> DEFINE findings == Findings(p)
<1>1. findings = Findings(r)
  BY SameNumbers
<1>2. ASSUME NEW j \in Gaps
      PROVE  LET found == findings[PoamID(findings, j)] IN
               /\ found \in Gaps /\ results[found].key = results[j].key
               /\ (\A k \in Gaps : results[k].key = results[j].key => k = j) => found = j
  <2> DEFINE same == {n \in DOMAIN findings : results[findings[n]].key = results[j].key}
             N == Cardinality(Gaps)
  <2>1. N \in Nat /\ same \in SUBSET (0..N) /\ same # {}
    <3>1. N \in Nat
      BY GapsFinite
    <3>2. DOMAIN findings = 1..N
      BY FindingsAre
    <3>3. Number(p, j) \in DOMAIN findings /\ findings[Number(p, j)] = j
      BY FindingsAre
    <3>4. Number(p, j) \in same
      BY <3>3
    <3>5. 1..N \subseteq 0..N
      BY <3>1
    <3> HIDE DEF N
    <3>6. same \subseteq 1..N
      BY <3>2
    <3>7. QED
      BY <3>1, <3>4, <3>5, <3>6
  <2>2. \E n \in same : \A m \in same : m <= n
    BY <2>1, Greatest
  <2>3. PoamID(findings, j) = CHOOSE n \in same : \A m \in same : m <= n
    BY DEF PoamID
  <2>4. PoamID(findings, j) \in same
    BY <2>2, <2>3
  <2>5. \A n \in DOMAIN findings : findings[n] \in Gaps
    BY FindingsAre
  <2>6. QED
    BY <2>4, <2>5
<1>3. ASSUME NEW row \in GapTable(r)
      PROVE  LET found == findings[row.poam] IN
               /\ results[found].key = results[row.result].key
               /\ (\A j \in Gaps : results[j].key = results[row.result].key => j = row.result)
                    => found = row.result
  <2>1. PICK j \in Gaps : row = [result |-> j, poam |-> PoamID(findings, j)]
    BY <1>1 DEF GapTable
  <2>2. row.result = j /\ row.poam = PoamID(findings, j)
    BY <2>1
  <2>3. QED
    BY <1>2, <2>2
<1>4. QED
  BY <1>3 DEF SameIDs

(***************************************************************************)
(* A document is made of a pack that is written, which nothing changes     *)
(* any more.                                                               *)
(***************************************************************************)
Written ==
  /\ {"ssdf", "cisa"} \subseteq recorded
  /\ report # Unrendered \/ plan # Unrendered => phase = "written" /\ SchemaValid

LEMMA WrittenStep ==
  ASSUME Written, [ReportNext]_reportVars
  PROVE  Written'
<1>1. CASE UNCHANGED reportVars
  BY <1>1 DEF reportVars, documents, vars, Written, SchemaValid
<1>2. CASE Next /\ UNCHANGED documents
  <2>1. ~(phase = "written")
    BY <1>2 DEF Next, Collected, CollectorFailed, Append1, Attest, RejectAnswers, ReduceNext,
       BuildRollup, Write
  <2>2. QED
    BY <1>2, <2>1 DEF documents, Written
<1>3. ASSUME NEW b \in Build, RenderMarkdown(b) \/ RenderPOAM(b) PROVE Written'
  BY <1>3 DEF RenderMarkdown, RenderPOAM, vars, Written, SchemaValid
<1>4. QED
  BY <1>1, <1>2, <1>3 DEF ReportNext

\* Rendering leaves the pack alone: what is proved of Spec holds with the documents there.
THEOREM ReportsLeavePackAlone == ReportSpec => Spec
<1>1. ReportInit => Init
  BY DEF ReportInit
<1>2. [ReportNext]_reportVars => [Next]_vars
  BY DEF ReportNext, reportVars, RenderMarkdown, RenderPOAM
<1>3. QED
  BY <1>1, <1>2, PTL DEF ReportSpec, Spec

(***************************************************************************)
(* What the documents say, each and side by side, follows from the pack    *)
(* they are made of, for every pack, every mapping and every two builds    *)
(* (assignFindings, buildContext, buildPOAMContext).                       *)
(***************************************************************************)
THEOREM DocumentsFollowThePack == ReportSpec => []ReportFollowsPack
<1>1. ReportInit => Written
  BY DEF ReportInit, Written, File
<1>2. ASSUME TypeOK, RollupIsFlat, Written PROVE ReportFollowsPack
  <2>1. report # Unrendered => ReportAddsUp(report)
    BY <1>2, ReportAdds DEF Written
  <2>2. plan # Unrendered => PlanAddsUp(plan)
    BY <1>2, PlanAdds DEF Written
  <2>3. Bannerless(report) /\ Bannerless(plan) => SameIDs(report, plan)
    BY <1>2, IDsAgree DEF Written
  <2>4. QED
    BY <2>1, <2>2, <2>3 DEF ReportFollowsPack
<1>3. QED
  BY <1>1, <1>2, WrittenStep, ReportsLeavePackAlone, RollupTyped, ThreeLevelsAreOne, PTL DEF ReportSpec
=============================================================================
