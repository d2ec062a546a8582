--------------------------- MODULE PackDiffProofs ---------------------------
(***************************************************************************)
(* What PackDiff promises, for any set of checks, any scopes, any length   *)
(* of the listing and a chain of releases of any length.                   *)
(***************************************************************************)
EXTENDS PackDiff, TLAPS

(***************************************************************************)
(* Pack q has not lost sight of what pack p verified, as far as the        *)
(* reports say: a check nobody called unsettled is still verified, and     *)
(* unless it was reported as a regression it is no worse.                  *)
(***************************************************************************)
Follows(p, q) ==
  \A r \in DOMAIN p.of :
    r \notin unsettled /\ p.of[r] \in Verified =>
      /\ r \in DOMAIN q.of /\ q.of[r] \in Verified
      /\ r \notin alarmed => ~Regression(p.of[r], q.of[r])

\* What the reports so far say of the chain, and the last one of its last link.
ChainFollows == first # None => Follows(first, base)
LinkFollows == step = "attach" /\ first # None => Follows(base, cur)

DeltaIsComparison ==
  delta # None =>
    /\ base # None
    /\ step = "attach" => Comparable(base, cur) /\ delta = Compare(base, cur)

IInv ==
  /\ TypeOK
  /\ step \in {"diff", "attach"} => cur # None
  /\ step = "scan" /\ cur # None => base = cur
  /\ DeltaIsComparison
  /\ ChainFollows
  /\ LinkFollows
-----------------------------------------------------------------------------
(***************************************************************************)
(* The lists of Compare are sets of keys of the two packs.                 *)
(***************************************************************************)
LEMMA CompareTyped ==
  ASSUME NEW a \in Pack, NEW b \in Pack
  PROVE  Compare(a, b) \in Delta
<1>1. DOMAIN a.of \subseteq Ref /\ DOMAIN b.of \subseteq Ref
  BY DEF Pack
<1> QED
  BY <1>1 DEF Compare, Delta

(***************************************************************************)
(* What the reader of a delta has been told about every key follows the    *)
(* pack: a key of the baseline neither regressed nor unsettled is still    *)
(* verified, and not worse.                                                *)
(***************************************************************************)
LEMMA NotedFollows ==
  ASSUME NEW a \in Pack, NEW b \in Pack, Note(Compare(a, b))
  PROVE  Follows(a, b)'
<1> SUFFICES ASSUME NEW r \in DOMAIN a.of, r \notin unsettled', a.of[r] \in Verified
             PROVE  /\ r \in DOMAIN b.of /\ b.of[r] \in Verified
                    /\ r \notin alarmed' => ~Regression(a.of[r], b.of[r])
  BY DEF Follows
<1> DEFINE d == Compare(a, b)
<1>1. /\ d.regressions \subseteq alarmed'
      /\ d.coverageLoss \subseteq unsettled' /\ d.other \subseteq unsettled'
      /\ d.removed \subseteq unsettled'
  BY DEF Note
<1>2. r \in DOMAIN b.of
  <2>1. d.removed = DOMAIN a.of \ DOMAIN b.of
    BY DEF Compare
  <2> QED
    BY <1>1, <2>1
<1>3. b.of[r] \in Status
  BY <1>2 DEF Pack
<1>4. Regression(a.of[r], b.of[r]) => r \in d.regressions
  BY <1>2 DEF Compare, Regression
<1>5. b.of[r] = "not-checkable" => r \in d.coverageLoss
  BY <1>2 DEF Compare, CoverageLoss, Verified
<1>6. b.of[r] = "self-attested" => r \in d.other
  BY <1>2 DEF Compare, CoverageLoss, CoverageGain, Regression, Improvement, Verified
<1>7. b.of[r] \in Verified
  BY <1>1, <1>3, <1>5, <1>6 DEF Status
<1> QED
  BY <1>1, <1>2, <1>4, <1>7

(***************************************************************************)
(* Two links of which neither loses a check nor makes it worse make one    *)
(* such link: a check can rise and stay, but not come back down unseen.    *)
(***************************************************************************)
LEMMA FollowsTransitive ==
  ASSUME NEW p, NEW q, NEW s, Follows(p, q), Follows(q, s)
  PROVE  Follows(p, s)
<1> SUFFICES ASSUME NEW r \in DOMAIN p.of, r \notin unsettled, p.of[r] \in Verified
             PROVE  /\ r \in DOMAIN s.of /\ s.of[r] \in Verified
                    /\ r \notin alarmed => ~Regression(p.of[r], s.of[r])
  BY DEF Follows
<1>1. /\ r \in DOMAIN q.of /\ q.of[r] \in Verified
      /\ r \notin alarmed => ~Regression(p.of[r], q.of[r])
  BY DEF Follows
<1>2. /\ r \in DOMAIN s.of /\ s.of[r] \in Verified
      /\ r \notin alarmed => ~Regression(q.of[r], s.of[r])
  BY <1>1 DEF Follows
<1> QED
  BY <1>1, <1>2 DEF Regression, Verified

LEMMA FollowsItself ==
  ASSUME NEW p
  PROVE  Follows(p, p)
BY DEF Follows, Regression

-----------------------------------------------------------------------------
THEOREM DiffInvariant == Spec => []IInv
<1> USE DiffAssumption
<1>1. Init => IInv
  BY DEF Init, IInv, TypeOK, DeltaIsComparison, ChainFollows, LinkFollows
<1>2. IInv /\ [Next]_vars => IInv'
  <2> SUFFICES ASSUME IInv, [Next]_vars PROVE IInv'
    OBVIOUS
  <2> USE DEF IInv
  <2>1. CASE Scan
    <3>1. TypeOK'
      BY <2>1 DEF Scan, TypeOK
    <3>2. DeltaIsComparison' /\ LinkFollows'
      BY <2>1 DEF Scan, DeltaIsComparison, LinkFollows
    <3>3. ChainFollows'
      BY <2>1 DEF Scan, ChainFollows, Follows
    <3> QED
      BY <2>1, <3>1, <3>2, <3>3 DEF Scan
  <2>2. CASE NoPack
    <3>1. TypeOK'
      BY <2>2 DEF NoPack, NoneAttached, TypeOK
    <3>2. DeltaIsComparison' /\ LinkFollows'
      BY <2>2 DEF NoPack, DeltaIsComparison, LinkFollows
    <3>3. ChainFollows'
      BY <2>2 DEF NoPack, ChainFollows, Follows
    <3> QED
      BY <2>2, <3>1, <3>2, <3>3 DEF NoPack
  <2>3. CASE SkipDiff
    <3>1. TypeOK'
      BY <2>3 DEF SkipDiff, TypeOK
    <3>2. DeltaIsComparison' /\ LinkFollows' /\ ChainFollows'
      BY <2>3 DEF SkipDiff, DeltaIsComparison, LinkFollows, ChainFollows, TypeOK
    <3> QED
      BY <2>3, <3>1, <3>2 DEF SkipDiff
  <2>4. CASE Diff
    <3>1. base \in Pack /\ cur \in Pack
      BY <2>4 DEF Diff, BaselineFound, TypeOK
    <3>2. /\ delta' = Compare(base, cur)
          /\ Note(Compare(base, cur))
          /\ exit' \in {0, 2} /\ step' = "attach"
          /\ UNCHANGED <<base, since, cur, first>>
      BY <2>4 DEF Diff
    <3>3. Compare(base, cur) \in Delta
      BY <3>1, CompareTyped
    <3>4. alarmed \subseteq alarmed' /\ unsettled \subseteq unsettled'
      BY <3>2 DEF Note
    <3>5. alarmed' \subseteq Ref /\ unsettled' \subseteq Ref
      BY <3>2, <3>3 DEF Note, Delta, TypeOK
    <3>6. TypeOK'
      BY <3>2, <3>3, <3>5 DEF TypeOK
    <3>7. LinkFollows'
      BY <3>1, <3>2, NotedFollows DEF LinkFollows, Follows
    <3>8. ChainFollows'
      BY <3>2, <3>4 DEF ChainFollows, Follows
    <3>9. DeltaIsComparison'
      BY <2>4, <3>2 DEF Diff, BaselineFound, DeltaIsComparison
    <3> QED
      BY <2>4, <3>2, <3>6, <3>7, <3>8, <3>9 DEF Diff
  <2>5. CASE DiffRefused
    <3>1. TypeOK' /\ DeltaIsComparison'
      BY <2>5 DEF DiffRefused, TypeOK, DeltaIsComparison
    <3>2. base \in Pack /\ (first # None => first \in Pack)
      BY <2>5 DEF DiffRefused, BaselineFound, TypeOK
    <3>3. (first # None => DOMAIN first.of \subseteq Ref) /\ DOMAIN base.of \subseteq Ref
      BY <3>2 DEF Pack
    <3>4. LinkFollows' /\ ChainFollows'
      BY <2>5, <3>3 DEF DiffRefused, LinkFollows, ChainFollows, Follows
    <3> QED
      BY <2>5, <3>1, <3>4 DEF DiffRefused
  <2>6. CASE Attach
    <3>1. TypeOK'
      BY <2>6 DEF Attach, TypeOK
    <3>2. DeltaIsComparison' /\ LinkFollows'
      BY <2>6 DEF Attach, DeltaIsComparison, LinkFollows
    <3>3. CASE first = None
      <4>1. first' = base'
        BY <2>6, <3>3 DEF Attach
      <4> QED
        BY <2>6, <3>1, <3>2, <4>1, FollowsItself DEF Attach, ChainFollows, Follows
    <3>4. CASE first # None
      <4>1. Follows(first, base) /\ Follows(base, cur)
        BY <2>6, <3>4 DEF Attach, TypeOK, ChainFollows, LinkFollows
      <4>2. Follows(first, cur)
        BY <4>1, FollowsTransitive
      <4> QED
        BY <2>6, <3>1, <3>2, <3>4, <4>2 DEF Attach, ChainFollows, Follows
    <3> QED
      BY <3>3, <3>4
  <2>7. CASE UploadFails
    <3>1. TypeOK'
      BY <2>7 DEF UploadFails, NoneAttached, TypeOK
    <3>2. DeltaIsComparison' /\ LinkFollows'
      BY <2>7 DEF UploadFails, DeltaIsComparison, LinkFollows
    <3>3. ChainFollows'
      BY <2>7 DEF UploadFails, ChainFollows, Follows
    <3> QED
      BY <2>7, <3>1, <3>2, <3>3 DEF UploadFails
  <2>8. CASE UNCHANGED vars
    BY <2>8 DEF vars, TypeOK, DeltaIsComparison, ChainFollows, LinkFollows, Follows
  <2> QED
    BY <2>1, <2>2, <2>3, <2>4, <2>5, <2>6, <2>7, <2>8 DEF Next
<1> QED
  BY <1>1, <1>2, PTL DEF Spec

\* What the pipeline keeps has the types it should, and the history its shape.
THEOREM ChainTyped == Spec => []TypeOK
BY DiffInvariant, PTL DEF IInv

(***************************************************************************)
(* A check that is worse than in the first pack of an unbroken chain of    *)
(* comparisons was reported as a regression, or as one that could not be   *)
(* followed.  Where no pack is found among the newest Window releases the  *)
(* chain begins anew.                                                      *)
(***************************************************************************)
THEOREM DeclinesAreListed == Spec => []NoSilentDecline
<1>1. IInv => NoSilentDecline
  <2> SUFFICES ASSUME IInv, NEW r \in Ref, first # None,
                      r \in DOMAIN first.of \cap DOMAIN base.of,
                      Regression(first.of[r], base.of[r])
               PROVE  r \in alarmed \cup unsettled
    BY DEF NoSilentDecline
  <2>1. first.of[r] \in Verified
    BY DEF Regression, Verified
  <2> QED
    BY <2>1 DEF IInv, ChainFollows, Follows
<1> QED
  BY <1>1, DiffInvariant, PTL

(***************************************************************************)
(* An alarm never keeps the new pack from becoming the baseline.           *)
(***************************************************************************)
THEOREM AlarmsDoNotFreeze == Spec => []BaselineFollows
<1>1. IInv => BaselineFollows
  BY DEF IInv, BaselineFollows
<1> QED
  BY <1>1, DiffInvariant, PTL
-----------------------------------------------------------------------------
(***************************************************************************)
(* Regression and improvement are each other's reverse, and so are the two *)
(* coverage classes; no transition is in two classes.                      *)
(***************************************************************************)
LEMMA ClassesMirror ==
  ASSUME NEW from, NEW to
  PROVE  /\ Regression(from, to) <=> Improvement(to, from)
         /\ CoverageLoss(from, to) <=> CoverageGain(to, from)
BY DEF Regression, Improvement, CoverageLoss, CoverageGain

LEMMA ClassesDisjoint ==
  ASSUME NEW from, NEW to
  PROVE  /\ ~(Regression(from, to) /\ Improvement(from, to))
         /\ Regression(from, to) \/ Improvement(from, to) =>
              ~CoverageLoss(from, to) /\ ~CoverageGain(from, to)
         /\ ~(CoverageLoss(from, to) /\ CoverageGain(from, to))
BY DEF Regression, Improvement, CoverageLoss, CoverageGain, Verified

\* A delta read backwards is the delta of the packs exchanged.
THEOREM DeltasMirror == Spec => []DeltaMirrors
<1>1. IInv => DeltaMirrors
  <2> SUFFICES ASSUME IInv, step = "attach", delta # None
               PROVE  LET back == Compare(cur, base) IN
                 /\ delta.regressions = back.improvements /\ delta.improvements = back.regressions
                 /\ delta.coverageLoss = back.coverageGain /\ delta.coverageGain = back.coverageLoss
                 /\ delta.other = back.other
                 /\ delta.added = back.removed /\ delta.removed = back.added
    BY DEF DeltaMirrors
  <2>1. delta = Compare(base, cur)
    BY DEF IInv, DeltaIsComparison
  <2> QED
    BY <2>1, ClassesMirror DEF Compare
<1> QED
  BY <1>1, DiffInvariant, PTL

(***************************************************************************)
(* Every change is in exactly one list, and nothing else is in any.        *)
(***************************************************************************)
THEOREM DeltasPartition == Spec => []DeltaIsAPartition
<1>1. IInv => DeltaIsAPartition
  <2> SUFFICES ASSUME IInv, step = "attach", delta # None
               PROVE  /\ Listed = {r \in Ref : AsOf(base, r) # AsOf(cur, r)}
                      /\ \A k, l \in DOMAIN delta : k # l => delta[k] \cap delta[l] = {}
    BY DEF DeltaIsAPartition
  <2>1. delta = Compare(base, cur) /\ delta \in Delta /\ base \in Pack /\ cur \in Pack
    BY DEF IInv, DeltaIsComparison, TypeOK
  <2>2. /\ DOMAIN base.of \subseteq Ref /\ DOMAIN cur.of \subseteq Ref
        /\ \A r \in DOMAIN base.of : base.of[r] # "absent"
        /\ \A r \in DOMAIN cur.of : cur.of[r] # "absent"
    BY <2>1 DEF Pack, Status, Verified
  <2> DEFINE both == DOMAIN base.of \cap DOMAIN cur.of
             changed == {r \in both : base.of[r] # cur.of[r]}
             only == (DOMAIN base.of \ DOMAIN cur.of) \cup (DOMAIN cur.of \ DOMAIN base.of)
  <2>3. /\ delta.regressions = {r \in changed : Regression(base.of[r], cur.of[r])}
        /\ delta.improvements = {r \in changed : Improvement(base.of[r], cur.of[r])}
        /\ delta.coverageLoss = {r \in changed : CoverageLoss(base.of[r], cur.of[r])}
        /\ delta.coverageGain = {r \in changed : CoverageGain(base.of[r], cur.of[r])}
        /\ delta.other = changed \ (delta.regressions \cup delta.improvements
                                      \cup delta.coverageLoss \cup delta.coverageGain)
        /\ delta.added = DOMAIN cur.of \ DOMAIN base.of
        /\ delta.removed = DOMAIN base.of \ DOMAIN cur.of
    BY <2>1 DEF Compare
  <2>4. DOMAIN delta = {"regressions", "improvements", "coverageLoss", "coverageGain",
                        "other", "added", "removed"}
    BY <2>1 DEF Delta
  <2> HIDE DEF changed, only
  <2>5. Listed = changed \cup only
    <3>1. Listed = delta.regressions \cup delta.improvements \cup delta.coverageLoss
                     \cup delta.coverageGain \cup delta.other \cup delta.added \cup delta.removed
      BY <2>4 DEF Listed
    <3> QED
      BY <2>3, <3>1 DEF only
  <2>6. changed \cup only = {r \in Ref : AsOf(base, r) # AsOf(cur, r)}
    BY <2>2 DEF changed, only, AsOf
  <2>7. /\ delta.regressions \cap delta.improvements = {}
        /\ delta.regressions \cap delta.coverageLoss = {}
        /\ delta.regressions \cap delta.coverageGain = {}
        /\ delta.improvements \cap delta.coverageLoss = {}
        /\ delta.improvements \cap delta.coverageGain = {}
        /\ delta.coverageLoss \cap delta.coverageGain = {}
    BY <2>3, ClassesDisjoint
  <2>8. /\ delta.added \cap delta.removed = {}
        /\ \A l \in DOMAIN delta \ {"added", "removed"} :
             delta[l] \cap delta.added = {} /\ delta[l] \cap delta.removed = {}
        /\ \A l \in {"regressions", "improvements", "coverageLoss", "coverageGain"} :
             delta[l] \cap delta.other = {}
    BY <2>3, <2>4 DEF changed
  <2> QED
    BY <2>4, <2>5, <2>6, <2>7, <2>8
<1> QED
  BY <1>1, DiffInvariant, PTL
=============================================================================
