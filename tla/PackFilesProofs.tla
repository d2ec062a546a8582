-------------------------- MODULE PackFilesProofs ---------------------------
(***************************************************************************)
(* For any number of scans, signing or not, any number of readers and any  *)
(* faults: the invariants of PackFiles.                                    *)
(***************************************************************************)
EXTENDS PackFiles, TLAPS

(***************************************************************************)
(* Where a scan stands tells what its temp file holds.                     *)
(***************************************************************************)
TempFollowsPlace ==
  \A s \in Scan :
    /\ exit[s] \in {"ok", "failed"} => temp[s] = "none"
    /\ exit[s] = "running" =>
         temp[s] = IF pc[s] = "created" THEN "partial"
                   ELSE IF pc[s] = "closed" THEN "full" ELSE "none"

Whole == EvidenceWhole /\ bundle # Torn

(***************************************************************************)
(* A hash, in the sidecar or read from it, is one its own scan recorded.   *)
(***************************************************************************)
Recorded(h) == h \in Scan /\ pc[h] \in {"hashed", "signing"}

ReadHash(r) ==
  /\ want[r] # None => Recorded(want[r])
  /\ rpc[r] \in {"bundle", "cosign"} => want[r] # None
  /\ verdict[r] = "ok" => want[r] # None /\ got[r] = want[r]
  /\ verdict[r] # "none" => rpc[r] = "end"

HashesRecorded ==
  /\ sidecar \notin {None, Empty} => Recorded(sidecar)
  /\ \A r \in Reader : ReadHash(r)

(***************************************************************************)
(* What the scan that alone has written since it began finds in place.     *)
(***************************************************************************)
SoleInPlace ==
  /\ \A s \in Scan :
       /\ exit[s] = "ok" => pc[s] = IF s \in signs THEN "signing" ELSE "hashed"
       /\ exit[s] = "running" /\ pc[s] = "hashed" => s \in signs
       /\ pc[s] = "signing" => s \in signs
  /\ sole \in Scan =>
       /\ pc[sole] \in {"renamed", "truncated", "hashed", "signing"} => evidence = sole
       /\ pc[sole] \in {"hashed", "signing"} => sidecar = sole
       /\ pc[sole] = "signing" => signing[sole] = sole
       /\ bundle = IF exit[sole] = "ok" /\ sole \in signs THEN sole ELSE found.bundle
  /\ \A t \in found.strays : exit[t] = "crashed" /\ temp[t] # "none"

(***************************************************************************)
(* What a reader has read is still there while no file changes.            *)
(***************************************************************************)
QuietRead(r) ==
  quiet[r] =>
    /\ rpc[r] # "start" /\ kind[r] \in {"report", "report --force"} /\ verdict[r] # "error"
         => data[r] = evidence
    /\ rpc[r] \in {"compare", "bundle", "cosign"} => got[r] = evidence
    /\ rpc[r] \in {"bundle", "cosign"} => want[r] = sidecar
    /\ rpc[r] = "cosign" => bundle # None
    /\ rpc[r] = "load" => sidecar \in {None, evidence}
    /\ verdict[r] \in {"rendered", "diffed"} => sidecar \in {None, data[r]}
    /\ verdict[r] = "ok" => sidecar = evidence /\ bundle \in {None, evidence}
    /\ verdict[r] = "tampered" => sidecar # evidence \/ bundle \notin {None, evidence}

QuietReads == \A r \in Reader : QuietRead(r)

IInv == TypeOK /\ TempFollowsPlace /\ Whole /\ HashesRecorded /\ SoleInPlace /\ QuietReads
-----------------------------------------------------------------------------
(* Every action keeps the types. *)

LEMMA ScanTypes ==
  ASSUME TypeOK, NEW s \in Scan, ScanStep(s)
  PROVE  TypeOK'
<1> USE FilesAssumption DEF files, scanVars, readerVars, history, TypeOK, Place
<1>1. CASE CreateTemp(s)
  BY <1>1 DEF CreateTemp, At, Advance, Bytes, Strays
<1>2. CASE WriteTemp(s)
  BY <1>2 DEF WriteTemp, At, Advance, Bytes
<1>3. CASE Rename(s)
  BY <1>3 DEF Rename, At, Advance, Touch, Bytes
<1>4. CASE TruncateSidecar(s)
  BY <1>4 DEF TruncateSidecar, At, Advance, Touch, Bytes
<1>5. CASE WriteSidecar(s)
  BY <1>5 DEF WriteSidecar, At, Advance, Touch, Bytes
<1>6. CASE StartSign(s)
  BY <1>6 DEF StartSign, At, Advance, Bytes
<1>7. CASE WriteBundle(s)
  BY <1>7 DEF WriteBundle, At, Touch, Bytes
<1>8. CASE Fail(s)
  BY <1>8 DEF Fail, Bytes
<1>9. CASE Crash(s)
  BY <1>9 DEF Crash, Bytes
<1> QED
  BY <1>1, <1>2, <1>3, <1>4, <1>5, <1>6, <1>7, <1>8, <1>9 DEF ScanStep

LEMMA ReaderTypes ==
  ASSUME TypeOK, NEW r \in Reader, ReaderStep(r)
  PROVE  TypeOK'
<1> USE DEF TypeOK, files, scanVars, history
<1>1. CASE Begin(r)
  <2>1. kind' \in [Reader -> Kind] /\ data' \in [Reader -> Bytes \cup {None}]
    <3>1. \E k \in Kind : kind' = [kind EXCEPT ![r] = k]
      BY <1>1 DEF Begin
    <3>2. data' = data \/ data' = [data EXCEPT ![r] = evidence]
      BY <1>1 DEF Begin
    <3>3. data' \in [Reader -> Bytes \cup {None}]
      BY <3>2
    <3>4. kind' \in [Reader -> Kind]
      <4>1. PICK k \in Kind : kind' = [kind EXCEPT ![r] = k]
        BY <3>1
      <4>2. kind \in [Reader -> Kind]
        OBVIOUS
      <4> HIDE DEF TypeOK, files, scanVars, history
      <4> QED
        BY <4>1, <4>2
    <3> QED
      BY <3>3, <3>4
  <2>2. rpc' \in [Reader -> ReaderPlace] /\ verdict' \in [Reader -> Verdict]
    BY <1>1 DEF Begin, GoTo, End, ReaderPlace, Verdict
  <2> QED
    BY <1>1, <2>1, <2>2 DEF Begin
<1>2. CASE StatSidecar(r)
  <2>1. CASE sidecar = None
    BY <1>2, <2>1 DEF StatSidecar, Checked, GoTo, End, ReaderKeeps, ReaderPlace, Verdict
  <2>2. CASE sidecar # None
    BY <1>2, <2>2 DEF StatSidecar, Checked, GoTo, End, ReaderKeeps, ReaderPlace, Verdict
  <2> QED
    BY <2>1, <2>2
<1>3. CASE HashEvidence(r)
  <2>1. CASE evidence = None
    BY <1>3, <2>1 DEF HashEvidence, GoTo, End, ReaderKeeps, ReaderPlace, Verdict
  <2>2. CASE evidence # None
    BY <1>3, <2>2 DEF HashEvidence, GoTo, End, ReaderKeeps, ReaderPlace, Verdict
  <2> QED
    BY <2>1, <2>2
<1>4. CASE CompareSidecar(r)
  <2>1. CASE sidecar \in {None, Empty}
    BY <1>4, <2>1 DEF CompareSidecar, Checked, GoTo, End, ReaderKeeps, ReaderPlace, Verdict
  <2>2. CASE sidecar \notin {None, Empty}
    <3>1. want' \in [Reader -> Bytes \cup {None}]
      BY <1>4, <2>2 DEF CompareSidecar, Bytes
    <3>2. rpc' \in [Reader -> ReaderPlace] /\ verdict' \in [Reader -> Verdict]
      BY <1>4, <2>2 DEF CompareSidecar, Checked, GoTo, End, ReaderPlace, Verdict
    <3> QED
      BY <1>4, <2>2, <3>1, <3>2 DEF CompareSidecar, ReaderKeeps
  <2> QED
    BY <2>1, <2>2
<1>5. CASE StatBundle(r)
  <2>1. CASE bundle = None
    BY <1>5, <2>1 DEF StatBundle, HashVerdict, GoTo, End, ReaderKeeps, ReaderPlace, Verdict
  <2>2. CASE bundle # None
    BY <1>5, <2>2 DEF StatBundle, HashVerdict, GoTo, End, ReaderKeeps, ReaderPlace, Verdict
  <2> QED
    BY <2>1, <2>2
<1>6. CASE VerifyBlob(r)
  <2>1. CASE bundle = evidence
    BY <1>6, <2>1 DEF VerifyBlob, HashVerdict, End, ReaderKeeps, ReaderPlace, Verdict
  <2>2. CASE bundle # evidence
    BY <1>6, <2>2 DEF VerifyBlob, HashVerdict, End, ReaderKeeps, ReaderPlace, Verdict
  <2> QED
    BY <2>1, <2>2
<1>7. CASE LoadPack(r)
  BY <1>7 DEF LoadPack, End, ReaderKeeps, ReaderPlace, Verdict
<1> QED
  BY <1>1, <1>2, <1>3, <1>4, <1>5, <1>6, <1>7 DEF ReaderStep

LEMMA TypeStep ==
  ASSUME TypeOK, [Next]_vars
  PROVE  TypeOK'
<1>1. CASE UNCHANGED vars
  BY <1>1 DEF vars, files, scanVars, readerVars, history, TypeOK
<1>2. ASSUME NEW s \in Scan, ScanStep(s) PROVE TypeOK'
  BY <1>2, ScanTypes
<1>3. CASE Edit
  BY <1>3 DEF Edit, TypeOK, Bytes, scanVars, readerVars
<1>4. ASSUME NEW r \in Reader, ReaderStep(r) PROVE TypeOK'
  BY <1>4, ReaderTypes
<1> QED
  BY <1>1, <1>2, <1>3, <1>4 DEF Next

(***************************************************************************)
(* A reader leaves the files, the scans and the other readers alone.       *)
(***************************************************************************)
LEMMA ReaderFrame ==
  ASSUME TypeOK, NEW r \in Reader, ReaderStep(r)
  PROVE  /\ UNCHANGED <<evidence, sidecar, bundle, temp, pc, exit, signing, signs, sole, found>>
         /\ \A q \in Reader \ {r} :
              /\ rpc'[q] = rpc[q] /\ kind'[q] = kind[q] /\ got'[q] = got[q]
              /\ want'[q] = want[q] /\ data'[q] = data[q] /\ verdict'[q] = verdict[q]
              /\ quiet'[q] = quiet[q]
<1> USE DEF TypeOK, files, scanVars, history
<1>1. CASE Begin(r)
  BY <1>1 DEF Begin, GoTo, End
<1>2. CASE StatSidecar(r)
  <2>1. CASE sidecar = None
    BY <1>2, <2>1 DEF StatSidecar, Checked, GoTo, End, ReaderKeeps
  <2>2. CASE sidecar # None
    BY <1>2, <2>2 DEF StatSidecar, Checked, GoTo, End, ReaderKeeps
  <2> QED
    BY <2>1, <2>2
<1>3. CASE HashEvidence(r)
  <2>1. CASE evidence = None
    BY <1>3, <2>1 DEF HashEvidence, GoTo, End, ReaderKeeps
  <2>2. CASE evidence # None
    BY <1>3, <2>2 DEF HashEvidence, GoTo, End, ReaderKeeps
  <2> QED
    BY <2>1, <2>2
<1>4. CASE CompareSidecar(r)
  <2>1. CASE sidecar \in {None, Empty}
    BY <1>4, <2>1 DEF CompareSidecar, Checked, GoTo, End, ReaderKeeps
  <2>2. CASE sidecar \notin {None, Empty}
    BY <1>4, <2>2 DEF CompareSidecar, Checked, GoTo, End, ReaderKeeps
  <2> QED
    BY <2>1, <2>2
<1>5. CASE StatBundle(r)
  <2>1. CASE bundle = None
    BY <1>5, <2>1 DEF StatBundle, HashVerdict, GoTo, End, ReaderKeeps
  <2>2. CASE bundle # None
    BY <1>5, <2>2 DEF StatBundle, HashVerdict, GoTo, End, ReaderKeeps
  <2> QED
    BY <2>1, <2>2
<1>6. CASE VerifyBlob(r)
  <2>1. CASE bundle = evidence
    BY <1>6, <2>1 DEF VerifyBlob, HashVerdict, End, ReaderKeeps
  <2>2. CASE bundle # evidence
    BY <1>6, <2>2 DEF VerifyBlob, HashVerdict, End, ReaderKeeps
  <2> QED
    BY <2>1, <2>2
<1>7. CASE LoadPack(r)
  BY <1>7 DEF LoadPack, End, ReaderKeeps
<1> QED
  BY <1>1, <1>2, <1>3, <1>4, <1>5, <1>6, <1>7 DEF ReaderStep

(***************************************************************************)
(* What a reader's step does to that reader, as values: the cases of the   *)
(* invariants below are about these.                                       *)
(***************************************************************************)
Stays(r) ==
  rpc'[r] # "start" /\ kind'[r] = kind[r] /\ quiet'[r] = quiet[r]

CheckedMove(r, tampered) ==
  \/ rpc'[r] = "load" /\ verdict'[r] = verdict[r] /\ ~tampered
  \/ rpc'[r] = "end" /\ verdict'[r] \in {"refused", "banner"}
  \/ /\ rpc'[r] = "end" /\ verdict'[r] = "rendered" /\ ~tampered
     /\ kind[r] \in {"report", "report --force"}

LEMMA CheckedMoves ==
  ASSUME TypeOK, NEW r \in Reader, NEW tampered \in BOOLEAN, Checked(r, tampered)
  PROVE  CheckedMove(r, tampered)
<1> USE DEF TypeOK, GoTo, End, CheckedMove
<1>1. CASE tampered
  BY <1>1 DEF Checked
<1>2. CASE ~tampered
  BY <1>2 DEF Checked
<1> QED
  BY <1>1, <1>2

LEMMA BeginMoves ==
  ASSUME TypeOK, NEW r \in Reader, Begin(r)
  PROVE  /\ rpc[r] = "start" /\ got'[r] = got[r] /\ want'[r] = want[r]
         /\ \/ /\ rpc'[r] = "hash" /\ verdict'[r] = verdict[r] /\ kind'[r] = "verify"
            \/ /\ rpc'[r] = "stat" /\ verdict'[r] = verdict[r] /\ kind'[r] = "diff"
            \/ /\ rpc'[r] = "stat" /\ verdict'[r] = verdict[r] /\ data'[r] = evidence
            \/ /\ rpc'[r] = "end" /\ verdict'[r] = "error"
<1>1. /\ rpc[r] = "start" /\ got'[r] = got[r] /\ want'[r] = want[r]
  BY DEF Begin
<1> USE DEF TypeOK, GoTo, End
<1>2. PICK k \in Kind :
        /\ kind' = [kind EXCEPT ![r] = k]
        /\ \/ k = "verify" /\ GoTo(r, "hash")
           \/ k = "diff" /\ GoTo(r, "stat")
           \/ data' = [data EXCEPT ![r] = evidence] /\ GoTo(r, "stat")
           \/ End(r, "error")
  BY DEF Begin
<1>3. CASE k = "verify" /\ GoTo(r, "hash")
  BY <1>1, <1>2, <1>3
<1>4. CASE k = "diff" /\ GoTo(r, "stat")
  BY <1>1, <1>2, <1>4
<1>5. CASE data' = [data EXCEPT ![r] = evidence] /\ GoTo(r, "stat")
  BY <1>1, <1>5
<1>6. CASE End(r, "error")
  BY <1>1, <1>6
<1> QED
  BY <1>2, <1>3, <1>4, <1>5, <1>6

LEMMA StatMoves ==
  ASSUME TypeOK, NEW r \in Reader, StatSidecar(r)
  PROVE  /\ rpc[r] = "stat" /\ Stays(r)
         /\ got'[r] = got[r] /\ want'[r] = want[r] /\ data'[r] = data[r]
         /\ \/ sidecar = None /\ CheckedMove(r, FALSE)
            \/ rpc'[r] = "hash" /\ verdict'[r] = verdict[r]
<1>1. CASE sidecar = None
  BY <1>1, CheckedMoves DEF StatSidecar, ReaderKeeps, history, Stays, CheckedMove
<1>2. CASE sidecar # None
  BY <1>2 DEF StatSidecar, ReaderKeeps, history, Stays, GoTo, TypeOK
<1> QED
  BY <1>1, <1>2

LEMMA HashMoves ==
  ASSUME TypeOK, NEW r \in Reader, HashEvidence(r)
  PROVE  /\ rpc[r] = "hash" /\ Stays(r)
         /\ want'[r] = want[r] /\ data'[r] = data[r]
         /\ \/ rpc'[r] = "end" /\ verdict'[r] = "error" /\ got'[r] = got[r]
            \/ rpc'[r] = "compare" /\ verdict'[r] = verdict[r] /\ got'[r] = evidence
<1>1. CASE evidence = None
  BY <1>1 DEF HashEvidence, ReaderKeeps, history, Stays, End, TypeOK
<1>2. CASE evidence # None
  BY <1>2 DEF HashEvidence, ReaderKeeps, history, Stays, GoTo, TypeOK
<1> QED
  BY <1>1, <1>2

LEMMA CompareMoves ==
  ASSUME TypeOK, NEW r \in Reader, CompareSidecar(r)
  PROVE  /\ rpc[r] = "compare" /\ Stays(r)
         /\ got'[r] = got[r] /\ data'[r] = data[r]
         /\ \/ rpc'[r] = "end" /\ verdict'[r] = "error" /\ want'[r] = want[r]
            \/ /\ sidecar \notin {None, Empty} /\ want'[r] = sidecar
               /\ \/ rpc'[r] = "bundle" /\ verdict'[r] = verdict[r]
                  \/ CheckedMove(r, got[r] # sidecar)
<1>1. CASE sidecar \in {None, Empty}
  BY <1>1 DEF CompareSidecar, ReaderKeeps, history, Stays, End, TypeOK
<1>2. CASE sidecar \notin {None, Empty} /\ kind[r] = "verify"
  BY <1>2 DEF CompareSidecar, ReaderKeeps, history, Stays, GoTo, TypeOK
<1>3. CASE sidecar \notin {None, Empty} /\ kind[r] # "verify"
  <2>1. Checked(r, got[r] # sidecar) /\ (got[r] # sidecar) \in BOOLEAN
    BY <1>3 DEF CompareSidecar
  <2>2. CheckedMove(r, got[r] # sidecar)
    BY <2>1, CheckedMoves
  <2>3. rpc'[r] # "start"
    BY <2>2 DEF CheckedMove
  <2> QED
    BY <1>3, <2>2, <2>3 DEF CompareSidecar, ReaderKeeps, history, Stays, TypeOK
<1> QED
  BY <1>1, <1>2, <1>3

LEMMA BundleMoves ==
  ASSUME TypeOK, NEW r \in Reader, StatBundle(r)
  PROVE  /\ rpc[r] = "bundle" /\ Stays(r)
         /\ got'[r] = got[r] /\ want'[r] = want[r] /\ data'[r] = data[r]
         /\ \/ rpc'[r] = "cosign" /\ verdict'[r] = verdict[r] /\ bundle # None
            \/ rpc'[r] = "end" /\ verdict'[r] = "tampered" /\ got[r] # want[r]
            \/ /\ rpc'[r] = "end" /\ verdict'[r] = "ok"
               /\ bundle = None /\ got[r] = want[r]
<1>1. CASE bundle = None
  BY <1>1 DEF StatBundle, ReaderKeeps, history, Stays, End, HashVerdict, TypeOK
<1>2. CASE bundle # None
  BY <1>2 DEF StatBundle, ReaderKeeps, history, Stays, GoTo, TypeOK
<1> QED
  BY <1>1, <1>2

LEMMA CosignMoves ==
  ASSUME TypeOK, NEW r \in Reader, VerifyBlob(r)
  PROVE  /\ rpc[r] = "cosign" /\ Stays(r)
         /\ got'[r] = got[r] /\ want'[r] = want[r] /\ data'[r] = data[r]
         /\ rpc'[r] = "end"
         /\ \/ verdict'[r] = "error"
            \/ verdict'[r] = "tampered" /\ (bundle # evidence \/ got[r] # want[r])
            \/ verdict'[r] = "ok" /\ bundle = evidence /\ got[r] = want[r]
<1>1. CASE bundle = evidence
  BY <1>1 DEF VerifyBlob, ReaderKeeps, history, Stays, End, HashVerdict, TypeOK
<1>2. CASE bundle # evidence
  BY <1>2 DEF VerifyBlob, ReaderKeeps, history, Stays, End, HashVerdict, TypeOK
<1> QED
  BY <1>1, <1>2

LEMMA LoadMoves ==
  ASSUME TypeOK, NEW r \in Reader, LoadPack(r)
  PROVE  /\ rpc[r] = "load" /\ Stays(r)
         /\ got'[r] = got[r] /\ want'[r] = want[r]
         /\ rpc'[r] = "end"
         /\ \/ verdict'[r] = "error" /\ data'[r] = data[r]
            \/ verdict'[r] = "diffed" /\ data'[r] = evidence
BY DEF LoadPack, ReaderKeeps, history, Stays, End, TypeOK

(***************************************************************************)
(* The temp file.                                                          *)
(***************************************************************************)
LEMMA TempStep ==
  ASSUME TypeOK, TempFollowsPlace, [Next]_vars
  PROVE  TempFollowsPlace'
<1> USE FilesAssumption DEF TypeOK, TempFollowsPlace
<1>1. ASSUME NEW s \in Scan, CreateTemp(s) PROVE TempFollowsPlace'
  BY <1>1 DEF CreateTemp, At, Advance, files, scanVars, readerVars, history
<1>2. ASSUME NEW s \in Scan, WriteTemp(s) PROVE TempFollowsPlace'
  BY <1>2 DEF WriteTemp, At, Advance, files, scanVars, readerVars, history
<1>3. ASSUME NEW s \in Scan, Rename(s) PROVE TempFollowsPlace'
  BY <1>3 DEF Rename, At, Advance, Touch, files, scanVars, readerVars
<1>4. ASSUME NEW s \in Scan, TruncateSidecar(s) PROVE TempFollowsPlace'
  BY <1>4 DEF TruncateSidecar, At, Advance, Touch, files, scanVars, readerVars
<1>5. ASSUME NEW s \in Scan, WriteSidecar(s) PROVE TempFollowsPlace'
  BY <1>5 DEF WriteSidecar, At, Advance, Touch, files, scanVars, readerVars
<1>6. ASSUME NEW s \in Scan, StartSign(s) PROVE TempFollowsPlace'
  BY <1>6 DEF StartSign, At, Advance, files, scanVars, readerVars, history
<1>7. ASSUME NEW s \in Scan, WriteBundle(s) PROVE TempFollowsPlace'
  BY <1>7 DEF WriteBundle, At, Touch, files, scanVars, readerVars
<1>8. ASSUME NEW s \in Scan, Fail(s) PROVE TempFollowsPlace'
  BY <1>8 DEF Fail, files, scanVars, readerVars, history
<1>9. ASSUME NEW s \in Scan, Crash(s) PROVE TempFollowsPlace'
  BY <1>9 DEF Crash, files, scanVars, readerVars, history
<1>10. CASE Edit
  BY <1>10 DEF Edit, scanVars, readerVars
<1>11. ASSUME NEW r \in Reader, ReaderStep(r) PROVE TempFollowsPlace'
  BY <1>11, ReaderFrame
<1>12. CASE UNCHANGED vars
  BY <1>12 DEF vars, files, scanVars, readerVars, history
<1> QED
  BY <1>1, <1>2, <1>3, <1>4, <1>5, <1>6, <1>7, <1>8, <1>9, <1>10, <1>11, <1>12 DEF Next, ScanStep

(***************************************************************************)
(* Nothing torn is ever published, so nothing torn is ever read.           *)
(***************************************************************************)
LEMMA WholeStep ==
  ASSUME TypeOK, TempFollowsPlace, Whole, [Next]_vars
  PROVE  Whole'
<1> USE FilesAssumption DEF TypeOK, TempFollowsPlace, Whole, EvidenceWhole
<1>1. ASSUME NEW s \in Scan, CreateTemp(s) PROVE Whole'
  BY <1>1 DEF CreateTemp, At, Advance, files, scanVars, readerVars, history
<1>2. ASSUME NEW s \in Scan, WriteTemp(s) PROVE Whole'
  BY <1>2 DEF WriteTemp, At, Advance, files, scanVars, readerVars, history
<1>3. ASSUME NEW s \in Scan, Rename(s) PROVE Whole'
  BY <1>3 DEF Rename, At, Advance, Touch, files, scanVars, readerVars
<1>4. ASSUME NEW s \in Scan, TruncateSidecar(s) PROVE Whole'
  BY <1>4 DEF TruncateSidecar, At, Advance, Touch, files, scanVars, readerVars
<1>5. ASSUME NEW s \in Scan, WriteSidecar(s) PROVE Whole'
  BY <1>5 DEF WriteSidecar, At, Advance, Touch, files, scanVars, readerVars
<1>6. ASSUME NEW s \in Scan, StartSign(s) PROVE Whole'
  BY <1>6 DEF StartSign, At, Advance, files, scanVars, readerVars, history
<1>7. ASSUME NEW s \in Scan, WriteBundle(s) PROVE Whole'
  BY <1>7 DEF WriteBundle, At, Touch, files, scanVars, readerVars
<1>8. ASSUME NEW s \in Scan, Fail(s) PROVE Whole'
  BY <1>8 DEF Fail, files, scanVars, readerVars, history
<1>9. ASSUME NEW s \in Scan, Crash(s) PROVE Whole'
  BY <1>9 DEF Crash, files, scanVars, readerVars, history
<1>10. CASE Edit
  BY <1>10 DEF Edit, scanVars, readerVars
<1>11. ASSUME NEW r \in Reader, ReaderStep(r) PROVE Whole'
  <2>1. evidence' # Torn /\ bundle' # Torn /\ \A s \in Scan : signing'[s] # Torn
    BY <1>11, ReaderFrame
  <2>2. \A q \in Reader \ {r} : got'[q] # Torn /\ data'[q] # Torn
    BY <1>11, ReaderFrame
  <2>3. got'[r] # Torn /\ data'[r] # Torn
    BY <1>11 DEF ReaderStep, Begin, StatSidecar, HashEvidence, CompareSidecar, StatBundle, VerifyBlob, LoadPack
  <2> QED
    BY <2>1, <2>2, <2>3
<1>12. CASE UNCHANGED vars
  BY <1>12 DEF vars, files, scanVars, readerVars, history
<1> QED
  BY <1>1, <1>2, <1>3, <1>4, <1>5, <1>6, <1>7, <1>8, <1>9, <1>10, <1>11, <1>12 DEF Next, ScanStep

LEMMA HashesReader ==
  ASSUME TypeOK, HashesRecorded, NEW r \in Reader, ReaderStep(r)
  PROVE  HashesRecorded'
<1>1. UNCHANGED <<evidence, sidecar, bundle, pc>>
  BY ReaderFrame
<1>2. ASSUME NEW q \in Reader, q # r PROVE ReadHash(q)'
  <2>1. /\ rpc'[q] = rpc[q] /\ kind'[q] = kind[q] /\ got'[q] = got[q] /\ want'[q] = want[q]
        /\ data'[q] = data[q] /\ verdict'[q] = verdict[q] /\ quiet'[q] = quiet[q]
    BY <1>2, ReaderFrame
  <2>2. ReadHash(q)
    BY DEF HashesRecorded
  <2> QED
    BY <1>1, <2>1, <2>2 DEF ReadHash, Recorded
<1>3. ReadHash(r)'
  <2>1. ReadHash(r) /\ (sidecar \notin {None, Empty} => Recorded(sidecar))
    BY DEF HashesRecorded
  <2>2. CASE Begin(r)
    BY <1>1, <2>1, <2>2, BeginMoves DEF ReadHash, Recorded, Stays, CheckedMove
  <2>3. CASE StatSidecar(r)
    BY <1>1, <2>1, <2>3, StatMoves DEF ReadHash, Recorded, Stays, CheckedMove
  <2>4. CASE HashEvidence(r)
    BY <1>1, <2>1, <2>4, HashMoves DEF ReadHash, Recorded, Stays, CheckedMove
  <2>5. CASE CompareSidecar(r)
    BY <1>1, <2>1, <2>5, CompareMoves DEF ReadHash, Recorded, Stays, CheckedMove
  <2>6. CASE StatBundle(r)
    BY <1>1, <2>1, <2>6, BundleMoves DEF ReadHash, Recorded, Stays, CheckedMove
  <2>7. CASE VerifyBlob(r)
    BY <1>1, <2>1, <2>7, CosignMoves DEF ReadHash, Recorded, Stays, CheckedMove
  <2>8. CASE LoadPack(r)
    BY <1>1, <2>1, <2>8, LoadMoves DEF ReadHash, Recorded, Stays, CheckedMove
  <2> QED
    BY <2>2, <2>3, <2>4, <2>5, <2>6, <2>7, <2>8 DEF ReaderStep
<1>4. sidecar' \notin {None, Empty} => Recorded(sidecar)'
  BY <1>1 DEF HashesRecorded, Recorded
<1> QED
  BY <1>2, <1>3, <1>4 DEF HashesRecorded

(***************************************************************************)
(* A recorded hash stays recorded: a scan never goes back.                 *)
(***************************************************************************)
LEMMA HashesStep ==
  ASSUME TypeOK, HashesRecorded, [Next]_vars
  PROVE  HashesRecorded'
<1> USE FilesAssumption DEF TypeOK, HashesRecorded, ReadHash, Recorded
<1>1. ASSUME NEW s \in Scan, CreateTemp(s) PROVE HashesRecorded'
  BY <1>1 DEF CreateTemp, At, Advance, files, scanVars, readerVars, history
<1>2. ASSUME NEW s \in Scan, WriteTemp(s) PROVE HashesRecorded'
  BY <1>2 DEF WriteTemp, At, Advance, files, scanVars, readerVars, history
<1>3. ASSUME NEW s \in Scan, Rename(s) PROVE HashesRecorded'
  BY <1>3 DEF Rename, At, Advance, Touch, files, scanVars, readerVars
<1>4. ASSUME NEW s \in Scan, TruncateSidecar(s) PROVE HashesRecorded'
  BY <1>4 DEF TruncateSidecar, At, Advance, Touch, files, scanVars, readerVars
<1>5. ASSUME NEW s \in Scan, WriteSidecar(s) PROVE HashesRecorded'
  BY <1>5 DEF WriteSidecar, At, Advance, Touch, files, scanVars, readerVars
<1>6. ASSUME NEW s \in Scan, StartSign(s) PROVE HashesRecorded'
  BY <1>6 DEF StartSign, At, Advance, files, scanVars, readerVars, history
<1>7. ASSUME NEW s \in Scan, WriteBundle(s) PROVE HashesRecorded'
  BY <1>7 DEF WriteBundle, At, Touch, files, scanVars, readerVars
<1>8. ASSUME NEW s \in Scan, Fail(s) PROVE HashesRecorded'
  BY <1>8 DEF Fail, files, scanVars, readerVars, history
<1>9. ASSUME NEW s \in Scan, Crash(s) PROVE HashesRecorded'
  BY <1>9 DEF Crash, files, scanVars, readerVars, history
<1>10. CASE Edit
  BY <1>10 DEF Edit, scanVars, readerVars
<1>11. ASSUME NEW r \in Reader, ReaderStep(r) PROVE HashesRecorded'
  BY <1>11, HashesReader
<1>12. CASE UNCHANGED vars
  BY <1>12 DEF vars, files, scanVars, readerVars, history
<1> QED
  BY <1>1, <1>2, <1>3, <1>4, <1>5, <1>6, <1>7, <1>8, <1>9, <1>10, <1>11, <1>12 DEF Next, ScanStep

(***************************************************************************)
(* Only the sole writer's own steps keep it sole.                          *)
(***************************************************************************)
LEMMA SoleStep ==
  ASSUME TypeOK, TempFollowsPlace, SoleInPlace, [Next]_vars
  PROVE  SoleInPlace'
<1> USE FilesAssumption DEF TypeOK, TempFollowsPlace, SoleInPlace
<1>1. ASSUME NEW s \in Scan, CreateTemp(s) PROVE SoleInPlace'
  BY <1>1 DEF CreateTemp, At, Advance, Strays, files, scanVars, readerVars, history
<1>2. ASSUME NEW s \in Scan, WriteTemp(s) PROVE SoleInPlace'
  BY <1>2 DEF WriteTemp, At, Advance, files, scanVars, readerVars, history
<1>3. ASSUME NEW s \in Scan, Rename(s) PROVE SoleInPlace'
  BY <1>3 DEF Rename, At, Advance, Touch, files, scanVars, readerVars
<1>4. ASSUME NEW s \in Scan, TruncateSidecar(s) PROVE SoleInPlace'
  BY <1>4 DEF TruncateSidecar, At, Advance, Touch, files, scanVars, readerVars
<1>5. ASSUME NEW s \in Scan, WriteSidecar(s) PROVE SoleInPlace'
  BY <1>5 DEF WriteSidecar, At, Advance, Touch, files, scanVars, readerVars
<1>6. ASSUME NEW s \in Scan, StartSign(s) PROVE SoleInPlace'
  BY <1>6 DEF StartSign, At, Advance, files, scanVars, readerVars, history
<1>7. ASSUME NEW s \in Scan, WriteBundle(s) PROVE SoleInPlace'
  BY <1>7 DEF WriteBundle, At, Touch, files, scanVars, readerVars
<1>8. ASSUME NEW s \in Scan, Fail(s) PROVE SoleInPlace'
  BY <1>8 DEF Fail, files, scanVars, readerVars, history
<1>9. ASSUME NEW s \in Scan, Crash(s) PROVE SoleInPlace'
  BY <1>9 DEF Crash, files, scanVars, readerVars, history
<1>10. CASE Edit
  BY <1>10 DEF Edit, scanVars, readerVars
<1>11. ASSUME NEW r \in Reader, ReaderStep(r) PROVE SoleInPlace'
  BY <1>11, ReaderFrame
<1>12. CASE UNCHANGED vars
  BY <1>12 DEF vars, files, scanVars, readerVars, history
<1> QED
  BY <1>1, <1>2, <1>3, <1>4, <1>5, <1>6, <1>7, <1>8, <1>9, <1>10, <1>11, <1>12 DEF Next, ScanStep

LEMMA QuietReader ==
  ASSUME TypeOK, HashesRecorded, QuietReads, NEW r \in Reader, ReaderStep(r)
  PROVE  QuietReads'
<1>1. UNCHANGED <<evidence, sidecar, bundle, pc>>
  BY ReaderFrame
<1>2. ASSUME NEW q \in Reader, q # r PROVE QuietRead(q)'
  <2>1. /\ rpc'[q] = rpc[q] /\ kind'[q] = kind[q] /\ got'[q] = got[q] /\ want'[q] = want[q]
        /\ data'[q] = data[q] /\ verdict'[q] = verdict[q] /\ quiet'[q] = quiet[q]
    BY <1>2, ReaderFrame
  <2>2. QuietRead(q)
    BY DEF QuietReads
  <2> QED
    BY <1>1, <2>1, <2>2 DEF QuietRead
<1>3. QuietRead(r)'
  <2>1. QuietRead(r) /\ (verdict[r] # "none" => rpc[r] = "end")
    BY DEF QuietReads, HashesRecorded, ReadHash
  <2>2. CASE Begin(r)
    BY <1>1, <2>1, <2>2, BeginMoves DEF QuietRead, Stays, CheckedMove
  <2>3. CASE StatSidecar(r)
    BY <1>1, <2>1, <2>3, StatMoves DEF QuietRead, Stays, CheckedMove
  <2>4. CASE HashEvidence(r)
    BY <1>1, <2>1, <2>4, HashMoves DEF QuietRead, Stays, CheckedMove
  <2>5. CASE CompareSidecar(r)
    BY <1>1, <2>1, <2>5, CompareMoves DEF QuietRead, Stays, CheckedMove
  <2>6. CASE StatBundle(r)
    BY <1>1, <2>1, <2>6, BundleMoves DEF QuietRead, Stays, CheckedMove
  <2>7. CASE VerifyBlob(r)
    BY <1>1, <2>1, <2>7, CosignMoves DEF QuietRead, Stays, CheckedMove
  <2>8. CASE LoadPack(r)
    BY <1>1, <2>1, <2>8, LoadMoves DEF QuietRead, Stays, CheckedMove
  <2> QED
    BY <2>2, <2>3, <2>4, <2>5, <2>6, <2>7, <2>8 DEF ReaderStep
<1> QED
  BY <1>2, <1>3 DEF QuietReads

(***************************************************************************)
(* A change of any file ends every quiet read.                             *)
(***************************************************************************)
LEMMA QuietStep ==
  ASSUME TypeOK, HashesRecorded, QuietReads, [Next]_vars
  PROVE  QuietReads'
<1> USE FilesAssumption DEF TypeOK, HashesRecorded, ReadHash, QuietReads, QuietRead
<1>1. ASSUME NEW s \in Scan, CreateTemp(s) PROVE QuietReads'
  BY <1>1 DEF CreateTemp, At, Advance, files, scanVars, readerVars, history
<1>2. ASSUME NEW s \in Scan, WriteTemp(s) PROVE QuietReads'
  BY <1>2 DEF WriteTemp, At, Advance, files, scanVars, readerVars, history
<1>3. ASSUME NEW s \in Scan, Rename(s) PROVE QuietReads'
  BY <1>3 DEF Rename, At, Advance, Touch, files, scanVars, readerVars
<1>4. ASSUME NEW s \in Scan, TruncateSidecar(s) PROVE QuietReads'
  BY <1>4 DEF TruncateSidecar, At, Advance, Touch, files, scanVars, readerVars
<1>5. ASSUME NEW s \in Scan, WriteSidecar(s) PROVE QuietReads'
  BY <1>5 DEF WriteSidecar, At, Advance, Touch, files, scanVars, readerVars
<1>6. ASSUME NEW s \in Scan, StartSign(s) PROVE QuietReads'
  BY <1>6 DEF StartSign, At, Advance, files, scanVars, readerVars, history
<1>7. ASSUME NEW s \in Scan, WriteBundle(s) PROVE QuietReads'
  BY <1>7 DEF WriteBundle, At, Touch, files, scanVars, readerVars
<1>8. ASSUME NEW s \in Scan, Fail(s) PROVE QuietReads'
  BY <1>8 DEF Fail, files, scanVars, readerVars, history
<1>9. ASSUME NEW s \in Scan, Crash(s) PROVE QuietReads'
  BY <1>9 DEF Crash, files, scanVars, readerVars, history
<1>10. CASE Edit
  BY <1>10 DEF Edit, scanVars, readerVars
<1>11. ASSUME NEW r \in Reader, ReaderStep(r) PROVE QuietReads'
  BY <1>11, QuietReader
<1>12. CASE UNCHANGED vars
  BY <1>12 DEF vars, files, scanVars, readerVars, history
<1> QED
  BY <1>1, <1>2, <1>3, <1>4, <1>5, <1>6, <1>7, <1>8, <1>9, <1>10, <1>11, <1>12 DEF Next, ScanStep
-----------------------------------------------------------------------------
LEMMA InitIInv == Init => IInv
BY FilesAssumption DEF Init, IInv, TypeOK, TempFollowsPlace, Whole, EvidenceWhole,
  HashesRecorded, ReadHash, Recorded, SoleInPlace, QuietReads, QuietRead,
  Bytes, Place, Kind, ReaderPlace, Verdict

LEMMA NextIInv == IInv /\ [Next]_vars => IInv'
<1> SUFFICES ASSUME IInv, [Next]_vars PROVE IInv'
  OBVIOUS
<1>1. TypeOK'
  BY TypeStep DEF IInv
<1>2. TempFollowsPlace'
  BY TempStep DEF IInv
<1>3. Whole'
  BY WholeStep DEF IInv
<1>4. HashesRecorded'
  BY HashesStep DEF IInv
<1>5. SoleInPlace'
  BY SoleStep DEF IInv
<1>6. QuietReads'
  BY QuietStep DEF IInv
<1> QED
  BY <1>1, <1>2, <1>3, <1>4, <1>5, <1>6 DEF IInv

(***************************************************************************)
(* The invariant the rest follow from.                                     *)
(***************************************************************************)
THEOREM FilesInvariant == Spec => []IInv
<1>1. Init => IInv
  BY InitIInv
<1>2. IInv /\ [Next]_vars => IInv'
  BY NextIInv
<1> QED
  BY <1>1, <1>2, PTL DEF Spec

(***************************************************************************)
(* The variables stay in their types: no sidecar ever holds a hash that is *)
(* not a scan's, for any number of scans and readers.                      *)
(***************************************************************************)
THEOREM FilesTyped == Spec => []TypeOK
<1>1. IInv => TypeOK
  BY FilesAssumption DEF IInv
<1> QED
  BY <1>1, FilesInvariant, PTL

(***************************************************************************)
(* evidence.json is never half-written (writeEvidencePack's temp file and  *)
(* rename), whatever overlaps, fails or is killed.                         *)
(***************************************************************************)
THEOREM EvidenceNeverTorn == Spec => []EvidenceWhole
<1>1. IInv => EvidenceWhole
  BY FilesAssumption DEF IInv, Whole
<1> QED
  BY <1>1, FilesInvariant, PTL

(***************************************************************************)
(* Every ending but a kill removes the temp file (the deferred os.Remove   *)
(* of writeEvidencePack).                                                  *)
(***************************************************************************)
THEOREM TempsOfLivingScansOnly == Spec => []OnlyCrashesLeaveTemps
<1>1. IInv => OnlyCrashesLeaveTemps
  BY FilesAssumption DEF IInv, TempFollowsPlace, OnlyCrashesLeaveTemps
<1> QED
  BY <1>1, FilesInvariant, PTL

(***************************************************************************)
(* attestward verify answers OK only of bytes a scan produced and whose    *)
(* hash that scan itself recorded (VerifyFile).                            *)
(***************************************************************************)
THEOREM OkMeansGenuine == Spec => []VerifiedIsGenuine
<1>1. IInv => VerifiedIsGenuine
  BY FilesAssumption DEF IInv, HashesRecorded, ReadHash, Recorded, VerifiedIsGenuine
<1> QED
  BY <1>1, FilesInvariant, PTL

(***************************************************************************)
(* A scan that runs undisturbed to a good end leaves evidence, hash and,   *)
(* with --sign, signature of its own, whatever it found; only without      *)
(* --sign and over another scan's bundle may verify then say TAMPERED; the *)
(* temp files of killed scans stay (runScanCmd, writeEvidencePack).        *)
(***************************************************************************)
THEOREM UndisturbedScanEnds == Spec => []UndisturbedScanReplaces
<1>1. IInv => UndisturbedScanReplaces
  <2> SUFFICES ASSUME IInv, NEW s \in Scan, sole = s, exit[s] = "ok"
               PROVE  /\ evidence = s
                      /\ sidecar = s
                      /\ bundle = IF s \in signs THEN s ELSE found.bundle
                      /\ \A t \in found.strays : temp[t] # "none"
                      /\ \A r \in Reader : quiet[r] /\ verdict[r] = "tampered" =>
                           s \notin signs /\ found.bundle # None
    BY DEF UndisturbedScanReplaces
  <2>1. evidence = s /\ sidecar = s
    BY DEF IInv, SoleInPlace
  <2>2. bundle = IF s \in signs THEN s ELSE found.bundle
    BY DEF IInv, SoleInPlace
  <2>3. \A t \in found.strays : temp[t] # "none"
    BY DEF IInv, SoleInPlace
  <2>4. ASSUME NEW r \in Reader, quiet[r], verdict[r] = "tampered"
        PROVE  s \notin signs /\ found.bundle # None
    <3>1. bundle \notin {None, s}
      BY <2>1, <2>4 DEF IInv, QuietReads, QuietRead
    <3> QED
      BY <2>2, <3>1
  <2> QED
    BY <2>1, <2>2, <2>3, <2>4
<1> QED
  BY <1>1, FilesInvariant, PTL

(***************************************************************************)
(* In a directory nobody writes to, report and diff use the bytes the      *)
(* sidecar vouches for and verify's OK is exact.                           *)
(***************************************************************************)
THEOREM QuietReadersAreExact == Spec => []QuietReadersAgree
<1>1. IInv => QuietReadersAgree
  BY FilesAssumption DEF IInv, QuietReads, QuietRead, QuietReadersAgree
<1> QED
  BY <1>1, FilesInvariant, PTL
=============================================================================
