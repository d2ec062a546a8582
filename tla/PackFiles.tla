----------------------------- MODULE PackFiles ------------------------------
(***************************************************************************)
(* The three files of an evidence pack in one output directory, written by *)
(* `attestward scan` (runScanCmd, writeEvidencePack, WriteSidecar,         *)
(* SignBlob) and read by verify, report and diff.  No lock is taken: scans *)
(* may overlap, any of them may fail or be killed between two steps, the   *)
(* evidence may be edited by hand, and every reader opens the same file    *)
(* more than once.                                                         *)
(*                                                                         *)
(* A scan stands for the bytes of the pack it produces, so a hash and the  *)
(* bytes it was computed from are the same value.                          *)
(***************************************************************************)
CONSTANTS
  Scan,      \* scans into the directory, each with a pack of its own
  Reader,    \* runs of verify, report and diff
  Faults,    \* what may go wrong: a subset of {"crash", "error", "edit"}
  None,      \* no such file
  Torn,      \* evidence.json with part of a pack
  Edited,    \* evidence.json after a hand edit: bytes no scan produced
  Empty      \* a sidecar that is there but holds no hash

ASSUME FilesAssumption ==
  /\ None \notin Scan /\ Torn \notin Scan /\ Edited \notin Scan /\ Empty \notin Scan
  /\ None # Torn /\ None # Edited /\ None # Empty
  /\ Torn # Edited /\ Torn # Empty /\ Edited # Empty

VARIABLES
  evidence,  \* evidence.json
  sidecar,   \* evidence.json.sha256
  bundle,    \* evidence.json.bundle: the bytes it is a signature of
  temp,      \* the temp file of each scan
  pc,        \* how far each scan has come
  exit,      \* and whether it still runs
  signing,   \* the bytes cosign sign-blob has read, per scan
  signs,     \* the scans run with --sign
  rpc,       \* where each reader is
  kind,      \* which command it is
  got,       \* the bytes VerifyFile hashed
  want,      \* the hash it read from the sidecar
  data,      \* the bytes report renders, diff compares
  verdict,   \* how the reader ended
  sole,      \* history: the scan that alone has written since it began
  found,     \* history: what was left in the directory when that scan began
  quiet      \* history: no file has changed since this reader began

files == <<evidence, sidecar, bundle>>
scanVars == <<temp, pc, exit, signing, signs>>
readerVars == <<rpc, kind, got, want, data, verdict>>
history == <<sole, found, quiet>>
vars == <<files, scanVars, readerVars, history>>

Bytes == Scan \cup {Torn, Edited}
Place == {"collected", "created", "closed", "renamed", "truncated", "hashed", "signing"}
Kind == {"verify", "report", "report --force", "diff"}
ReaderPlace == {"start", "stat", "hash", "compare", "bundle", "cosign", "load", "end"}
Verdict == {"none", "error", "ok", "tampered", "rendered", "banner", "refused", "diffed"}

Init ==
  /\ evidence = None /\ sidecar = None /\ bundle = None
  /\ temp = [s \in Scan |-> "none"]
  /\ pc = [s \in Scan |-> "collected"]
  /\ exit = [s \in Scan |-> "running"]
  /\ signing = [s \in Scan |-> None]
  /\ signs \in SUBSET Scan
  /\ rpc = [r \in Reader |-> "start"]
  /\ kind = [r \in Reader |-> "verify"]
  /\ got = [r \in Reader |-> None]
  /\ want = [r \in Reader |-> None]
  /\ data = [r \in Reader |-> None]
  /\ verdict = [r \in Reader |-> "none"]
  /\ sole = None
  /\ found = [bundle |-> None, strays |-> {}]
  /\ quiet = [r \in Reader |-> FALSE]
-----------------------------------------------------------------------------
(* A scan that has its pack in memory. *)

At(s, place) == exit[s] = "running" /\ pc[s] = place
Advance(s, place) == pc' = [pc EXCEPT ![s] = place]

(***************************************************************************)
(* History: scan s has changed one of the files.                           *)
(***************************************************************************)
Touch(s) ==
  /\ sole' = IF sole = s THEN s ELSE None
  /\ quiet' = [r \in Reader |-> FALSE]
  /\ UNCHANGED found

(***************************************************************************)
(* The temp files of killed scans: nothing ever removes them.              *)
(***************************************************************************)
Strays == {s \in Scan : exit[s] = "crashed" /\ temp[s] # "none"}

(***************************************************************************)
(* os.CreateTemp in the output directory.                                  *)
(***************************************************************************)
CreateTemp(s) ==
  /\ At(s, "collected")
  /\ temp' = [temp EXCEPT ![s] = "partial"]
  /\ Advance(s, "created")
  /\ sole' = s
  /\ found' = [bundle |-> bundle, strays |-> Strays]
  /\ UNCHANGED <<files, exit, signing, signs, readerVars, quiet>>

\* A mutant of WriteTemp: an error of tmp.Write or tmp.Close is ignored.
WriteTempIgnoresError(s) ==
  /\ At(s, "created")
  /\ \E t \in {"partial", "full"} : temp' = [temp EXCEPT ![s] = t]
  /\ Advance(s, "closed")
  /\ UNCHANGED <<files, exit, signing, signs, readerVars, history>>

(***************************************************************************)
(* tmp.Chmod, tmp.Write, tmp.Close: all three succeed, or Fail.            *)
(***************************************************************************)
WriteTemp(s) ==
  /\ At(s, "created")
  /\ temp' = [temp EXCEPT ![s] = "full"]
  /\ Advance(s, "closed")
  /\ UNCHANGED <<files, exit, signing, signs, readerVars, history>>

(***************************************************************************)
(* os.Rename onto evidence.json; the deferred Remove finds nothing.        *)
(***************************************************************************)
Rename(s) ==
  /\ At(s, "closed")
  /\ evidence' = IF temp[s] = "full" THEN s ELSE Torn
  /\ temp' = [temp EXCEPT ![s] = "none"]
  /\ Advance(s, "renamed")
  /\ Touch(s)
  /\ UNCHANGED <<sidecar, bundle, exit, signing, signs, readerVars>>

(***************************************************************************)
(* os.WriteFile of the sidecar, not atomic: open with O_TRUNC, then write. *)
(* The hash is the one computed in memory.  All sidecars are equally long, *)
(* so of two overlapping writes the later one is what remains.             *)
(***************************************************************************)
TruncateSidecar(s) ==
  /\ At(s, "renamed")
  /\ sidecar' = Empty
  /\ Advance(s, "truncated")
  /\ Touch(s)
  /\ UNCHANGED <<evidence, bundle, temp, exit, signing, signs, readerVars>>

\* A mutant of WriteSidecar: the hash is taken from the file read back.
WriteSidecarRereads(s) ==
  /\ At(s, "truncated")
  /\ sidecar' = evidence
  /\ Advance(s, "hashed")
  /\ Touch(s)
  /\ exit' = IF s \in signs THEN exit ELSE [exit EXCEPT ![s] = "ok"]
  /\ UNCHANGED <<evidence, bundle, temp, signing, signs, readerVars>>

WriteSidecar(s) ==
  /\ At(s, "truncated")
  /\ sidecar' = s
  /\ Advance(s, "hashed")
  /\ Touch(s)
  /\ exit' = IF s \in signs THEN exit ELSE [exit EXCEPT ![s] = "ok"]
  /\ UNCHANGED <<evidence, bundle, temp, signing, signs, readerVars>>

\* A mutant of StartSign: a bundle that is already there is taken for signed.
StartSignUnlessPresent(s) ==
  /\ At(s, "hashed")
  /\ Advance(s, "signing")
  /\ IF bundle = None
     THEN signing' = [signing EXCEPT ![s] = evidence] /\ UNCHANGED exit
     ELSE exit' = [exit EXCEPT ![s] = "ok"] /\ UNCHANGED signing
  /\ UNCHANGED <<files, temp, signs, readerVars, history>>

(***************************************************************************)
(* cosign sign-blob is given the path, not the bytes: it reads whatever is *)
(* there by then, and writes the bundle when it has the signature.         *)
(***************************************************************************)
StartSign(s) ==
  /\ At(s, "hashed")
  /\ signing' = [signing EXCEPT ![s] = evidence]
  /\ Advance(s, "signing")
  /\ UNCHANGED <<files, temp, exit, signs, readerVars, history>>

WriteBundle(s) ==
  /\ At(s, "signing")
  /\ bundle' = signing[s]
  /\ exit' = [exit EXCEPT ![s] = "ok"]
  /\ Touch(s)
  /\ UNCHANGED <<evidence, sidecar, temp, pc, signing, signs, readerVars>>

\* A mutant of Fail: the temp file is not removed.
FailLeavesTemp(s) ==
  /\ "error" \in Faults
  /\ exit[s] = "running"
  /\ exit' = [exit EXCEPT ![s] = "failed"]
  /\ UNCHANGED <<files, temp, pc, signing, signs, readerVars, history>>

(***************************************************************************)
(* The step at hand fails: schema validation or MkdirAll before the temp   *)
(* file, its write, the rename, the open or the write of the sidecar       *)
(* (which is then left empty), cosign missing or failing.  The scan exits  *)
(* with 1; what is already in place stays, the temp file is removed.       *)
(***************************************************************************)
Fail(s) ==
  /\ "error" \in Faults
  /\ exit[s] = "running"
  /\ exit' = [exit EXCEPT ![s] = "failed"]
  /\ temp' = [temp EXCEPT ![s] = "none"]
  /\ UNCHANGED <<files, pc, signing, signs, readerVars, history>>

(***************************************************************************)
(* The process is killed: no deferred call runs.  (An interrupt is a kill: *)
(* no signal handler is installed.)                                        *)
(***************************************************************************)
Crash(s) ==
  /\ "crash" \in Faults
  /\ exit[s] = "running"
  /\ exit' = [exit EXCEPT ![s] = "crashed"]
  /\ UNCHANGED <<files, temp, pc, signing, signs, readerVars, history>>

Edit ==
  /\ "edit" \in Faults
  /\ evidence \notin {None, Edited}
  /\ evidence' = Edited
  /\ sole' = None
  /\ quiet' = [r \in Reader |-> FALSE]
  /\ UNCHANGED <<sidecar, bundle, scanVars, readerVars, found>>
-----------------------------------------------------------------------------
(* A reader. *)

GoTo(r, place) == rpc' = [rpc EXCEPT ![r] = place] /\ UNCHANGED verdict
End(r, v) ==
  /\ rpc' = [rpc EXCEPT ![r] = "end"]
  /\ verdict' = [verdict EXCEPT ![r] = v]

(***************************************************************************)
(* report reads the pack before it checks anything; bytes that are not a   *)
(* pack, or not of the schema, end it.                                     *)
(***************************************************************************)
Begin(r) ==
  /\ rpc[r] = "start"
  /\ \E k \in Kind :
       /\ kind' = [kind EXCEPT ![r] = k]
       /\ \/ /\ k = "verify"
             /\ GoTo(r, "hash")
             /\ UNCHANGED data
          \/ /\ k = "diff"
             /\ GoTo(r, "stat")
             /\ UNCHANGED data
          \/ /\ k \in {"report", "report --force"}
             /\ evidence \notin {None, Torn}
             /\ data' = [data EXCEPT ![r] = evidence]
             /\ GoTo(r, "stat")
          \/ /\ k \in {"report", "report --force"}
             /\ evidence \in {None, Torn, Edited}
             /\ End(r, "error")
             /\ UNCHANGED data
  /\ quiet' = [quiet EXCEPT ![r] = TRUE]
  /\ UNCHANGED <<files, scanVars, got, want, sole, found>>

ReaderKeeps == UNCHANGED <<files, scanVars, kind, history>>

(***************************************************************************)
(* What report and diff do with the verdict of the integrity check.        *)
(***************************************************************************)
Checked(r, tampered) ==
  \/ /\ kind[r] = "diff"
     /\ IF tampered THEN End(r, "refused") ELSE GoTo(r, "load")
  \/ /\ kind[r] = "report"
     /\ End(r, IF tampered THEN "refused" ELSE "rendered")
  \/ /\ kind[r] = "report --force"
     /\ End(r, IF tampered THEN "banner" ELSE "rendered")

\* A mutant of StatSidecar: an empty sidecar counts as a missing one.
StatSidecarEmptyIsMissing(r) ==
  /\ rpc[r] = "stat"
  /\ IF sidecar \in {None, Empty} THEN Checked(r, FALSE) ELSE GoTo(r, "hash")
  /\ UNCHANGED <<got, want, data>>
  /\ ReaderKeeps

(***************************************************************************)
(* checkPackIntegrity: no sidecar means nothing to verify.                 *)
(***************************************************************************)
StatSidecar(r) ==
  /\ rpc[r] = "stat"
  /\ IF sidecar = None THEN Checked(r, FALSE) ELSE GoTo(r, "hash")
  /\ UNCHANGED <<got, want, data>>
  /\ ReaderKeeps

(***************************************************************************)
(* VerifyFile: read and hash the evidence, then read the sidecar.          *)
(***************************************************************************)
HashEvidence(r) ==
  /\ rpc[r] = "hash"
  /\ IF evidence = None
     THEN End(r, "error") /\ UNCHANGED got
     ELSE GoTo(r, "compare") /\ got' = [got EXCEPT ![r] = evidence]
  /\ UNCHANGED <<want, data>>
  /\ ReaderKeeps

\* A mutant of CompareSidecar: a malformed sidecar is "unverifiable, assume fine".
CompareSidecarLenient(r) ==
  /\ rpc[r] = "compare"
  /\ want' = [want EXCEPT ![r] = IF sidecar = Empty THEN got[r] ELSE sidecar]
  /\ IF kind[r] = "verify" THEN GoTo(r, "bundle") ELSE Checked(r, got[r] # want'[r])
  /\ UNCHANGED <<got, data>>
  /\ ReaderKeeps

CompareSidecar(r) ==
  /\ rpc[r] = "compare"
  /\ \/ /\ sidecar \in {None, Empty}
        /\ End(r, "error")
        /\ UNCHANGED want
     \/ /\ sidecar \notin {None, Empty}
        /\ want' = [want EXCEPT ![r] = sidecar]
        /\ IF kind[r] = "verify" THEN GoTo(r, "bundle") ELSE Checked(r, got[r] # sidecar)
  /\ UNCHANGED <<got, data>>
  /\ ReaderKeeps

(***************************************************************************)
(* verify, hash mismatch or not: a bundle is looked for, and checked by    *)
(* cosign verify-blob, which opens the evidence once more.  No cosign on   *)
(* the path is an error whatever the hash said.                            *)
(***************************************************************************)
HashVerdict(r) == IF got[r] = want[r] THEN "ok" ELSE "tampered"

StatBundle(r) ==
  /\ rpc[r] = "bundle"
  /\ IF bundle = None THEN End(r, HashVerdict(r)) ELSE GoTo(r, "cosign")
  /\ UNCHANGED <<got, want, data>>
  /\ ReaderKeeps

VerifyBlob(r) ==
  /\ rpc[r] = "cosign"
  /\ \/ End(r, IF bundle = evidence THEN HashVerdict(r) ELSE "tampered")
     \/ End(r, "error")
  /\ UNCHANGED <<got, want, data>>
  /\ ReaderKeeps

(***************************************************************************)
(* diff reads the pack after the check.                                    *)
(***************************************************************************)
LoadPack(r) ==
  /\ rpc[r] = "load"
  /\ \/ /\ evidence \notin {None, Torn}
        /\ data' = [data EXCEPT ![r] = evidence]
        /\ End(r, "diffed")
     \/ /\ evidence \in {None, Torn, Edited}
        /\ End(r, "error")
        /\ UNCHANGED data
  /\ UNCHANGED <<got, want>>
  /\ ReaderKeeps

ScanStep(s) ==
  \/ CreateTemp(s) \/ WriteTemp(s) \/ Rename(s) \/ TruncateSidecar(s)
  \/ WriteSidecar(s) \/ StartSign(s) \/ WriteBundle(s) \/ Fail(s) \/ Crash(s)

ReaderStep(r) ==
  \/ Begin(r) \/ StatSidecar(r) \/ HashEvidence(r) \/ CompareSidecar(r)
  \/ StatBundle(r) \/ VerifyBlob(r) \/ LoadPack(r)

Next ==
  \/ \E s \in Scan : ScanStep(s)
  \/ Edit
  \/ \E r \in Reader : ReaderStep(r)

Spec == Init /\ [][Next]_vars
-----------------------------------------------------------------------------
(* Properties. *)

TypeOK ==
  /\ evidence \in Bytes \cup {None}
  /\ sidecar \in Scan \cup {None, Empty}
  /\ bundle \in Bytes \cup {None}
  /\ temp \in [Scan -> {"none", "partial", "full"}]
  /\ pc \in [Scan -> Place]
  /\ exit \in [Scan -> {"running", "ok", "failed", "crashed"}]
  /\ signing \in [Scan -> Bytes \cup {None}]
  /\ signs \subseteq Scan
  /\ rpc \in [Reader -> ReaderPlace]
  /\ kind \in [Reader -> Kind]
  /\ got \in [Reader -> Bytes \cup {None}]
  /\ want \in [Reader -> Bytes \cup {None}]
  /\ data \in [Reader -> Bytes \cup {None}]
  /\ verdict \in [Reader -> Verdict]
  /\ sole \in Scan \cup {None}
  /\ found \in [bundle : Bytes \cup {None}, strays : SUBSET Scan]
  /\ quiet \in [Reader -> BOOLEAN]

(***************************************************************************)
(* However scans overlap, fail and die, evidence.json is never a part of a *)
(* pack, and nobody ever hashes, signs or renders a part of one ("an       *)
(* interrupted scan never leaves a half-written evidence.json",            *)
(* writeEvidencePack).                                                     *)
(***************************************************************************)
EvidenceWhole ==
  /\ evidence # Torn
  /\ \A s \in Scan : signing[s] # Torn
  /\ \A r \in Reader : got[r] # Torn /\ data[r] # Torn

(***************************************************************************)
(* A temp file outlives its scan only if the process was killed.           *)
(***************************************************************************)
OnlyCrashesLeaveTemps ==
  \A s \in Scan : exit[s] \in {"ok", "failed"} => temp[s] = "none"

(***************************************************************************)
(* verify never says OK of anything but the very bytes a scan produced and *)
(* recorded the hash of: not of a hand edit, not of a mix of two scans,    *)
(* not of a pack whose scan died before its sidecar.                       *)
(***************************************************************************)
VerifiedIsGenuine ==
  \A r \in Reader : verdict[r] = "ok" =>
    /\ got[r] \in Scan
    /\ pc[got[r]] \in {"hashed", "signing"}

(***************************************************************************)
(* A scan that runs undisturbed to its end leaves evidence and sidecar of  *)
(* its own, whatever it found - another pack, a hand edit, an empty        *)
(* sidecar - and, with --sign, the bundle too.  Two things it does not put *)
(* right: without --sign the bundle it found stays (runScanCmd never       *)
(* removes one), and that alone can make verify call its pack tampered;    *)
(* and the temp files of scans killed before it stay (writeEvidencePack    *)
(* removes its own only).                                                  *)
(***************************************************************************)
UndisturbedScanReplaces ==
  \A s \in Scan : sole = s /\ exit[s] = "ok" =>
    /\ evidence = s
    /\ sidecar = s
    /\ bundle = IF s \in signs THEN s ELSE found.bundle
    /\ \A t \in found.strays : temp[t] # "none"
    /\ \A r \in Reader : quiet[r] /\ verdict[r] = "tampered" =>
         s \notin signs /\ found.bundle # None

(***************************************************************************)
(* While no file changes, a reader's several reads add up: what report     *)
(* renders without a banner and what diff compares is what the sidecar     *)
(* vouches for, if there is one; what verify calls OK still is.            *)
(***************************************************************************)
QuietReadersAgree ==
  \A r \in Reader : quiet[r] =>
    /\ verdict[r] \in {"rendered", "diffed"} => sidecar \in {None, data[r]}
    /\ verdict[r] = "ok" => sidecar = evidence /\ bundle \in {None, evidence}

(***************************************************************************)
(* README.md:522-523: "rendering possibly-tampered evidence has to be a    *)
(* conscious, visible act, never silent".  So with a sidecar to check      *)
(* against, a hand-edited pack is not rendered without its banner.         *)
(***************************************************************************)
NeverRenderedSilently ==
  \A r \in Reader : verdict[r] = "rendered" /\ want[r] # None => data[r] # Edited
=============================================================================
