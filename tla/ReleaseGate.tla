----------------------------- MODULE ReleaseGate -----------------------------
(***************************************************************************)
(* scripts/release-trust.py and scripts/security-review-gate.py: a release *)
(* manifest is made, then verified, one command at a time, while people    *)
(* edit the records of the security review and replace the files of the    *)
(* release bundle.                                                         *)
(*                                                                         *)
(* A file is read afresh by every check that needs it, so each read is a   *)
(* step of its own.  An archive is told from another by the commit in its  *)
(* build manifest, and by whether its files are those of its SHA256SUMS;   *)
(* two archives have the same hash only when they are equal.               *)
(***************************************************************************)
EXTENDS Naturals, FiniteSets

CONSTANTS
  Commits,
  Ancestry,     \* pairs <<a, c>>: git takes a for an ancestor of c
  Code,         \* of a commit: its files but those a review lets change
  Mainnet,      \* the commits whose SOURCE_LOCK.json enables mainnet
  Missing,      \* no file
  MaxEdits,     \* bound: edits of the review's records
  MaxPackages   \* bound: archives packaged or copied over another

ASSUME ReleaseAssumption ==
  /\ Ancestry \subseteq Commits \X Commits
  /\ Mainnet \subseteq Commits
  /\ Missing \notin Commits
  /\ MaxEdits \in Nat /\ MaxPackages \in Nat

VARIABLES
  review,     \* SECURITY_REVIEW_STATUS.json
  finding,    \* SECURITY_FINDINGS.json: one finding
  reviewed,   \* history: the commits that reviews covered
  flaw,       \* history: the finding is material, and no retest settled it
  edits,
  archive, sidecar, packages,
  manifest,   \* RELEASE-MANIFEST.json
  maker,      \* the command `manifest`
  verifier    \* the command `verify`; history: the bundle moved under it

reviewVars == <<review, finding, reviewed, flaw, edits>>
bundleVars == <<archive, sidecar, packages>>
makerVars == <<manifest, maker>>
vars == <<reviewVars, bundleVars, makerVars, verifier>>

Channels == {"testnet", "mainnet"}
Statuses == {"open", "remediated_pending_retest", "verified_remediated",
             "risk_accepted"}
Archives == [commit : Commits, whole : BOOLEAN]
NoReview == [state |-> "not_performed", commit |-> Missing, attested |-> FALSE]
Completed(c, attested) ==
  [state |-> "complete", commit |-> c, attested |-> attested]
NoFinding == [state |-> "none", high |-> FALSE, material |-> FALSE,
              evidence |-> FALSE, lapsed |-> FALSE]
NoMaker == [at |-> "idle", channel |-> Missing, commit |-> Missing,
            hash |-> Missing, build |-> Missing,
            review |-> NoReview, settled |-> FALSE]
NoVerifier == [at |-> "idle", manifest |-> Missing, moved |-> FALSE]

(* A review may have been completed before.                                *)
Init ==
  /\ \/ review = NoReview /\ reviewed = {}
     \/ \E c \in Commits : review = Completed(c, TRUE) /\ reviewed = {c}
  /\ finding = NoFinding /\ flaw = FALSE /\ edits = 0
  /\ archive = Missing /\ sidecar = Missing /\ packages = 0
  /\ manifest = Missing /\ maker = NoMaker
  /\ verifier = NoVerifier

-----------------------------------------------------------------------------
(* The records of the review, as people keep them.                         *)

Making == maker.at # "idle"
Verifying == verifier.at \notin {"idle", "passed"}

Edit ==
  /\ edits < MaxEdits
  /\ edits' = edits + 1
  /\ maker' = [maker EXCEPT !.settled = Making /\ (@ \/ ~flaw')]
  /\ UNCHANGED <<bundleVars, manifest, verifier>>

(* A review of commit c is completed; or somebody writes that it is, but   *)
(* not all that validate_status asks for.                                  *)
Complete(c, attested) ==
  /\ review' = Completed(c, attested)
  /\ reviewed' = IF attested THEN reviewed \cup {c} ELSE reviewed
  /\ UNCHANGED <<finding, flaw>>
  /\ Edit

Restart ==
  /\ review' = [NoReview EXCEPT !.state = "in_progress"]
  /\ UNCHANGED <<finding, reviewed, flaw>>
  /\ Edit

Report(high, material) ==
  /\ finding.state = "none"
  /\ finding' = [NoFinding EXCEPT !.state = "open", !.high = high,
                                  !.material = material]
  /\ flaw' = (high \/ material)
  /\ UNCHANGED <<review, reviewed>>
  /\ Edit

(* Any other status may be written; a retest is what settles the flaw, and *)
(* verified_remediated without one lacks the evidence of it.               *)
SetStatus(s, retest) ==
  /\ finding.state # "none"
  /\ retest => s = "verified_remediated"
  /\ finding' = [finding EXCEPT !.state = s, !.evidence = retest,
                                !.lapsed = FALSE]
  /\ flaw' = IF retest THEN FALSE
             ELSE finding.high \/ finding.material
  /\ UNCHANGED <<review, reviewed>>
  /\ Edit

(* The time an acceptance of the risk was given for is over.               *)
Lapse ==
  /\ finding.state = "risk_accepted" /\ ~finding.lapsed
  /\ finding' = [finding EXCEPT !.lapsed = TRUE]
  /\ UNCHANGED <<review, reviewed, flaw, edits, bundleVars, makerVars, verifier>>

-----------------------------------------------------------------------------
(* The release bundle.                                                     *)

Replace ==
  /\ verifier' = IF Verifying THEN [verifier EXCEPT !.moved = TRUE] ELSE NoVerifier
  /\ UNCHANGED <<reviewVars, makerVars>>

(* package-linux.sh removes both files, writes the archive, then its hash. *)
Clean ==
  /\ archive # Missing
  /\ archive' = Missing /\ sidecar' = Missing
  /\ UNCHANGED packages
  /\ Replace

(* An archive is packaged, or some archive is copied over this one.        *)
Put(a) ==
  /\ packages < MaxPackages
  /\ packages' = packages + 1
  /\ archive' = a
  /\ UNCHANGED sidecar
  /\ Replace

Checksum ==
  /\ archive # Missing
  /\ sidecar' = archive
  /\ UNCHANGED <<archive, packages>>
  /\ Replace

-----------------------------------------------------------------------------
(* security-review-gate.py launch.                                         *)

ValidStatus(r) == r.state = "complete" => r.attested

ValidFinding(f) ==
  /\ f.high => f.material
  /\ f.state = "verified_remediated" => f.evidence
  /\ f.state = "risk_accepted" => ~f.high /\ ~f.material

(* Mutant: what changed since the review does not matter.                  *)
CoversAncestors(r, c) ==
  /\ r.state = "complete"
  /\ <<r.commit, c>> \in Ancestry

Covers(r, c) ==
  /\ r.state = "complete"
  /\ <<r.commit, c>> \in Ancestry
  /\ Code[r.commit] = Code[c]

Blocks(f) ==
  \/ (f.material \/ f.high)
     /\ f.state \notin {"none", "verified_remediated"}
  \/ f.state = "risk_accepted" /\ f.lapsed

(* release-trust.py manifest.  A check that fails ends the command.        *)
MakerStep(here, ok, next) ==
  /\ maker.at = here
  /\ maker' = IF ok THEN next ELSE NoMaker
  /\ UNCHANGED <<reviewVars, bundleVars, verifier>>

Make(channel, c) ==
  /\ ~Making /\ ~Verifying
  /\ archive # Missing
  /\ maker' = [NoMaker EXCEPT !.at = "hash", !.channel = channel, !.commit = c,
                              !.settled = ~flaw]
  /\ verifier' = NoVerifier
  /\ UNCHANGED <<reviewVars, bundleVars, manifest>>

(* verify_sidecar.                                                         *)
SidecarHolds == sidecar # Missing /\ archive # Missing /\ sidecar = archive

MakeHash ==
  /\ MakerStep("hash", SidecarHolds,
       [maker EXCEPT !.at = "inspect", !.hash = archive])
  /\ UNCHANGED manifest

(* inspect_archive opens the archive again.                                *)
Inspectable(a) == a # Missing /\ a.whole

MakeInspect ==
  /\ MakerStep("inspect",
       /\ Inspectable(archive)
       /\ archive.commit = maker.commit
       /\ maker.channel = "testnet" => archive.commit \notin Mainnet,
       [maker EXCEPT !.at = IF maker.channel = "mainnet" THEN "status" ELSE "write",
                     !.build = archive.commit])
  /\ UNCHANGED manifest

(* The gate reads the review's records one after the other, and asks git.  *)
GateStatus ==
  /\ MakerStep("status", TRUE,
       [maker EXCEPT !.at = "findings", !.review = review])
  /\ UNCHANGED manifest

GateFindings ==
  /\ MakerStep("findings",
       /\ ValidStatus(maker.review) /\ ValidFinding(finding)
       /\ Covers(maker.review, maker.commit) /\ ~Blocks(finding),
       [maker EXCEPT !.at = "write"])
  /\ UNCHANGED manifest

(* The sidecar is read once more for the manifest.                         *)
MakeWrite ==
  /\ MakerStep("write", TRUE, NoMaker)
  /\ manifest' =
       IF archive = Missing \/ sidecar = Missing THEN manifest
       ELSE [channel |-> maker.channel, commit |-> maker.commit,
             archive |-> maker.hash, sidecar |-> sidecar, build |-> maker.build,
             settled |-> maker.settled]

-----------------------------------------------------------------------------
(* release-trust.py verify.                                                *)

VerifierStep(here, ok, next) ==
  /\ verifier.at = here
  /\ verifier' = IF ok THEN next ELSE NoVerifier
  /\ UNCHANGED <<reviewVars, bundleVars, makerVars>>

Verify ==
  /\ ~Making /\ ~Verifying
  /\ manifest # Missing /\ archive # Missing /\ sidecar # Missing
  /\ verifier' = [at |-> "hash", manifest |-> manifest, moved |-> FALSE]
  /\ UNCHANGED <<reviewVars, bundleVars, makerVars>>

VerifyHash ==
  VerifierStep("hash", SidecarHolds /\ archive = verifier.manifest.archive,
    [verifier EXCEPT !.at = "sidecar"])

VerifySidecar ==
  VerifierStep("sidecar", sidecar = verifier.manifest.sidecar,
    [verifier EXCEPT !.at = "inspect"])

(* Mutant: the archive is inspected but not compared with the manifest.    *)
SamePackageWhole(m) == Inspectable(archive)

SamePackage(m) == Inspectable(archive) /\ archive.commit = m.build

VerifyInspect ==
  VerifierStep("inspect", SamePackage(verifier.manifest),
    [verifier EXCEPT !.at = "passed"])

-----------------------------------------------------------------------------
Records ==
  \/ Restart \/ Lapse
  \/ \E c \in Commits, attested \in BOOLEAN : Complete(c, attested)
  \/ \E high, material \in BOOLEAN : Report(high, material)
  \/ \E s \in Statuses, retest \in BOOLEAN : SetStatus(s, retest)

Bundle == Clean \/ Checksum \/ \E a \in Archives : Put(a)

Maker ==
  \/ \E channel \in Channels, c \in Commits : Make(channel, c)
  \/ MakeHash \/ MakeInspect
  \/ GateStatus \/ GateFindings
  \/ MakeWrite

Verifier == Verify \/ VerifyHash \/ VerifySidecar \/ VerifyInspect

Next == Records \/ Bundle \/ Maker \/ Verifier

Spec == Init /\ [][Next]_vars

-----------------------------------------------------------------------------
(* Properties.                                                             *)

Passed == verifier.at = "passed" /\ ~verifier.moved

(* A verification that succeeds on a bundle that nobody touched meanwhile  *)
(* has compared all of it: what the manifest says of the commit and of the *)
(* network is true of the archive in the bundle, whose files are those of  *)
(* its checksums; although the archive may have been another one, and this *)
(* one again, while the manifest was made.                                 *)
VerifiedWhole ==
  Passed =>
    LET m == verifier.manifest  a == archive IN
    /\ sidecar = a
    /\ a.whole
    /\ a.commit = m.commit
    /\ m.channel = "testnet" => a.commit \notin Mainnet

(* docs/CRAK-030.md: what verifies as a mainnet release has the code of a  *)
(* commit that a review covered and that it descends from, and no material *)
(* finding stayed open all the while its manifest was made, whatever was   *)
(* written to the records or put into the bundle meanwhile.                *)
ReleasedWasReviewed ==
  Passed /\ verifier.manifest.channel = "mainnet" =>
    LET c == archive.commit IN
    /\ \E r \in reviewed : <<r, c>> \in Ancestry /\ Code[r] = Code[c]
    /\ verifier.manifest.settled
=============================================================================
