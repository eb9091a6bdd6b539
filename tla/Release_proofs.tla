---------------------------- MODULE Release_proofs ----------------------------
(***************************************************************************)
(* What a release rests on: proofs about ReleaseGate, for any history of   *)
(* commits and any number of edits, packages and commands, and about Soak, *)
(* for any nodes, collections and events.                                  *)
(***************************************************************************)
EXTENDS ReleaseGate, Soak, FiniteSetTheorems, TLAPS

Reviews == [state : {"not_performed", "in_progress", "complete"},
            commit : Commits \cup {Missing}, attested : BOOLEAN]
Findings == [state : Statuses \cup {"none"}, high : BOOLEAN, material : BOOLEAN,
             evidence : BOOLEAN, lapsed : BOOLEAN]
Makers == [at : {"idle", "hash", "inspect", "status", "findings", "write"},
           channel : Channels \cup {Missing}, commit : Commits \cup {Missing},
           hash : Archives \cup {Missing}, build : Commits \cup {Missing},
           review : Reviews, settled : BOOLEAN]
Manifests == [channel : Channels \cup {Missing}, commit : Commits \cup {Missing},
              archive : Archives \cup {Missing}, sidecar : Archives \cup {Missing},
              build : Commits \cup {Missing}, settled : BOOLEAN]
Verifiers == [at : {"idle", "hash", "sidecar", "inspect", "passed"},
              manifest : Manifests \cup {Missing}, moved : BOOLEAN]

TypeOK ==
  /\ review \in Reviews /\ finding \in Findings
  /\ flaw \in BOOLEAN
  /\ archive \in Archives \cup {Missing} /\ sidecar \in Archives \cup {Missing}
  /\ manifest \in Manifests \cup {Missing}
  /\ maker \in Makers /\ verifier \in Verifiers

(* What an attested review says was reviewed, and no retest settled a flaw *)
(* that is there.                                                          *)
Honest(r) == r.state = "complete" /\ r.attested => r.commit \in reviewed
ReviewsHonest == Honest(review) /\ Honest(maker.review)
FlawShows ==
  flaw => /\ finding.high \/ finding.material
          /\ finding.state # "none"
          /\ finding.state = "verified_remediated" => ~finding.evidence

Cleared(c) == \E r \in reviewed : <<r, c>> \in Ancestry /\ Code[r] = Code[c]

MakerSound ==
  /\ maker.at # "idle" /\ ~flaw => maker.settled
  /\ maker.at \in {"status", "findings", "write"} =>
       /\ maker.build = maker.commit
       /\ maker.channel = "testnet" => maker.commit \notin Mainnet
  /\ maker.at = "write" /\ maker.channel = "mainnet" =>
       Cleared(maker.commit) /\ maker.settled

Good(m) ==
  /\ m.build = m.commit
  /\ m.channel = "testnet" => m.commit \notin Mainnet
  /\ m.channel = "mainnet" => Cleared(m.commit) /\ m.settled

VerifierSound ==
  /\ verifier.at # "idle" => Good(verifier.manifest)
  /\ verifier.at \in {"sidecar", "inspect", "passed"} /\ ~verifier.moved =>
       archive = sidecar
  /\ verifier.at = "passed" /\ ~verifier.moved =>
       archive.whole /\ archive.commit = verifier.manifest.build

Sound ==
  /\ TypeOK /\ ReviewsHonest /\ FlawShows /\ MakerSound
  /\ manifest # Missing => Good(manifest)
  /\ VerifierSound

LEMMA InitSound == ASSUME Init PROVE Sound
<1>1. TypeOK
  <2>1. review \in Reviews
    <3>1. NoReview \in Reviews /\ \A c \in Commits : Completed(c, TRUE) \in Reviews
      BY DEF Reviews, NoReview, Completed
    <3> QED BY <3>1 DEF Init
  <2>2. finding \in Findings /\ flaw \in BOOLEAN
    BY DEF Init, Findings, NoFinding
  <2>3. maker \in Makers
    <3>1. NoReview \in Reviews
      BY DEF Reviews, NoReview
    <3> QED BY <3>1 DEF Init, Makers, NoMaker
  <2>4. verifier \in Verifiers
    BY DEF Init, Verifiers, NoVerifier
  <2> QED BY <2>1, <2>2, <2>3, <2>4 DEF Init, TypeOK
<1>2. ReviewsHonest /\ FlawShows /\ MakerSound /\ VerifierSound
  BY
  DEF Init, ReviewsHonest, Honest, FlawShows, MakerSound, VerifierSound,
      NoReview,
         Completed, NoFinding, NoMaker, NoVerifier
<1>3. manifest = Missing
  BY DEF Init
<1> QED BY <1>1, <1>2, <1>3 DEF Sound

(* What was reviewed stays reviewed.                                       *)
LEMMA GoodStays ==
  ASSUME reviewed \subseteq reviewed'
  PROVE  /\ \A c : Cleared(c) => Cleared(c)'
         /\ \A m : Good(m) => Good(m)'
BY DEF Cleared, Good

(* An edit of the records keeps what the commands hold.                    *)
LEMMA EditStep ==
  ASSUME Sound, Edit, review' \in Reviews, finding' \in Findings, flaw' \in BOOLEAN,
         reviewed \subseteq reviewed', Honest(review)', FlawShows'
  PROVE  Sound'
<1>1. maker' = [maker EXCEPT !.settled = Making /\ (@ \/ ~flaw')]
  BY DEF Edit
<1>2. maker' \in Makers
  BY <1>1 DEF Sound, TypeOK, Makers, Making
<1>3. UNCHANGED <<archive, sidecar, manifest, verifier>>
  BY DEF Edit, bundleVars
<1>4. TypeOK'
  BY <1>2, <1>3 DEF Sound, TypeOK
<1>5. /\ maker'.at = maker.at /\ maker'.channel = maker.channel
      /\ maker'.commit = maker.commit /\ maker'.build = maker.build
      /\ maker'.review = maker.review
      /\ maker'.settled = (Making /\ (maker.settled \/ ~flaw'))
  BY <1>1 DEF Sound, TypeOK, Makers
<1>6. ReviewsHonest'
  BY <1>5 DEF Sound, ReviewsHonest, Honest
<1>7. MakerSound'
  BY <1>5, GoodStays DEF Sound, MakerSound, Making
<1>8. VerifierSound' /\ (manifest' # Missing => Good(manifest)')
  BY <1>3, GoodStays DEF Sound, VerifierSound
<1> QED BY <1>4, <1>6, <1>7, <1>8 DEF Sound

LEMMA RecordsStep == ASSUME Sound, Records PROVE Sound'
<1>1. CASE Restart
  <2>1. review' \in Reviews /\ Honest(review)'
    BY <1>1 DEF Restart, Reviews, NoReview, Honest
  <2> QED BY <1>1, <2>1, EditStep DEF Restart, Sound, TypeOK, FlawShows
<1>2. ASSUME NEW c \in Commits, NEW attested \in BOOLEAN, Complete(c, attested)
      PROVE  Sound'
  <2>1. review' \in Reviews /\ Honest(review)' /\ reviewed \subseteq reviewed'
    BY <1>2 DEF Complete, Completed, Reviews, Honest
  <2> QED BY <1>2, <2>1, EditStep DEF Complete, Sound, TypeOK, FlawShows
<1>3. ASSUME NEW high \in BOOLEAN, NEW material \in BOOLEAN, Report(high, material)
      PROVE  Sound'
  <2>1. finding' \in Findings /\ FlawShows' /\ flaw' \in BOOLEAN
    BY <1>3 DEF Report, NoFinding, Findings, FlawShows, Statuses
  <2>2. UNCHANGED <<review, reviewed>>
    BY <1>3 DEF Report
  <2> QED BY <1>3, <2>1, <2>2, EditStep DEF Report, Sound, TypeOK, ReviewsHonest, Honest
<1>4. ASSUME NEW s \in Statuses, NEW retest \in BOOLEAN, SetStatus(s, retest)
      PROVE  Sound'
  <2>1. finding \in Findings
    BY DEF Sound, TypeOK
  <2>2. finding' \in Findings /\ FlawShows' /\ flaw' \in BOOLEAN
    BY <1>4, <2>1 DEF SetStatus, Findings, FlawShows, Statuses
  <2>3. UNCHANGED <<review, reviewed>>
    BY <1>4 DEF SetStatus
  <2> QED BY <1>4, <2>2, <2>3, EditStep DEF SetStatus, Sound, TypeOK, ReviewsHonest, Honest
<1>5. CASE Lapse
  <2>1. finding \in Findings
    BY DEF Sound, TypeOK
  <2>2. finding' \in Findings /\ FlawShows'
    BY <1>5, <2>1 DEF Lapse, Findings, FlawShows, Sound
  <2>3. UNCHANGED <<review, reviewed, flaw, archive, sidecar, manifest, maker, verifier>>
    BY <1>5 DEF Lapse, bundleVars, makerVars
  <2>4. TypeOK' /\ ReviewsHonest' /\ MakerSound' /\ VerifierSound'
    BY <2>2, <2>3
    DEF Sound, TypeOK, ReviewsHonest, Honest, MakerSound, VerifierSound,
                      Cleared, Good
  <2> QED BY <2>2, <2>3, <2>4 DEF Sound, Good, Cleared
<1> QED BY <1>1, <1>2, <1>3, <1>4, <1>5 DEF Records

(* A bundle that changes under a verification is marked as moved.          *)
LEMMA BundleStep == ASSUME Sound, Bundle PROVE Sound'
<1>1. /\ archive' \in Archives \cup {Missing} /\ sidecar' \in Archives \cup {Missing}
      /\ Replace
  BY DEF Bundle, Clean, Checksum, Put, Sound, TypeOK
<1>2. UNCHANGED <<review, finding, reviewed, flaw, manifest, maker>>
  BY <1>1 DEF Replace, reviewVars, makerVars
<1>3. \/ verifier' = NoVerifier
      \/ verifier' = [verifier EXCEPT !.moved = TRUE] /\ verifier.at # "idle"
  BY <1>1 DEF Replace, Verifying
<1>4. verifier \in Verifiers
  BY DEF Sound, TypeOK
<1>5. verifier' \in Verifiers /\ VerifierSound'
  <2>1. CASE verifier' = NoVerifier
    BY <2>1 DEF VerifierSound, Verifiers, NoVerifier
  <2>2. CASE verifier' = [verifier EXCEPT !.moved = TRUE] /\ verifier.at # "idle"
    <3>1. /\ verifier' \in Verifiers /\ verifier'.moved
          /\ verifier'.manifest = verifier.manifest
      BY <1>4, <2>2 DEF Verifiers
    <3>2. Good(verifier.manifest)'
      BY <1>2, <2>2, <3>1, GoodStays DEF Sound, VerifierSound
    <3> QED BY <3>1, <3>2 DEF VerifierSound
  <2> QED BY <1>3, <2>1, <2>2
<1>6. TypeOK'
  BY <1>1, <1>2, <1>5 DEF Sound, TypeOK
<1> QED BY <1>2, <1>5, <1>6 DEF Sound, ReviewsHonest, Honest, FlawShows, MakerSound,
                                Good, Cleared

LEMMA MakerStepSound == ASSUME Sound, Maker PROVE Sound'
<1> USE DEF reviewVars, bundleVars, makerVars
<1>1. UNCHANGED <<review, finding, reviewed, flaw, archive, sidecar>>
  BY
  DEF Maker, Make, MakeHash, MakeInspect, GateStatus, GateFindings, MakeWrite,
         MakerStep
<1>2. SUFFICES /\ maker' \in Makers /\ Honest(maker.review)' /\ MakerSound'
               /\ manifest' \in Manifests \cup {Missing}
               /\ manifest' # Missing => Good(manifest)'
               /\ verifier' \in {verifier, NoVerifier}
  <2>1. NoVerifier \in Verifiers /\ NoVerifier.at = "idle"
    BY DEF NoVerifier, Verifiers
  <2>2. TypeOK'
    BY <1>1, <1>2, <2>1 DEF Sound, TypeOK
  <2>3. VerifierSound'
    BY <1>1, <1>2, <2>1 DEF Sound, VerifierSound, Good, Cleared
  <2> QED BY <1>1, <1>2, <2>2, <2>3 DEF Sound, ReviewsHonest, Honest, FlawShows
<1>3. /\ NoMaker \in Makers /\ NoMaker.at = "idle" /\ NoMaker.review.state # "complete"
  BY DEF NoMaker, NoReview, Makers, Reviews
<1>4. maker \in Makers /\ review \in Reviews /\ archive \in Archives \cup {Missing}
  BY DEF Sound, TypeOK
<1>5. CASE maker' = NoMaker /\ UNCHANGED <<manifest, verifier>>
  <2>1. MakerSound' /\ Honest(maker.review)'
    BY <1>3, <1>5 DEF MakerSound, Honest
  <2> QED BY <1>1, <1>3, <1>5, <2>1 DEF Sound, TypeOK, Good, Cleared
<1>6. ASSUME NEW channel \in Channels, NEW c \in Commits, Make(channel, c)
      PROVE  /\ maker' \in Makers /\ Honest(maker.review)' /\ MakerSound'
             /\ manifest' \in Manifests \cup {Missing}
             /\ manifest' # Missing => Good(manifest)'
             /\ verifier' \in {verifier, NoVerifier}
  <2>1. flaw \in BOOLEAN /\ UNCHANGED manifest /\ verifier' = NoVerifier
    BY <1>6 DEF Make, Sound, TypeOK
  <2>2. /\ maker' \in Makers /\ maker'.at = "hash" /\ maker'.settled = ~flaw
        /\ maker'.review = NoMaker.review
    BY <1>3, <1>6, <2>1 DEF Make, Makers
  <2>3. Honest(maker.review)' /\ MakerSound'
    BY <1>1, <1>3, <2>2 DEF MakerSound, Honest
  <2> QED BY <1>1, <2>1, <2>2, <2>3 DEF Sound, TypeOK, Good, Cleared
<1>7. CASE MakeHash
  <2>1. SUFFICES ASSUME maker.at = "hash", sidecar = archive,
                        maker' = [maker EXCEPT !.at = "inspect", !.hash = archive],
                        UNCHANGED <<manifest, verifier>>
                 PROVE  maker' \in Makers /\ Honest(maker.review)' /\ MakerSound'
    BY <1>1, <1>5, <1>7
    DEF MakeHash, MakerStep, SidecarHolds, Sound, TypeOK, Good,
                            Cleared
  <2> QED BY <1>1, <1>4, <2>1 DEF Makers, MakerSound, Honest, Sound, ReviewsHonest
<1>8. CASE MakeInspect
  <2>1. SUFFICES ASSUME maker.at = "inspect", archive # Missing,
                        archive.commit = maker.commit,
                        maker.channel = "testnet" => archive.commit \notin Mainnet,
                        maker' = [maker EXCEPT
                          !.at = IF maker.channel = "mainnet" THEN "status" ELSE "write",
                          !.build = archive.commit],
                        UNCHANGED <<manifest, verifier>>
                 PROVE  maker' \in Makers /\ Honest(maker.review)' /\ MakerSound'
    BY <1>1, <1>5, <1>8
    DEF MakeInspect, Inspectable, MakerStep, Sound, TypeOK, Good, Cleared
  <2> QED BY <1>1, <1>4, <2>1 DEF Makers, Archives, MakerSound, Honest, Sound, ReviewsHonest
<1>9. CASE GateStatus
  <2>1. /\ maker.at = "status" /\ UNCHANGED <<manifest, verifier>>
        /\ maker' = [maker EXCEPT !.at = "findings", !.review = review]
    BY <1>9 DEF GateStatus, MakerStep
  <2>2. maker' \in Makers /\ Honest(maker.review)' /\ MakerSound'
    BY <1>1, <1>4, <2>1 DEF Makers, MakerSound, Honest, Sound, ReviewsHonest
  <2> QED BY <1>1, <2>1, <2>2 DEF Sound, TypeOK, Good, Cleared
<1>10. CASE GateFindings
  <2>1. SUFFICES ASSUME maker.at = "findings",
                        ValidStatus(maker.review), ValidFinding(finding),
                        Covers(maker.review, maker.commit), ~Blocks(finding),
                        maker' = [maker EXCEPT !.at = "write"],
                        UNCHANGED <<manifest, verifier>>
                 PROVE  maker' \in Makers /\ Honest(maker.review)' /\ MakerSound'
    BY <1>1, <1>5, <1>10
    DEF GateFindings, MakerStep, Sound, TypeOK, Good, Cleared
  <2>2. Cleared(maker.commit)
    BY <2>1 DEF Covers, ValidStatus, Cleared, Sound, ReviewsHonest, Honest
  <2>3. ~flaw
    BY <2>1 DEF ValidFinding, Blocks, FlawShows, Sound
  <2> QED BY <1>1, <1>4, <2>1, <2>2, <2>3
        DEF Makers, MakerSound, Honest, Sound, ReviewsHonest, Cleared
<1>11. CASE MakeWrite
  <2>1. /\ maker.at = "write" /\ maker' = NoMaker /\ UNCHANGED verifier
        /\ \/ UNCHANGED manifest
           \/ manifest' = [channel |-> maker.channel, commit |-> maker.commit,
                           archive |-> maker.hash, sidecar |-> sidecar,
                           build |-> maker.build, settled |-> maker.settled]
    BY <1>11 DEF MakeWrite, MakerStep
  <2>2. CASE UNCHANGED manifest
    BY <1>5, <2>1, <2>2
  <2>3. CASE manifest' = [channel |-> maker.channel, commit |-> maker.commit,
                          archive |-> maker.hash, sidecar |-> sidecar,
                          build |-> maker.build, settled |-> maker.settled]
    <3>1. manifest' \in Manifests
      BY <1>4, <2>3 DEF Makers, Manifests, Sound, TypeOK
    <3>2. Good(manifest)'
      BY <1>1, <2>1, <2>3 DEF Good, Cleared, MakerSound, Sound
    <3> QED BY <1>3, <2>1, <3>1, <3>2 DEF MakerSound, Honest
  <2> QED BY <2>1, <2>2, <2>3
<1> QED BY <1>6, <1>7, <1>8, <1>9, <1>10, <1>11 DEF Maker

LEMMA VerifierStepSound == ASSUME Sound, Verifier PROVE Sound'
<1> USE DEF reviewVars, bundleVars, makerVars
<1>1. UNCHANGED <<review, finding, reviewed, flaw, archive, sidecar, manifest, maker>>
  BY
  DEF Verifier, Verify, VerifyHash, VerifySidecar, VerifyInspect, VerifierStep
<1>2. SUFFICES verifier' \in Verifiers /\ VerifierSound'
  BY <1>1, <1>2
  DEF Sound, TypeOK, ReviewsHonest, Honest, FlawShows, MakerSound, Good,
                    Cleared
<1>3. NoVerifier \in Verifiers /\ NoVerifier.at = "idle"
  BY DEF NoVerifier, Verifiers
<1>4. verifier \in Verifiers
  BY DEF Sound, TypeOK
<1>5. \A m : Good(m) => Good(m)'
  BY <1>1, GoodStays
<1>6. CASE verifier' = NoVerifier
  BY <1>3, <1>6 DEF VerifierSound
<1>7. CASE Verify
  <2>1. verifier' = [at |-> "hash", manifest |-> manifest, moved |-> FALSE]
        /\ manifest # Missing
    BY <1>7 DEF Verify
  <2> QED BY <1>1, <1>5, <2>1 DEF Verifiers, VerifierSound, Sound, TypeOK
<1>8. CASE VerifyHash
  <2>1. SUFFICES ASSUME verifier.at = "hash", archive = sidecar,
                        verifier' = [verifier EXCEPT !.at = "sidecar"]
                 PROVE  verifier' \in Verifiers /\ VerifierSound'
    BY <1>6, <1>8 DEF VerifyHash, VerifierStep, SidecarHolds
  <2> QED BY <1>1, <1>4, <1>5, <2>1 DEF Verifiers, VerifierSound, Sound
<1>9. CASE VerifySidecar
  <2>1. SUFFICES ASSUME verifier.at = "sidecar",
                        verifier' = [verifier EXCEPT !.at = "inspect"]
                 PROVE  verifier' \in Verifiers /\ VerifierSound'
    BY <1>6, <1>9 DEF VerifySidecar, VerifierStep
  <2> QED BY <1>1, <1>4, <1>5, <2>1 DEF Verifiers, VerifierSound, Sound
<1>10. CASE VerifyInspect
  <2>1. SUFFICES ASSUME verifier.at = "inspect", SamePackage(verifier.manifest),
                        verifier' = [verifier EXCEPT !.at = "passed"]
                 PROVE  verifier' \in Verifiers /\ VerifierSound'
    BY <1>6, <1>10 DEF VerifyInspect, VerifierStep
  <2> QED BY <1>1, <1>4, <1>5, <2>1 DEF Verifiers, VerifierSound, Sound, SamePackage, Inspectable
<1> QED BY <1>7, <1>8, <1>9, <1>10 DEF Verifier

LEMMA SoundAlways == Spec => []Sound
<1>1. Init => Sound
  BY InitSound
<1>2. Sound /\ [Next]_vars => Sound'
  <2>1. ASSUME Sound, UNCHANGED vars PROVE Sound'
    BY <2>1
    DEF vars, reviewVars, bundleVars, makerVars, Sound, TypeOK, ReviewsHonest,
                Honest, FlawShows, MakerSound, VerifierSound, Good, Cleared
  <2> QED BY <2>1, RecordsStep, BundleStep, MakerStepSound, VerifierStepSound DEF Next
<1> QED BY <1>1, <1>2, PTL DEF Spec

(* What a verification found is true of the archive it found.              *)
THEOREM WhatIsVerified == Spec => []VerifiedWhole
<1>1. Sound => VerifiedWhole
  BY DEF Sound, VerifiedWhole, Passed, VerifierSound, Good
<1> QED BY <1>1, SoundAlways, PTL

(* docs/CRAK-030.md: mainnet releases were reviewed.                       *)
THEOREM MainnetReviewed == Spec => []ReleasedWasReviewed
<1>1. Sound => ReleasedWasReviewed
  BY DEF Sound, ReleasedWasReviewed, Passed, VerifierSound, Good, Cleared
<1> QED BY <1>1, SoundAlways, PTL

-----------------------------------------------------------------------------
(* Soak.  Induction over data: the smallest set for which a claim fails    *)
(* has subsets for which it holds.                                         *)
LEMMA SubsetInduction ==
  ASSUME NEW S, IsFiniteSet(S), NEW T,
         \A s \in SUBSET S : (\A t \in SUBSET s : t # s => t \in T) => s \in T
  PROVE  SUBSET S \subseteq T
<1> DEFINE Bad == (SUBSET S) \ T
<1> SUFFICES ASSUME Bad # {}
             PROVE  FALSE
  OBVIOUS
<1>1. Bad \subseteq FiniteSubsetsOf(S)
  BY FS_FiniteSubsetsOfFinite
<1>2. IsWellFoundedOn(StrictSubsetOrdering(S), FiniteSubsetsOf(S))
  BY FS_StrictSubsetOrderingWellFounded
<1>3. PICK s \in Bad : \A t \in Bad : <<t, s>> \notin StrictSubsetOrdering(S)
  <2> HIDE DEF Bad
  <2> QED
    BY <1>1, <1>2, WFMin
<1>4. ASSUME NEW t \in SUBSET s, t # s
      PROVE  t \in T
  <2>1. <<t, s>> \in StrictSubsetOrdering(S)
    BY <1>4 DEF StrictSubsetOrdering
  <2> QED
    BY <1>3, <2>1
<1> QED
  BY <1>3, <1>4

LEMMA MaxIn ==
  ASSUME NEW n \in Nat, NEW s \in SUBSET (0..n), s # {}
  PROVE  Max(s) \in s /\ \A x \in s : x <= Max(s)
<1>0. PICK S : S = 0..n
  OBVIOUS
<1> DEFINE T == {t \in SUBSET S : t # {} => \E x \in t : \A y \in t : x >= y}
<1>1. ASSUME NEW t \in SUBSET S, \A u \in SUBSET t : u # t => u \in T
      PROVE  t \in T
  <2>1. CASE t = {}
    BY <2>1
  <2>2. CASE t # {}
    <3>1. PICK z \in t : TRUE
      BY <2>2
    <3>2. t \ {z} \in T
      BY <1>1, <3>1
    <3>3. CASE t \ {z} = {}
      BY <1>0, <3>1, <3>3
    <3>4. CASE t \ {z} # {}
      <4>1. PICK x \in t \ {z} : \A y \in t \ {z} : x >= y
        BY <3>2, <3>4
      <4>2. x >= z \/ z >= x
        BY <1>0, <3>1, <4>1
      <4> QED
        BY <1>0, <3>1, <4>1, <4>2
    <3> QED
      BY <3>3, <3>4
  <2> QED
    BY <2>1, <2>2
<1>2. IsFiniteSet(S)
  BY <1>0, FS_Interval
<1>3. s \in T
  <2> HIDE DEF T
  <2>1. SUBSET S \subseteq T
    BY <1>1, <1>2, SubsetInduction
  <2> QED
    BY <1>0, <2>1
<1>4. PICK x \in s : \A y \in s : x >= y
  BY <1>3
<1>5. Max(s) \in s /\ \A y \in s : Max(s) >= y
  BY <1>4 DEF Max
<1> QED
  BY <1>5

LEMMA MinIn ==
  ASSUME NEW n \in Nat, NEW s \in SUBSET (0..n), s # {}
  PROVE  \E x \in s : \A y \in s : x <= y
<1> DEFINE turned == {i \in 0..n : n - i \in s}
<1>1. turned # {}
  <2>1. PICK x \in s : TRUE
    OBVIOUS
  <2>2. n - x \in 0..n /\ n - (n - x) = x
    BY <2>1
  <2> QED
    BY <2>1, <2>2
<1>2. PICK i \in turned : \A j \in turned : j <= i
  <2>1. turned \in SUBSET (0..n)
    OBVIOUS
  <2> HIDE DEF turned
  <2> QED
    BY <1>1, <2>1, MaxIn
<1>3. ASSUME NEW y \in s
      PROVE  n - i <= y
  <2>1. n - y \in 0..n /\ n - (n - y) = y
    OBVIOUS
  <2>2. n - y <= i
    BY <1>2, <2>1
  <2> QED
    BY <1>2, <2>2
<1> QED
  BY <1>2, <1>3

-----------------------------------------------------------------------------
(* In a strict order every element has a place of its own.                 *)
LEMMA Places ==
  ASSUME NEW S, IsFiniteSet(S), NEW A \in [S -> SUBSET S],
         \A w \in S : w \notin A[w],
         \A w \in S : \A v \in A[w] : A[v] \subseteq A[w],
         \A v, w \in S : v # w => v \in A[w] \/ w \in A[v]
  PROVE  /\ \A w \in S : Cardinality(A[w]) \in 0..Cardinality(S) - 1
         /\ \A w \in S : \A v \in A[w] : Cardinality(A[v]) < Cardinality(A[w])
         /\ \A v, w \in S : Cardinality(A[v]) = Cardinality(A[w]) => v = w
         /\ \A i \in 0..Cardinality(S) - 1 : \E w \in S : Cardinality(A[w]) = i
<1> DEFINE n == Cardinality(S)
           rank == [w \in S |-> Cardinality(A[w])]
<1>1. n \in Nat
  BY FS_CardinalityType
<1>2. ASSUME NEW w \in S
      PROVE  /\ IsFiniteSet(A[w]) /\ Cardinality(A[w]) \in Nat
             /\ Cardinality(A[w]) \in 0..n - 1
  <2>1. A[w] \in SUBSET (S \ {w})
    BY <1>2
  <2>2. IsFiniteSet(S \ {w}) /\ Cardinality(S \ {w}) = n - 1
    BY <1>2, FS_RemoveElement
  <2>3. IsFiniteSet(A[w]) /\ Cardinality(A[w]) <= n - 1
    BY <2>1, <2>2, FS_Subset
  <2>4. Cardinality(A[w]) \in Nat
    BY <2>3, FS_CardinalityType
  <2> QED
    BY <1>1, <2>3, <2>4
<1>3. ASSUME NEW w \in S, NEW v \in A[w]
      PROVE  Cardinality(A[v]) < Cardinality(A[w])
  <2>1. v \in S /\ v \notin A[v] /\ A[v] \cup {v} \in SUBSET A[w]
    BY <1>3
  <2>2. Cardinality(A[v] \cup {v}) = Cardinality(A[v]) + 1
    BY <1>2, <2>1, FS_AddElement
  <2>3. Cardinality(A[v] \cup {v}) <= Cardinality(A[w])
    BY <1>2, <1>3, <2>1, FS_Subset
  <2> QED
    BY <1>2, <2>1, <2>2, <2>3
<1>4. \A v, w \in S : rank[v] = rank[w] => v = w
  <2> SUFFICES ASSUME NEW v \in S, NEW w \in S, rank[v] = rank[w], v # w
               PROVE  FALSE
    OBVIOUS
  <2>1. v \in A[w] \/ w \in A[v]
    OBVIOUS
  <2> QED
    BY <1>2, <1>3, <2>1
<1>5. rank \in Injection(S, 0..n - 1)
  BY <1>2, <1>4 DEF Injection, IsInjective
<1>6. rank \in Surjection(S, 0..n - 1)
  <2>1. IsFiniteSet(0..n - 1) /\ Cardinality(0..n - 1) = n
    BY <1>1, FS_Interval
  <2> HIDE DEF rank
  <2> QED
    BY <1>5, <2>1, FS_Injection
<1>7. ASSUME NEW i \in 0..n - 1
      PROVE  \E w \in S : rank[w] = i
  BY <1>6 DEF Surjection
<1> QED
  BY <1>2, <1>3, <1>4, <1>7

(* A file of samples that bear times.                                      *)
Timed(file, n) ==
  /\ n \in Nat /\ DOMAIN file = 1..n
  /\ \A i \in 1..n : file[i].time \in Nat

LEMMA PlacesOf ==
  ASSUME NEW n, NEW file, Timed(file, n)
  PROVE  /\ \A j \in 1..n : Place(file, j) \in 1..n
         /\ \A i, j \in 1..n : Earlier(file, i, j) => Place(file, i) < Place(file, j)
         /\ \A i, j \in 1..n : Place(file, i) = Place(file, j) => i = j
         /\ \A k \in 1..n : \E j \in 1..n : Place(file, j) = k
<1> DEFINE A == [j \in 1..n |-> {i \in 1..n : Earlier(file, i, j)}]
<1>1. n \in Nat /\ DOMAIN file = 1..n
  BY DEF Timed
<1>2. PICK S : S = 1..n /\ IsFiniteSet(S) /\ Cardinality(S) = n
  BY <1>1, FS_Interval
<1>3. A \in [S -> SUBSET S]
  BY <1>2
<1>4. \A w \in S : w \notin A[w]
  BY <1>1, <1>2 DEF Timed, Earlier
<1>5. \A w \in S : \A v \in A[w] : A[v] \subseteq A[w]
  BY <1>1, <1>2 DEF Timed, Earlier
<1>6. \A v, w \in S : v # w => v \in A[w] \/ w \in A[v]
  BY <1>1, <1>2 DEF Timed, Earlier
<1>7. \A j \in S : Place(file, j) = Cardinality(A[j]) + 1
  BY <1>1, <1>2 DEF Place
<1>8. \A i, j \in S : Earlier(file, i, j) => i \in A[j]
  BY <1>2
<1> HIDE DEF A
<1>9. /\ \A w \in S : Cardinality(A[w]) \in 0..n - 1
      /\ \A w \in S : \A v \in A[w] : Cardinality(A[v]) < Cardinality(A[w])
      /\ \A v, w \in S : Cardinality(A[v]) = Cardinality(A[w]) => v = w
      /\ \A i \in 0..n - 1 : \E w \in S : Cardinality(A[w]) = i
  <2>1. /\ \A w \in S : Cardinality(A[w]) \in 0..Cardinality(S) - 1
        /\ \A w \in S : \A v \in A[w] : Cardinality(A[v]) < Cardinality(A[w])
        /\ \A v, w \in S : Cardinality(A[v]) = Cardinality(A[w]) => v = w
        /\ \A i \in 0..Cardinality(S) - 1 : \E w \in S : Cardinality(A[w]) = i
    <3>1. IsFiniteSet(S)
      BY <1>2
    <3> QED
      BY <1>3, <1>4, <1>5, <1>6, <3>1, Places
  <2> QED
    BY <1>2, <2>1
<1>10. \A w \in S : Place(file, w) \in 1..n
  BY <1>1, <1>7, <1>9
<1>11. \A i, j \in S : Earlier(file, i, j) => Place(file, i) < Place(file, j)
  BY <1>1, <1>7, <1>8, <1>9
<1>12. \A i, j \in S : Place(file, i) = Place(file, j) => i = j
  BY <1>1, <1>7, <1>9
<1>13. ASSUME NEW k \in 1..n
       PROVE  \E j \in S : Place(file, j) = k
  <2>1. k - 1 \in 0..n - 1 /\ k = (k - 1) + 1
    BY <1>1
  <2>2. PICK w \in S : Cardinality(A[w]) = k - 1
    BY <1>9, <2>1
  <2> QED
    BY <1>7, <2>1, <2>2
<1> QED
  BY <1>2, <1>10, <1>11, <1>12, <1>13

(* Sorting keeps all samples, and puts them in the order of their times.   *)
LEMMA SortedFile ==
  ASSUME NEW n, NEW file, Timed(file, n)
  PROVE  /\ DOMAIN Sorted(file) = 1..n
         /\ \A k \in 1..n : \E j \in 1..n : Sorted(file)[k] = file[j]
         /\ \A j \in 1..n : \E k \in 1..n : Sorted(file)[k] = file[j]
         /\ \A k, l \in 1..n : k < l => Sorted(file)[k].time <= Sorted(file)[l].time
<1> DEFINE At(k) == CHOOSE j \in 1..n : Place(file, j) = k
<1>1. n \in Nat /\ DOMAIN file = 1..n
  BY DEF Timed
<1>2. Sorted(file) = [k \in 1..n |-> file[At(k)]]
  BY <1>1 DEF Sorted
<1>3. ASSUME NEW k \in 1..n
      PROVE  At(k) \in 1..n /\ Place(file, At(k)) = k
  BY PlacesOf
<1>4. ASSUME NEW j \in 1..n
      PROVE  At(Place(file, j)) = j /\ Place(file, j) \in 1..n
  <2>1. Place(file, j) \in 1..n
    BY PlacesOf
  <2>2. At(Place(file, j)) \in 1..n /\ Place(file, At(Place(file, j))) = Place(file, j)
    BY <1>3, <2>1
  <2> HIDE DEF At
  <2> QED
    BY <2>1, <2>2, PlacesOf
<1> HIDE DEF At
<1>5. ASSUME NEW k \in 1..n, NEW l \in 1..n, k < l
      PROVE  file[At(k)].time <= file[At(l)].time
  <2>1. PICK i, j \in 1..n : i = At(k) /\ j = At(l)
    BY <1>3
  <2>2. Place(file, i) = k /\ Place(file, j) = l
    BY <1>3, <2>1
  <2>3. ~Earlier(file, j, i)
    BY <1>1, <1>5, <2>1, <2>2, PlacesOf
  <2>4. file[i].time \in Nat /\ file[j].time \in Nat
    BY DEF Timed
  <2> QED
    BY <2>1, <2>3, <2>4 DEF Earlier
<1> QED
  BY <1>2, <1>3, <1>4, <1>5

LEMMA SortedSamples ==
  ASSUME NEW n, NEW file, Timed(file, n), NEW r \in Range(Sorted(file))
  PROVE  r \in Range(file)
<1>1. /\ DOMAIN Sorted(file) = 1..n
      /\ \A k \in 1..n : \E j \in 1..n : Sorted(file)[k] = file[j]
  BY SortedFile
<1>2. DOMAIN file = 1..n
  BY DEF Timed
<1>3. PICK k \in 1..n : r = Sorted(file)[k]
  BY <1>1 DEF Range
<1>4. PICK j \in 1..n : r = file[j]
  BY <1>1, <1>3
<1> QED
  BY <1>2, <1>4 DEF Range

-----------------------------------------------------------------------------
(* Runs of failures.                                                       *)
LEMMA FunctionIsSeq ==
  ASSUME NEW n \in Nat, NEW f, DOMAIN f = 1..n, f = [i \in 1..n |-> f[i]]
  PROVE  Len(f) = n
<1>1. f \in Seq({f[i] : i \in 1..n}) /\ Len(f) = n
  OBVIOUS
<1> QED
  BY <1>1

LEMMA RunCounts ==
  ASSUME NEW h, NEW n \in Nat, Len(h) = n, NEW a \in 1..n, NEW b \in a..n,
         \A k \in a..b : ~h[k].healthy
  PROVE  LongestRun(h) >= b - a + 1 /\ LongestRun(h) \in Nat
<1> DEFINE Runs == {run \in 0..n : \E before \in 0..n - run :
                      \A k \in before + 1..before + run : ~h[k].healthy}
<1>1. LongestRun(h) = Max(Runs)
  BY DEF LongestRun
<1>2. b - a + 1 \in Runs
  <2>1. PICK before : before = a - 1
    OBVIOUS
  <2>2. b - a + 1 \in 0..n /\ before \in 0..n - (b - a + 1)
        /\ before + 1 = a /\ before + (b - a + 1) = b
    BY <2>1
  <2>3. \A k \in before + 1..before + (b - a + 1) : ~h[k].healthy
    BY <2>2
  <2> QED
    BY <2>2, <2>3
<1>3. Runs \in SUBSET (0..n) /\ Runs # {}
  BY <1>2
<1> HIDE DEF Runs
<1>4. Max(Runs) \in Runs /\ \A x \in Runs : x <= Max(Runs)
  BY <1>3, MaxIn
<1>5. Max(Runs) \in Nat /\ b - a + 1 <= Max(Runs)
  <2>1. PICK m : m = Max(Runs)
    OBVIOUS
  <2>2. m \in Runs /\ b - a + 1 <= m
    BY <1>2, <1>4, <2>1
  <2>3. m \in 0..n
    BY <1>3, <2>2
  <2> QED
    BY <2>1, <2>2, <2>3
<1>6. b - a + 1 \in Nat
  OBVIOUS
<1> QED
  BY <1>1, <1>5, <1>6

(* What the outage's samples make of a file, wherever they are in it.      *)
LEMMA OutageCounts ==
  ASSUME NEW n, NEW file, Timed(file, n), NEW from \in Nat, NEW to \in Nat,
         NEW M \in Nat, NEW S, S = {r \in Range(file) : r.time \in from..to},
         \A r \in S : ~r.healthy, Cardinality(S) > M
  PROVE  ~(LongestRun(Sorted(file)) <= M)
<1>1. n \in Nat /\ DOMAIN file = 1..n /\ (\A i \in 1..n : file[i].time \in Nat)
  BY DEF Timed
<1>2. PICK h : h = Sorted(file)
  OBVIOUS
<1>3. /\ DOMAIN h = 1..n
      /\ \A k \in 1..n : \E j \in 1..n : h[k] = file[j]
      /\ \A j \in 1..n : \E k \in 1..n : h[k] = file[j]
      /\ \A k, l \in 1..n : k < l => h[k].time <= h[l].time
  <2>1. /\ DOMAIN Sorted(file) = 1..n
        /\ \A k \in 1..n : \E j \in 1..n : Sorted(file)[k] = file[j]
        /\ \A j \in 1..n : \E k \in 1..n : Sorted(file)[k] = file[j]
        /\ \A k, l \in 1..n :
             k < l => Sorted(file)[k].time <= Sorted(file)[l].time
    BY SortedFile
  <2> QED
    BY <1>2, <2>1
<1>4. Len(h) = n
  <2>1. h = [k \in 1..n |-> h[k]]
    BY <1>1, <1>2 DEF Sorted
  <2> QED
    BY <1>1, <1>3, <2>1, FunctionIsSeq
<1> DEFINE P == {k \in 1..n : h[k].time \in from..to}
<1>5. \A k \in 1..n : h[k] \in Range(file) /\ h[k].time \in Nat
  BY <1>1, <1>3 DEF Range
<1>6. \A k \in P : h[k] \in S
  BY <1>5
<1>7. ASSUME NEW r \in S
      PROVE  \E k \in P : h[k] = r
  <2>1. PICK j \in 1..n : file[j] = r
    BY <1>1 DEF Range
  <2>2. PICK k \in 1..n : h[k] = file[j]
    BY <1>3
  <2> QED
    BY <2>1, <2>2
<1>8. IsFiniteSet(P) /\ P \in SUBSET (0..n)
  <2>1. PICK N : N = 1..n /\ IsFiniteSet(N)
    BY <1>1, FS_Interval
  <2>2. P \in SUBSET N
    BY <2>1
  <2>3. P \in SUBSET (0..n)
    BY <1>1
  <2> HIDE DEF P
  <2>4. IsFiniteSet(P)
    BY <2>1, <2>2, FS_Subset
  <2> QED
    BY <2>3, <2>4
<1>9. IsFiniteSet(S) /\ Cardinality(S) <= Cardinality(P)
  <2> DEFINE f == [k \in P |-> h[k]]
  <2> HIDE DEF P
  <2>1. f \in Surjection(P, S)
    BY <1>6, <1>7 DEF Surjection
  <2> HIDE DEF f
  <2> QED
    BY <1>8, <2>1, FS_Surjection
<1>10. P # {}
  <2>1. Cardinality(S) # 0
    BY <1>9, FS_CardinalityType
  <2>2. S # {}
    BY <2>1, FS_EmptySet
  <2> QED
    BY <1>7, <2>2
<1>11. PICK b \in P : \A k \in P : k <= b
  <2> HIDE DEF P
  <2> QED
    BY <1>1, <1>8, <1>10, MaxIn
<1>12. PICK a \in P : \A k \in P : a <= k
  <2> HIDE DEF P
  <2> QED
    BY <1>1, <1>8, <1>10, MinIn
<1>13. a \in 1..n /\ b \in a..n
  BY <1>1, <1>11, <1>12
<1>14. ASSUME NEW k \in a..b
       PROVE  k \in P
  <2>1. k \in 1..n /\ a <= k /\ k <= b
    BY <1>1, <1>13
  <2>2. h[a].time <= h[k].time /\ h[k].time <= h[b].time
    <3>1. a = k \/ a < k
      BY <1>1, <1>13, <2>1
    <3>2. k = b \/ k < b
      BY <1>1, <1>13, <2>1
    <3>3. h[a].time \in Nat /\ h[b].time \in Nat /\ a \in 1..n /\ b \in 1..n
      BY <1>1, <1>5, <1>13
    <3>4. h[a].time <= h[k].time
      <4>1. CASE a = k
        BY <3>3, <4>1
      <4>2. CASE a < k
        BY <1>3, <2>1, <3>3, <4>2
      <4> QED
        BY <3>1, <4>1, <4>2
    <3>5. h[k].time <= h[b].time
      <4>1. CASE k = b
        BY <3>3, <4>1
      <4>2. CASE k < b
        BY <1>3, <2>1, <3>3, <4>2
      <4> QED
        BY <3>2, <4>1, <4>2
    <3> QED
      BY <3>4, <3>5
  <2>3. from <= h[a].time /\ h[b].time <= to
    BY <1>11, <1>12
  <2> QED
    BY <1>5, <1>13, <2>1, <2>2, <2>3
<1>15. Cardinality(P) = b - a + 1
  <2>1. P = a..b
    BY <1>11, <1>12, <1>13, <1>14
  <2> HIDE DEF P
  <2> QED
    BY <1>13, <2>1, FS_Interval
<1>16. LongestRun(h) >= b - a + 1 /\ LongestRun(h) \in Nat
  <2>1. \A k \in a..b : ~h[k].healthy
    BY <1>6, <1>14
  <2> HIDE DEF P
  <2>2. n \in Nat
    BY <1>1
  <2> QED
    BY <1>4, <1>13, <2>1, <2>2, RunCounts
<1>17. Cardinality(S) \in Nat
  BY <1>9, FS_CardinalityType
<1> HIDE DEF P
<1> QED
  BY <1>2, <1>9, <1>13, <1>15, <1>16, <1>17

-----------------------------------------------------------------------------
(* The soak.                                                               *)
Samples == [time : Nat, healthy : BOOLEAN,
            block : [height : 0..MaxHeight, branch : Branches] \cup {NoBlock},
            fit : BOOLEAN]

SoakTyped ==
  /\ now \in Nat /\ started \in Nat
  /\ begun \in [Nodes -> 0..now]
  /\ collections \subseteq [node : Nodes, time : 0..now, drill : BOOLEAN]
  /\ observations \in [Nodes -> Seq(Samples)]
  /\ \A n \in Nodes : \A r \in Range(observations[n]) : r.time <= now
  /\ events \subseteq
       [kind : {"restart", "reorg"}, node : Nodes, time : 0..now, depth : Nat]
  /\ \A e \in events : e.kind = "restart" <=> e.depth = 0
  /\ drilled \subseteq Nodes

(* A collection knows of the restart events before it, and a node that was *)
(* healthy after one has been drilled.                                     *)
DrillSound ==
  /\ \A c \in collections : \A e \in RestartEvents(c.node) :
       e.time < c.time => c.drill
  /\ \A n \in Nodes : \A r \in Range(observations[n]) : \A e \in RestartEvents(n) :
       r.healthy /\ e.time < r.time => n \in drilled

LEMMA Appended ==
  ASSUME NEW S, NEW file \in Seq(S), NEW r \in S
  PROVE  /\ file \o <<r>> \in Seq(S)
         /\ Range(file \o <<r>>) = Range(file) \cup {r}
<1>1. PICK longer : longer = file \o <<r>>
  OBVIOUS
<1>2. /\ longer \in Seq(S) /\ Len(longer) = Len(file) + 1 /\ Len(file) \in Nat
      /\ \A i \in 1..Len(file) : longer[i] = file[i]
      /\ longer[Len(file) + 1] = r
  BY <1>1
<1>3. /\ DOMAIN file = 1..Len(file)
      /\ DOMAIN longer = 1..Len(file) + 1
  BY <1>2
<1>4. Range(longer) = Range(file) \cup {r}
  <2>1. ASSUME NEW i \in DOMAIN longer
        PROVE  longer[i] \in Range(file) \cup {r}
    <3>1. i \in 1..Len(file) \/ i = Len(file) + 1
      BY <1>2, <1>3
    <3> QED
      BY <1>2, <1>3, <3>1 DEF Range
  <2>2. ASSUME NEW i \in DOMAIN file
        PROVE  file[i] \in Range(longer)
    <3>1. i \in DOMAIN longer /\ longer[i] = file[i]
      BY <1>2, <1>3
    <3> QED
      BY <3>1 DEF Range
  <2>3. r \in Range(longer)
    <3>1. Len(file) + 1 \in DOMAIN longer
      BY <1>2, <1>3
    <3> QED
      BY <1>2, <3>1 DEF Range
  <2> QED
    BY <2>1, <2>2, <2>3 DEF Range
<1> QED
  BY <1>1, <1>2, <1>4

Sample(c, answer) ==
  [time |-> c.time, healthy |-> answer.healthy, block |-> answer.block,
   fit |-> answer.fit]

(* What a collection that ends does to the files.                          *)
LEMMA Files ==
  ASSUME SoakTyped, NEW c \in collections, NEW answer \in Answers \cup {Failed},
         Collected(c, answer)
  PROVE  /\ c.node \in Nodes /\ c.time \in 0..now /\ c.drill \in BOOLEAN
         /\ Sample(c, answer) \in Samples
         /\ observations' \in [Nodes -> Seq(Samples)]
         /\ Range(observations'[c.node])
              = Range(observations[c.node]) \cup {Sample(c, answer)}
         /\ \A n \in Nodes : n # c.node => observations'[n] = observations[n]
<1>1. c.node \in Nodes /\ c.time \in 0..now /\ c.drill \in BOOLEAN /\ now \in Nat
  BY DEF SoakTyped
<1>2. answer.healthy \in BOOLEAN /\ answer.fit \in BOOLEAN
      /\ answer.block \in [height : 0..MaxHeight, branch : Branches] \cup {NoBlock}
  <2>1. CASE answer \in Answers
    BY <2>1 DEF Answers
  <2>2. CASE answer = Failed
    BY <2>2 DEF Failed
  <2> QED
    BY <2>1, <2>2
<1>3. PICK r : r = Sample(c, answer)
  OBVIOUS
<1>4. r \in Samples
  BY <1>1, <1>2, <1>3 DEF Sample, Samples
<1>5. observations' = [observations EXCEPT ![c.node] = @ \o <<r>>]
  BY <1>3 DEF Collected, Sample
<1>6. PICK file : file = observations[c.node] /\ file \in Seq(Samples)
  BY <1>1 DEF SoakTyped
<1>7. /\ file \o <<r>> \in Seq(Samples)
      /\ Range(file \o <<r>>) = Range(file) \cup {r}
  BY <1>4, <1>6, Appended
<1>8. observations \in [Nodes -> Seq(Samples)]
  BY DEF SoakTyped
<1>9. PICK longer : longer = file \o <<r>>
  OBVIOUS
<1>10. observations' = [observations EXCEPT ![c.node] = longer]
  BY <1>5, <1>6, <1>9
<1>11. /\ observations' \in [Nodes -> Seq(Samples)]
       /\ observations'[c.node] = longer
       /\ \A n \in Nodes : n # c.node => observations'[n] = observations[n]
  BY <1>1, <1>7, <1>8, <1>9, <1>10
<1> QED
  BY <1>1, <1>3, <1>4, <1>6, <1>7, <1>9, <1>11

LEMMA SampleOf ==
  ASSUME SoakTyped, NEW n \in Nodes, NEW r \in Range(observations[n])
  PROVE  r \in Samples /\ r.time \in Nat /\ r.time <= now
<1>1. PICK file : file = observations[n] /\ file \in Seq(Samples)
  BY DEF SoakTyped
<1>2. r \in Samples
  BY <1>1 DEF Range
<1> QED
  BY <1>2 DEF SoakTyped, Samples

LEMMA SoakStarts == SoakInit => SoakTyped /\ DrillSound
<1> SUFFICES ASSUME SoakInit
             PROVE  SoakTyped /\ DrillSound
  OBVIOUS
<1>1. \A n \in Nodes : Range(observations[n]) = {}
  BY DEF SoakInit, Range
<1>2. <<>> \in Seq(Samples)
  OBVIOUS
<1> QED
  BY <1>1, <1>2 DEF SoakInit, SoakTyped, DrillSound

LEMMA TypedInductive ==
  ASSUME SoakTyped, [SoakNext]_soakVars
  PROVE  SoakTyped'
<1>1. now \in Nat /\ started \in Nat
  BY DEF SoakTyped
<1>2. CASE Tick
  <2>1. now' = now + 1 /\ \A t \in 0..now : t \in 0..now'
    BY <1>1, <1>2 DEF Tick
  <2>2. ASSUME NEW n \in Nodes, NEW r \in Range(observations[n])
        PROVE  r.time <= now'
    <3>1. r.time <= now /\ r.time \in Nat
      BY SampleOf
    <3> QED
      BY <1>1, <2>1, <3>1
  <2> QED
    BY <1>1, <1>2, <2>1, <2>2 DEF Tick, SoakTyped
<1>3. ASSUME NEW n \in Nodes, Collect(n)
      PROVE  SoakTyped'
  <2>1. now \in 0..now /\ started' \in Nat
    BY <1>1, <1>3 DEF Collect
  <2>2. PICK c : c = [node |-> n, time |-> now, drill |-> RestartEvents(n) # {}]
    OBVIOUS
  <2>3. c \in [node : Nodes, time : 0..now, drill : BOOLEAN]
    BY <2>1, <2>2
  <2>4. collections' = collections \cup {c}
    BY <1>3, <2>2 DEF Collect
  <2>5. begun' \in [Nodes -> 0..now]
    BY <1>3, <2>1 DEF Collect, SoakTyped
  <2>6. UNCHANGED <<now, observations, events, drilled>>
    BY <1>3 DEF Collect
  <2> QED
    BY <2>1, <2>3, <2>4, <2>5, <2>6 DEF SoakTyped
<1>4. ASSUME NEW c \in collections, NEW answer \in Answers \cup {Failed},
             Collected(c, answer)
      PROVE  SoakTyped'
  <2>1. /\ c.node \in Nodes /\ c.time \in 0..now
        /\ observations' \in [Nodes -> Seq(Samples)]
        /\ Range(observations'[c.node])
             = Range(observations[c.node]) \cup {Sample(c, answer)}
        /\ \A n \in Nodes : n # c.node => observations'[n] = observations[n]
    BY <1>4, Files
  <2>2. ASSUME NEW n \in Nodes, NEW r \in Range(observations'[n])
        PROVE  r.time <= now
    <3>1. CASE r \in Range(observations[n])
      BY <3>1 DEF SoakTyped
    <3>2. CASE r = Sample(c, answer)
      BY <1>1, <2>1, <3>2 DEF Sample
    <3> QED
      BY <2>1, <2>2, <3>1, <3>2
  <2>3. UNCHANGED <<now, begun, started, events>>
    BY <1>4 DEF Collected
  <2>4. collections' \subseteq collections /\ drilled' \subseteq Nodes
    BY <1>4, <2>1 DEF Collected, SoakTyped
  <2> QED
    BY <2>1, <2>2, <2>3, <2>4 DEF SoakTyped
<1>5. ASSUME NEW c \in collections, Killed(c)
      PROVE  SoakTyped'
  BY <1>5 DEF Killed, SoakTyped
<1>6. ASSUME NEW kind \in {"restart", "reorg"}, NEW n \in Nodes,
             NEW depth \in 0..MaxReorg + 1, Event(kind, n, depth)
      PROVE  SoakTyped'
  <2>1. PICK e : e = [kind |-> kind, node |-> n, time |-> now, depth |-> depth]
    OBVIOUS
  <2>2. e.kind = "restart" <=> e.depth = 0
    BY <1>6, <2>1 DEF Event
  <2>3. e \in [kind : {"restart", "reorg"}, node : Nodes, time : 0..now, depth : Nat]
    BY <1>1, <2>1, SoakAssumption DEF ValidPolicy
  <2>4. events' = events \cup {e}
    BY <1>6, <2>1 DEF Event
  <2>5. UNCHANGED <<now, begun, collections, started, observations, drilled>>
    BY <1>6 DEF Event
  <2> QED
    BY <2>2, <2>3, <2>4, <2>5 DEF SoakTyped
<1>7. CASE UNCHANGED soakVars
  BY <1>7 DEF SoakTyped, soakVars
<1> QED
  BY <1>2, <1>3, <1>4, <1>5, <1>6, <1>7 DEF SoakNext

LEMMA DrillInductive ==
  ASSUME SoakTyped, DrillSound, [SoakNext]_soakVars
  PROVE  DrillSound'
<1>1. now \in Nat
  BY DEF SoakTyped
<1>2. CASE Tick
  BY <1>2 DEF Tick, DrillSound, RestartEvents
<1>3. ASSUME NEW n \in Nodes, Collect(n)
      PROVE  DrillSound'
  <2>1. PICK c : c = [node |-> n, time |-> now, drill |-> RestartEvents(n) # {}]
    OBVIOUS
  <2>2. collections' = collections \cup {c}
    BY <1>3, <2>1 DEF Collect
  <2>3. UNCHANGED <<observations, events, drilled>>
    BY <1>3 DEF Collect
  <2>4. \A m : RestartEvents(m)' = RestartEvents(m)
    BY <2>3 DEF RestartEvents
  <2>5. ASSUME NEW e \in RestartEvents(c.node)
        PROVE  c.drill
    BY <2>1, <2>5
  <2> QED
    BY <2>2, <2>3, <2>4, <2>5 DEF DrillSound
<1>4. ASSUME NEW c \in collections, NEW answer \in Answers \cup {Failed},
             Collected(c, answer)
      PROVE  DrillSound'
  <2>1. /\ Range(observations'[c.node])
             = Range(observations[c.node]) \cup {Sample(c, answer)}
        /\ \A n \in Nodes : n # c.node => observations'[n] = observations[n]
    BY <1>4, Files
  <2>2. /\ collections' \subseteq collections /\ events' = events
        /\ drilled \subseteq drilled'
        /\ answer.healthy /\ c.drill => c.node \in drilled'
    BY <1>4 DEF Collected
  <2>3. ASSUME NEW d \in collections', NEW e \in RestartEvents(d.node)',
               e.time < d.time
        PROVE  d.drill
    BY <2>2, <2>3 DEF DrillSound, RestartEvents
  <2>4. ASSUME NEW n \in Nodes, NEW r \in Range(observations'[n]),
               NEW e \in RestartEvents(n)', r.healthy, e.time < r.time
        PROVE  n \in drilled'
    <3>1. e \in RestartEvents(n)
      BY <2>2 DEF RestartEvents
    <3>2. CASE r \in Range(observations[n])
      BY <2>2, <2>4, <3>1, <3>2 DEF DrillSound
    <3>3. CASE n = c.node /\ r = Sample(c, answer)
      <4>1. answer.healthy /\ e.time < c.time
        BY <2>4, <3>3 DEF Sample
      <4>2. c.drill
        BY <3>1, <3>3, <4>1 DEF DrillSound
      <4> QED
        BY <2>2, <3>3, <4>1, <4>2
    <3> QED
      BY <2>1, <3>2, <3>3
  <2> QED
    BY <2>3, <2>4 DEF DrillSound
<1>5. ASSUME NEW c \in collections, Killed(c)
      PROVE  DrillSound'
  BY <1>5 DEF Killed, DrillSound, RestartEvents
<1>6. ASSUME NEW kind \in {"restart", "reorg"}, NEW n \in Nodes,
             NEW depth \in 0..MaxReorg + 1, Event(kind, n, depth)
      PROVE  DrillSound'
  <2>1. UNCHANGED <<collections, observations, drilled>>
    BY <1>6 DEF Event
  <2>2. ASSUME NEW m, NEW e \in RestartEvents(m)'
        PROVE  e \in RestartEvents(m) \/ e.time = now
    BY <1>6, <2>2 DEF Event, RestartEvents
  <2>3. ASSUME NEW c \in collections, NEW e \in RestartEvents(c.node)',
               e.time < c.time
        PROVE  c.drill
    <3>1. c.time \in 0..now
      BY DEF SoakTyped
    <3>2. e \in RestartEvents(c.node)
      BY <1>1, <2>2, <2>3, <3>1
    <3> QED
      BY <2>3, <3>2 DEF DrillSound
  <2>4. ASSUME NEW m \in Nodes, NEW r \in Range(observations[m]),
               NEW e \in RestartEvents(m)', r.healthy, e.time < r.time
        PROVE  m \in drilled
    <3>1. r.time <= now /\ r.time \in Nat
      BY SampleOf
    <3>2. e \in RestartEvents(m)
      BY <1>1, <2>2, <2>4, <3>1
    <3> QED
      BY <2>4, <3>2 DEF DrillSound
  <2> QED
    BY <2>1, <2>3, <2>4 DEF DrillSound
<1>7. CASE UNCHANGED soakVars
  BY <1>7 DEF DrillSound, RestartEvents, soakVars
<1> QED
  BY <1>2, <1>3, <1>4, <1>5, <1>6, <1>7 DEF SoakNext

LEMMA FilesTimed ==
  ASSUME NEW files \in [Nodes -> Seq(Samples)], NEW n \in Nodes
  PROVE  Timed(files[n], Len(files[n]))
<1>1. PICK file : file = files[n] /\ file \in Seq(Samples)
  OBVIOUS
<1>2. Len(file) \in Nat /\ DOMAIN file = 1..Len(file)
  BY <1>1
<1>3. \A i \in 1..Len(file) : file[i] \in Samples
  BY <1>1
<1> QED
  BY <1>1, <1>2, <1>3 DEF Timed, Samples

(* Samples and events bear times that have come, and a node that was found *)
(* healthy after a restart event has been drilled (collect and event in    *)
(* crakbit-soak.py).                                                       *)
THEOREM SoakAlwaysSound == SoakSpec => [](SoakTyped /\ DrillSound)
<1>1. SoakInit => SoakTyped /\ DrillSound
  BY SoakStarts
<1>2. SoakTyped /\ DrillSound /\ [SoakNext]_soakVars => (SoakTyped /\ DrillSound)'
  BY TypedInductive, DrillInductive
<1> QED
  BY <1>1, <1>2, PTL DEF SoakSpec

(* A qualification that asks for restarts passes only when every node has  *)
(* answered a collection that began after its restart was announced        *)
(* (healthy_after and evaluate in crakbit-soak.py).                        *)
THEOREM RestartsAnswered == SoakSpec => []RestartAnswered
<1>1. SoakTyped /\ DrillSound => RestartAnswered
  <2> SUFFICES ASSUME SoakTyped, DrillSound, NEW q \in Qualifications,
                      q.restart, Passes(q)
               PROVE  drilled = Nodes
    BY DEF RestartAnswered
  <2>1. ASSUME NEW n \in Nodes
        PROVE  n \in drilled
    <3>1. PICK e \in RestartEvents(n) : HealthyAfter(n, e.time)
      BY DEF Passes, NodePasses
    <3>2. PICK r \in Range(Sorted(observations[n])) : r.healthy /\ r.time > e.time
      BY <3>1 DEF HealthyAfter, History
    <3>3. PICK file, l : file = observations[n] /\ l = Len(file) /\ Timed(file, l)
      BY FilesTimed DEF SoakTyped
    <3>4. Timed(file, l)
      BY <3>3
    <3>5. r \in Range(file)
      BY <3>2, <3>3, <3>4, SortedSamples
    <3>6. r.time \in Nat /\ e.time \in Nat
      <4>1. r \in Samples
        BY <3>3, <3>5, SampleOf
      <4>2. e.time \in 0..now /\ now \in Nat
        BY DEF SoakTyped, RestartEvents
      <4> QED
        BY <4>1, <4>2 DEF Samples
    <3>7. e.time < r.time
      BY <3>2, <3>6
    <3> QED
      BY <3>1, <3>2, <3>3, <3>5, <3>7 DEF DrillSound
  <2> QED
    BY <2>1 DEF SoakTyped
<1> QED
  BY <1>1, SoakAlwaysSound, PTL

(* An outage stays: no collection adds a sample to its time.               *)
LEMMA OutageStays ==
  ASSUME SoakTyped, SoakTyped', SoakNext, NEW n \in Nodes,
         NEW from \in 1..MaxTime, NEW to \in 1..MaxTime, Outage(n, from, to),
         NEW q
  PROVE  ~Passes(q)'
<1>1. PICK S : S = {r \in Range(observations[n]) : r.time \in from..to}
  OBVIOUS
<1>2. /\ \A r \in S : ~r.healthy
      /\ Cardinality(S) > MaxFailures
      /\ \A c \in collections : c.node = n => c.time \notin from..to
  BY <1>1 DEF Outage
<1>3. S = {r \in Range(observations'[n]) : r.time \in from..to}
  <2>1. ASSUME NEW c \in collections, NEW answer \in Answers \cup {Failed},
               Collected(c, answer)
        PROVE  S = {r \in Range(observations'[n]) : r.time \in from..to}
    <3>1. CASE c.node = n
      <4>1. Range(observations'[n])
              = Range(observations[n]) \cup {Sample(c, answer)}
        BY <2>1, <3>1, Files
      <4>2. Sample(c, answer).time \notin from..to
        BY <1>2, <3>1 DEF Sample
      <4> QED
        BY <1>1, <4>1, <4>2
    <3>2. CASE c.node # n
      BY <1>1, <2>1, <3>2, Files
    <3> QED
      BY <3>1, <3>2
  <2>2. ASSUME UNCHANGED observations
        PROVE  S = {r \in Range(observations'[n]) : r.time \in from..to}
    BY <1>1, <2>2
  <2> QED
    BY <2>1, <2>2 DEF SoakNext, Tick, Collect, Killed, Event
<1>4. PICK file, l : file = observations'[n] /\ l = Len(file) /\ Timed(file, l)
  <2>1. Timed(observations'[n], Len(observations'[n]))
    BY FilesTimed DEF SoakTyped
  <2> QED
    BY <2>1
<1>5. from \in Nat /\ to \in Nat /\ MaxFailures \in Nat
  BY SoakAssumption DEF ValidPolicy
<1>6. S = {r \in Range(file) : r.time \in from..to}
  BY <1>3, <1>4
<1>7. ~(LongestRun(Sorted(file)) <= MaxFailures)
  BY <1>2, <1>4, <1>5, <1>6, OutageCounts
<1>8. History(n)' = Sorted(file)
  BY <1>4 DEF History
<1>9. ~NodePasses(n, q)'
  BY <1>7, <1>8 DEF NodePasses
<1> QED
  BY <1>9 DEF Passes

LEMMA DeepStays ==
  ASSUME SoakTyped, SoakNext, NEW e \in events, e.depth > MaxReorg, NEW q
  PROVE  ~Passes(q)'
<1>1. e \in events'
  BY DEF SoakNext, Tick, Collect, Collected, Killed, Event
<1>2. e.kind = "reorg"
  BY SoakAssumption DEF SoakTyped, ValidPolicy
<1>3. e.depth \in Nat /\ MaxReorg \in Nat
  BY SoakAssumption DEF SoakTyped, ValidPolicy
<1> QED
  BY <1>1, <1>2, <1>3 DEF Passes, ReorgsPass

(* Neither a sample nor an event that comes later makes good for too long  *)
(* an outage or too deep a reorganisation, in whatever order collections   *)
(* end (longest_failure_run and evaluate in crakbit-soak.py).              *)
THEOREM DisqualificationLasts == SoakSpec => DisqualifiedForGood
<1> DEFINE Lasts ==
      (\/ \E n \in Nodes : \E from, to \in 1..MaxTime : Outage(n, from, to)
       \/ \E e \in events : e.depth > MaxReorg)
      => \A q \in Qualifications : ~Passes(q)'
<1>1. SoakTyped /\ SoakTyped' /\ [SoakNext]_soakVars => [Lasts]_soakVars
  <2> SUFFICES ASSUME SoakTyped, SoakTyped', SoakNext
               PROVE  Lasts
    OBVIOUS
  <2> QED
    BY OutageStays, DeepStays
<1>2. [](SoakTyped /\ DrillSound) => []SoakTyped
  BY PTL
<1> QED
  BY <1>1, <1>2, SoakAlwaysSound, PTL DEF SoakSpec, DisqualifiedForGood
=============================================================================
