---------------------------- MODULE PlatformProofs ----------------------------
(***************************************************************************)
(* What holds of ChangeDetection and of Consumers for every registry,      *)
(* every package and every declaration: what is stored of a change agrees  *)
(* with its verdict, a declared range admits what its notation stands for, *)
(* and what is said of a repository is what its next install does; and of  *)
(* the components that MCPlatform puts side by side.                       *)
(***************************************************************************)
EXTENDS MCPlatform, AccountsProofs, ControlsProofs, FiniteSetTheorems, SequenceTheorems, TLAPS

DetectionSpec == DetectionInit /\ [][DetectionNext]_detectionVars
ConsumersSpec == ConsumersInit /\ [][ConsumersNext]_consumerVars

-----------------------------------------------------------------------------
(* Detection: the inductive invariant *)

\* Reached a verdict, whether or not it is recorded yet.
Judged == sweep.at \in {"record", "ended"} /\ sweep.verdict # "no-newer-version"

\* The verdict is that of what the sweep still holds, and what it holds is
\* what was stored.
VerdictFollows ==
  Judged => sweep.verdict = Eligibility(sweep.evidence, Guidance(sweep.surfaces))
RowFollows ==
  Judged /\ sweep.at = "ended" => row = Recorded(sweep)

DetectionIInv == DetectionTypeOK /\ VerdictFollows /\ RowFollows

-----------------------------------------------------------------------------
(* Corroboration *)

LEMMA VerdictsOnly ==
  ASSUME NEW evidence, NEW capability
  PROVE  Eligibility(evidence, capability) \in Verdicts
BY DEF Eligibility, Verdicts

\* Without the question of guidance a verdict only changes where guidance was
\* what decided it.
LEMMA GuidanceDecidesLast ==
  ASSUME NEW evidence, NEW capability
  PROVE  /\ Eligible(Eligibility(evidence, capability))
              => Eligibility(evidence, FALSE) = Eligibility(evidence, capability)
         /\ Eligible(Eligibility(evidence, FALSE))
              => \/ Eligible(Eligibility(evidence, capability))
                 \/ Eligibility(evidence, capability) = "capability-requires-approval"
BY DEF Eligibility, Eligible

LEMMA ObservationsOnly ==
  ASSUME NEW from, NEW to, NEW s
  PROVE  /\ RegistryObservation(from, to) \in Observations
         /\ ArtifactObservation(to) \in Observations
         /\ SpecEvidence(s) \subseteq Observations
<1>1. /\ RegistryObservation(from, to).breaking \in BOOLEAN
      /\ ArtifactObservation(to).breaking \in BOOLEAN
  BY DEF RegistryObservation, ArtifactObservation
<1>2. \A b, a : SurfaceCorroboration(b, a) \in Observations
  BY DEF SurfaceCorroboration, Observations, Kinds
<1>3. SpecEvidence(s) \subseteq Observations
  BY <1>2 DEF SpecEvidence
<1> QED
  BY <1>1, <1>3 DEF RegistryObservation, ArtifactObservation, Observations, Kinds

-----------------------------------------------------------------------------
(* The sweep, step by step *)

\* What the invariant says of the registry, and of a sweep and its row.
RegistryOK ==
  /\ listed \in [Releases -> [published : BOOLEAN, deprecated : BOOLEAN, dist : Dists]]
  /\ typed \subseteq TypesVersions
  /\ changes \in 0..MaxChanges

SweepOK ==
  /\ sweep \in [at : Stages, next : Releases, evidence : SUBSET Observations,
               surfaces : {sweep.surfaces}, verdict : Verdicts \cup {"none", "no-newer-version"}]
  /\ row \in [to : Releases, evidence : SUBSET Observations, impacted : {row.impacted}]
  /\ VerdictFollows /\ RowFollows

LossesOK == losses \in 0..MaxLosses

LEMMA DetectionIInvParts == DetectionIInv <=> RegistryOK /\ SweepOK /\ LossesOK
BY DEF DetectionIInv, DetectionTypeOK, RegistryOK, SweepOK, LossesOK

LEMMA FreshSweepOK ==
  /\ NoSweep \in [at : Stages, next : Releases, evidence : SUBSET Observations,
                  surfaces : {NoSweep.surfaces}, verdict : Verdicts \cup {"none", "no-newer-version"}]
  /\ NoSweep.at = "find-next-version"
BY ReleaseAssumption DEF NoSweep, Stages

LEMMA EntriesOK ==
  /\ Missing \in [published : BOOLEAN, deprecated : BOOLEAN, dist : Dists]
  /\ \A d \in Dists : Entry(d) \in [published : BOOLEAN, deprecated : BOOLEAN, dist : Dists]
BY DEF Entry, Missing, Dists

LEMMA DetectionStarts == ASSUME DetectionInit PROVE DetectionIInv
<1>1. RegistryOK
  BY EntriesOK, ReleaseAssumption DEF DetectionInit, RegistryOK, Dists
<1>2. row \in [to : Releases, evidence : SUBSET Observations, impacted : {row.impacted}]
  BY ReleaseAssumption DEF DetectionInit, NoRow
<1>3. SweepOK
  BY <1>2, FreshSweepOK DEF DetectionInit, SweepOK, VerdictFollows, RowFollows, Judged
<1>4. LossesOK
  BY ReleaseAssumption DEF DetectionInit, LossesOK
<1> QED
  BY <1>1, <1>3, <1>4, DetectionIInvParts

\* A sweep and its row that stay keep what holds of them.
LEMMA SweepStays ==
  ASSUME SweepOK, UNCHANGED <<sweep, row>>
  PROVE  SweepOK'
BY DEF SweepOK, VerdictFollows, RowFollows, Judged, Recorded

LEMMA RegistryStays ==
  ASSUME RegistryOK, UNCHANGED registryVars
  PROVE  RegistryOK'
BY DEF RegistryOK, registryVars

LEMMA PublisherStep ==
  ASSUME DetectionIInv, PublisherNext
  PROVE  DetectionIInv'
<1> USE DetectionIInvParts
<1>1. changes' \in 0..MaxChanges /\ UNCHANGED <<sweep, row, losses>>
  BY ReleaseAssumption DEF PublisherNext, Publish, Deprecate, Unpublish, PublishTypes, Change, RegistryOK
<1>2. listed' \in [Releases -> [published : BOOLEAN, deprecated : BOOLEAN, dist : Dists]]
  <2>1. CASE \E v \in Releases : Publish(v)
    BY <2>1, EntriesOK DEF Publish, RegistryOK
  <2>2. CASE \E v \in Releases : Deprecate(v)
    BY <2>2 DEF Deprecate, RegistryOK
  <2>3. CASE \E v \in Releases : Unpublish(v)
    BY <2>3, EntriesOK DEF Unpublish, RegistryOK
  <2>4. CASE \E t \in TypesVersions : PublishTypes(t)
    BY <2>4 DEF PublishTypes, RegistryOK
  <2> QED
    BY <2>1, <2>2, <2>3, <2>4 DEF PublisherNext
<1>3. typed' \subseteq TypesVersions
  BY DEF PublisherNext, Publish, Deprecate, Unpublish, PublishTypes, RegistryOK
<1>4. SweepOK'
  BY <1>1, SweepStays
<1>5. RegistryOK' /\ LossesOK'
  BY <1>1, <1>2, <1>3 DEF RegistryOK, LossesOK
<1> QED
  BY <1>4, <1>5, DetectionIInvParts, PTL

\* The next version is one the registry lists.
LEMMA NextIsListed ==
  ASSUME NEW from
  PROVE  NextStable(Published, from) \subseteq Releases
BY DEF NextStable, LatestStable, Latest, Published

LEMMA FindNextStep ==
  ASSUME SweepOK, FindNext
  PROVE  SweepOK'
<1>1. CASE sweep' = [sweep EXCEPT !.at = "ended", !.verdict = "no-newer-version"]
  BY <1>1 DEF SweepOK, FindNext, VerdictFollows, RowFollows, Judged, Stages
<1>2. CASE \E v \in Releases : sweep' = [sweep EXCEPT !.at = "corroborate-registry", !.next = v]
  BY <1>2 DEF SweepOK, FindNext, VerdictFollows, RowFollows, Judged, Stages
<1> QED
  BY <1>1, <1>2, NextIsListed DEF FindNext

LEMMA CorroborateStep ==
  ASSUME SweepOK, CorroborateRegistry \/ CorroborateArtifact
  PROVE  SweepOK'
<1>1. PICK o \in Observations, s \in Stages :
        /\ sweep' = [sweep EXCEPT !.at = s, !.evidence = @ \cup {o}]
        /\ s \notin {"record", "ended"}
  BY ObservationsOnly DEF CorroborateRegistry, CorroborateArtifact, Stages
<1>2. UNCHANGED row
  BY DEF CorroborateRegistry, CorroborateArtifact
<1> QED
  BY <1>1, <1>2 DEF SweepOK, VerdictFollows, RowFollows, Judged

LEMMA SurfaceStep ==
  ASSUME SweepOK, LossesOK, CorroborateSurface
  PROVE  SweepOK' /\ LossesOK'
<1>1. PICK old \in SUBSET Sources, new \in SUBSET Sources :
        /\ losses + Cardinality(Sources \ old) + Cardinality(Sources \ new) <= MaxLosses
        /\ losses' = losses + Cardinality(Sources \ old) + Cardinality(Sources \ new)
  BY DEF CorroborateSurface
<1>2. PICK s, e :
        /\ e = sweep.evidence \cup SpecEvidence(s)
        /\ sweep' = [sweep EXCEPT !.at = "record", !.surfaces = s, !.evidence = e,
                                  !.verdict = Eligibility(e, Guidance(s))]
  BY DEF CorroborateSurface
<1>3. e \subseteq Observations
  BY <1>2, ObservationsOnly DEF SweepOK
<1>4. IsFiniteSet(Sources)
  <2>1. Sources = {"own"} \cup {"types"}
    BY DEF Sources
  <2>2. IsFiniteSet({"own"})
    BY FS_Singleton
  <2> QED
    BY <2>1, <2>2, FS_AddElement
<1>5. Cardinality(Sources \ old) \in Nat /\ Cardinality(Sources \ new) \in Nat
  BY <1>4, FS_Subset, FS_CardinalityType
<1>6. LossesOK'
  BY <1>1, <1>5, ReleaseAssumption DEF LossesOK
<1>7. sweep'.verdict \in Verdicts /\ UNCHANGED row
  BY <1>2, VerdictsOnly DEF CorroborateSurface, SweepOK
<1>8. SweepOK'
  BY <1>2, <1>3, <1>7 DEF SweepOK, VerdictFollows, RowFollows, Judged, Stages
<1> QED
  BY <1>6, <1>8

LEMMA RecordStep ==
  ASSUME SweepOK, Record
  PROVE  SweepOK'
BY DEF SweepOK, Record, Reach, Recorded, VerdictFollows, RowFollows, Judged, Stages

LEMMA StartOverStep ==
  ASSUME SweepOK, LossesOK, Crash \/ SweepAgain
  PROVE  SweepOK' /\ LossesOK'
<1>1. sweep' = NoSweep /\ UNCHANGED row
  BY DEF Crash, SweepAgain
<1>2. LossesOK'
  BY ReleaseAssumption DEF Crash, SweepAgain, LossesOK
<1> QED
  BY <1>1, <1>2, FreshSweepOK DEF SweepOK, VerdictFollows, RowFollows, Judged

LEMMA DetectionStep ==
  ASSUME DetectionIInv, [DetectionNext]_detectionVars
  PROVE  DetectionIInv'
<1> USE DetectionIInvParts
<1>1. CASE PublisherNext
  BY <1>1, PublisherStep
<1>2. CASE FindNext \/ CorroborateRegistry \/ CorroborateArtifact \/ CorroborateSurface \/ Record \/ Crash \/ SweepAgain
  <2>1. RegistryOK'
    BY <1>2, RegistryStays
    DEF FindNext, CorroborateRegistry, CorroborateArtifact, CorroborateSurface, Record, Crash, SweepAgain, Reach
  <2>2. SweepOK'
    BY <1>2, FindNextStep, CorroborateStep, SurfaceStep, RecordStep, StartOverStep
  <2>3. LossesOK'
    <3>1. CASE CorroborateSurface \/ Crash \/ SweepAgain
      BY <3>1, SurfaceStep, StartOverStep
    <3>2. CASE FindNext \/ CorroborateRegistry \/ CorroborateArtifact \/ Record
      BY <3>2 DEF FindNext, CorroborateRegistry, CorroborateArtifact, Record, LossesOK
    <3> QED
      BY <1>2, <3>1, <3>2
  <2> QED
    BY <2>1, <2>2, <2>3, DetectionIInvParts, PTL
<1>3. CASE UNCHANGED detectionVars
  <2>1. UNCHANGED <<sweep, row>> /\ UNCHANGED registryVars /\ UNCHANGED losses
    BY <1>3 DEF detectionVars, registryVars
  <2>2. SweepOK' /\ RegistryOK' /\ LossesOK'
    BY <2>1, SweepStays, RegistryStays DEF LossesOK
  <2> QED
    BY <2>2, DetectionIInvParts, PTL
<1> QED
  BY <1>1, <1>2, <1>3 DEF DetectionNext

LEMMA DetectionInvariantHolds == DetectionSpec => []DetectionIInv
BY DetectionStarts, DetectionStep, PTL DEF DetectionSpec

\* Types: a sweep's stage, version, evidence and verdict, what is stored of the
\* change, and the registry's entries (src/workflows/detect-changes.ts).
THEOREM DetectionTypeCorrect == DetectionSpec => []DetectionTypeOK
<1>1. DetectionIInv => DetectionTypeOK
  BY DEF DetectionIInv
<1> QED
  BY <1>1, DetectionInvariantHolds, PTL

\* Whatever the publisher does between two looks, whichever fetches fail and
\* however often the sweep is run again over a stored change: what plan-rollout
\* makes of the stored evidence agrees with the verdict of the sweep that
\* stored it (src/workflows/plan-rollout.ts:224).
THEOREM ReassessmentSound == DetectionSpec => []ReassessmentAgrees
<1>1. ASSUME DetectionIInv PROVE ReassessmentAgrees
  <2> SUFFICES ASSUME Judged, sweep.at = "ended"
               PROVE  /\ Eligible(sweep.verdict) => Eligibility(row.evidence, FALSE) = sweep.verdict
                      /\ Eligible(Eligibility(row.evidence, FALSE)) =>
                           Eligible(sweep.verdict) \/ sweep.verdict = "capability-requires-approval"
    BY DEF ReassessmentAgrees, Judged
  <2>1. row.evidence = sweep.evidence
    BY <1>1 DEF DetectionIInv, RowFollows, Recorded
  <2>2. sweep.verdict = Eligibility(sweep.evidence, Guidance(sweep.surfaces))
    BY <1>1 DEF DetectionIInv, VerdictFollows
  <2> QED
    BY <2>1, <2>2, GuidanceDecidesLast
<1> QED
  BY <1>1, DetectionInvariantHolds, PTL

-----------------------------------------------------------------------------
(* Consumers: the inductive invariant.  There is a lockfile once something  *)
(* was installed, and it holds what the registry had then.                  *)

Installed == lock.format # "none" => lock.top # {}

ConsumersIInv == ConsumersTypeOK /\ IsFiniteSet(published) /\ Installed

LEMMA ConsumersStart == ASSUME ConsumersInit PROVE ConsumersIInv
<1>1. ConsumersTypeOK
  BY ConsumerAssumption DEF ConsumersInit, ConsumersTypeOK, NoLock
<1>2. IsFiniteSet(published)
  BY FS_Singleton DEF ConsumersInit
<1> QED
  BY <1>1, <1>2 DEF ConsumersIInv, ConsumersInit, Installed, NoLock

\* What an install resolves to is published, stable and taken by npm, and
\* nothing that is all that is later.
LEMMA Resolved ==
  /\ Resolution \subseteq published
  /\ \A v \in Resolution :
       /\ IsStable(v) /\ \E d \in Declared(manifest) : NpmAdmits(d.range, v)
       /\ \A w \in published :
            IsStable(w) /\ (\E d \in Declared(manifest) : NpmAdmits(d.range, w)) => AtLeast(v, w)
BY DEF Resolution, LatestStable, Latest

LEMMA ConsumersStep ==
  ASSUME ConsumersIInv, [ConsumersNext]_consumerVars
  PROVE  ConsumersIInv'
<1> USE DEF ConsumersIInv
<1>1. CASE \E v \in Market : Release(v)
  <2>1. PICK v \in Market : Release(v)
    BY <1>1
  <2>2. published' = published \cup {v} /\ UNCHANGED <<manifest, lock>> /\ edits' \in 0..MaxEdits
    BY <2>1, ConsumerAssumption DEF Release, Edited, ConsumersTypeOK
  <2>3. IsFiniteSet(published')
    BY <2>2, FS_AddElement
  <2> QED
    BY <2>2, <2>3 DEF ConsumersTypeOK, Installed
<1>2. CASE \E f \in FieldNames : (\E r \in Ranges : Declare(f, Says(r))) \/ Declare(f, Garbled) \/ Declare(f, Silent)
  <2>1. PICK f \in FieldNames, d \in {Silent, Garbled} \cup {Says(r) : r \in Ranges} : Declare(f, d)
    BY <1>2
  <2>2. UNCHANGED <<published, lock>> /\ edits' \in 0..MaxEdits /\ manifest' = [manifest EXCEPT ![f] = d]
    BY <2>1, ConsumerAssumption DEF Declare, Edited, ConsumersTypeOK
  <2>3. manifest' \in [FieldNames -> {Silent, Garbled} \cup {Says(r) : r \in Ranges}]
    BY <2>2 DEF ConsumersTypeOK
  <2> QED
    BY <2>2, <2>3 DEF ConsumersTypeOK, Installed
<1>3. CASE \E f \in Formats : Install(f)
  <2>1. PICK f \in Formats, others \in SUBSET published :
          lock' = [format |-> f, top |-> Resolution, nested |-> others]
    BY <1>3 DEF Install
  <2>2. UNCHANGED <<published, manifest>> /\ edits' \in 0..MaxEdits /\ Resolution # {}
    BY <1>3, ConsumerAssumption DEF Install, Edited, ConsumersTypeOK
  <2>3. lock' \in [format : Formats \cup {"none"}, top : SUBSET published, nested : SUBSET published]
    BY <2>1, Resolved
  <2>4. Installed'
    BY <2>1, <2>2 DEF Installed
  <2> QED
    BY <2>2, <2>3, <2>4 DEF ConsumersTypeOK
<1>4. CASE UNCHANGED consumerVars
  BY <1>4 DEF consumerVars, ConsumersTypeOK, Installed
<1> QED
  BY <1>1, <1>2, <1>3, <1>4 DEF ConsumersNext

LEMMA ConsumersInvariantHolds == ConsumersSpec => []ConsumersIInv
BY ConsumersStart, ConsumersStep, PTL DEF ConsumersSpec

\* Types: what is published, declared and locked (src/discover/manifest.ts).
THEOREM ConsumersTypeCorrect == ConsumersSpec => []ConsumersTypeOK
<1>1. ConsumersIInv => ConsumersTypeOK
  BY DEF ConsumersIInv
<1> QED
  BY <1>1, ConsumersInvariantHolds, PTL

\* A version the lockfile settles on is the repository's own copy, in the
\* formats that do not tell copies apart too.
LEMMA LockedIsInstalled ==
  ASSUME ConsumersIInv
  PROVE  LockedVersion(lock) \subseteq lock.top
<1> SUFFICES ASSUME NEW v \in LockedVersion(lock) PROVE v \in lock.top
  OBVIOUS
<1>1. lock.format \in Formats /\ lock.top # {}
  BY DEF LockedVersion, ConsumersIInv, Installed, Formats
<1>2. CASE lock.format = "npm"
  BY <1>2 DEF LockedVersion
<1>3. CASE lock.format # "npm"
  <2>1. v \in lock.top \cup lock.nested /\ Cardinality(lock.top \cup lock.nested) = 1
    BY <1>1, <1>3 DEF LockedVersion
  <2>2. IsFiniteSet(lock.top \cup lock.nested)
    BY FS_Subset DEF ConsumersIInv, ConsumersTypeOK
  <2>3. PICK x : lock.top \cup lock.nested = {x}
    BY <2>1, <2>2, FS_Singleton
  <2> QED
    BY <1>1, <2>1, <2>3
<1> QED
  BY <1>2, <1>3

-----------------------------------------------------------------------------
(* Versions: order *)

Before(r, s) ==
  \/ r[1] < s[1]
  \/ r[1] = s[1] /\ r[2] < s[2]
  \/ r[1] = s[1] /\ r[2] = s[2] /\ r[3] < s[3]

LEMMA ReleaseOrder ==
  ASSUME NEW r, NEW s
  PROVE  ReleasePrecedes(r, s) <=> Before(r, s)
<1>1. ASSUME ReleasePrecedes(r, s) PROVE Before(r, s)
  <2>1. PICK i \in 1..3 : r[i] < s[i] /\ \A j \in 1..(i - 1) : r[j] = s[j]
    BY <1>1 DEF ReleasePrecedes
  <2>2. i = 1 \/ i = 2 \/ i = 3
    OBVIOUS
  <2>3. i >= 2 => r[1] = s[1]
    BY <2>1
  <2>4. i = 3 => r[2] = s[2]
    BY <2>1
  <2> QED
    BY <2>1, <2>2, <2>3, <2>4 DEF Before
<1>2. ASSUME Before(r, s) PROVE ReleasePrecedes(r, s)
  <2>1. CASE r[1] < s[1]
    BY <2>1 DEF ReleasePrecedes
  <2>2. CASE r[1] = s[1] /\ r[2] < s[2]
    BY <2>2 DEF ReleasePrecedes
  <2>3. CASE r[1] = s[1] /\ r[2] = s[2] /\ r[3] < s[3]
    BY <2>3 DEF ReleasePrecedes
  <2> QED
    BY <1>2, <2>1, <2>2, <2>3 DEF Before
<1> QED
  BY <1>1, <1>2

\* What comes before what is decided by the release alone where the first of
\* them is stable.
LEMMA StableOrder ==
  ASSUME NEW v, IsStable(v), NEW w
  PROVE  Precedes(v, w) <=> Before(v.release, w.release)
BY ReleaseOrder DEF Precedes

LEMMA StepsUp ==
  ASSUME NEW v
  PROVE  /\ NextMajor(v).release = <<v.release[1] + 1, 0, 0>>
         /\ NextMinor(v).release = <<v.release[1], v.release[2] + 1, 0>>
         /\ NextPatch(v).release = <<v.release[1], v.release[2], v.release[3] + 1>>
BY DEF NextMajor, NextMinor, NextPatch, V, Major, Minor

-----------------------------------------------------------------------------
(* Tokens *)

\* What the author wrote before the first wildcard.
LEMMA SpecifiedParts ==
  ASSUME NEW n \in 1..3, NEW parts \in [1..n -> Nat \cup {X}]
  PROVE  /\ Len(parts) = n
         /\ Specified(parts) \in 0..n
         /\ \A i \in 1..Specified(parts) : parts[i] \in Nat
         /\ Specified(parts) < n => parts[Specified(parts) + 1] = X
<1> DEFINE Stops(k) == /\ \A i \in 1..k : parts[i] # X
                       /\ k < Len(parts) => parts[k + 1] = X
<1>1. Len(parts) = n
  OBVIOUS
<1>2. \E k \in 0..n : Stops(k)
  <2>1. CASE parts[1] = X
    BY <1>1, <2>1
  <2>2. CASE parts[1] # X /\ (n = 1 \/ (n > 1 /\ parts[2] = X))
    BY <1>1, <2>2
  <2>3. CASE n > 1 /\ parts[1] # X /\ parts[2] # X /\ (n = 2 \/ (n > 2 /\ parts[3] = X))
    BY <1>1, <2>3
  <2>4. CASE n = 3 /\ parts[1] # X /\ parts[2] # X /\ parts[3] # X
    BY <1>1, <2>4
  <2> QED
    BY <2>1, <2>2, <2>3, <2>4
<1>3. Specified(parts) \in 0..n /\ Stops(Specified(parts))
  BY <1>1, <1>2 DEF Specified
<1> QED
  BY <1>1, <1>3

LEMMA SpecifiedFirst ==
  ASSUME NEW n \in 1..3, NEW parts \in [1..n -> Nat \cup {X}], parts[1] # X
  PROVE  Specified(parts) \in 1..n
<1>1. Specified(parts) \in 0..n /\ (Specified(parts) < n => parts[Specified(parts) + 1] = X)
  BY SpecifiedParts
<1> DEFINE k == Specified(parts)
<1> HIDE DEF k
<1>2. k # 0
  BY <1>1 DEF k
<1> QED
  BY <1>1, <1>2 DEF k

\* The lower bound of a token has what was written, and zeros.
LEMMA LowerParts ==
  ASSUME NEW t, NEW n \in 1..3, t.parts \in [1..n -> Nat \cup {X}]
  PROVE  /\ Lower(t).pre = t.pre
         /\ Lower(t).release \in [1..3 -> Nat]
         /\ \A i \in 1..Specified(t.parts) : Lower(t).release[i] = t.parts[i]
<1>1. /\ Len(t.parts) = n /\ Specified(t.parts) \in 0..n
      /\ \A i \in 1..Specified(t.parts) : t.parts[i] \in Nat
  BY SpecifiedParts
<1>2. \A i \in 1..3 : Component(t.parts, i) \in Nat
  BY <1>1 DEF Component, Zeroed, X
<1>3. \A i \in 1..Specified(t.parts) : i \in 1..3 /\ Component(t.parts, i) = t.parts[i]
  BY <1>1 DEF Component, Zeroed, X
<1> QED
  BY <1>2, <1>3 DEF Lower

-----------------------------------------------------------------------------
(* From comparators to bounds on the release *)

LEMMA ComparatorsMatch ==
  ASSUME NEW v, NEW w
  PROVE  /\ Matches(v, Comparator(">=", w)) <=> AtLeast(v, w)
         /\ Matches(v, Comparator(">", w)) <=> Precedes(w, v)
         /\ Matches(v, Comparator("<", w)) <=> Precedes(v, w)
         /\ Matches(v, Comparator("<=", w)) <=> AtLeast(w, v)
         /\ Matches(v, Comparator("=", w)) <=> v = w
BY DEF Matches, Comparator

IsVersion(v) == v = [release |-> v.release, pre |-> v.pre] /\ v.release \in [1..3 -> Nat]

Raised(r, s) ==
  /\ ~Before(r, s) /\ Before(r, <<s[1] + 1, 0, 0>>) <=> ~Before(r, s) /\ r[1] = s[1]
  /\ ~Before(r, s) /\ Before(r, <<s[1], s[2] + 1, 0>>)
       <=> ~Before(r, s) /\ r[1] = s[1] /\ r[2] = s[2]
  /\ ~Before(r, s) /\ Before(r, <<s[1], s[2], s[3] + 1>>)
       <=> ~Before(r, s) /\ r[1] = s[1] /\ r[2] = s[2] /\ r[3] = s[3]

\* A bound that raises the last written component, together with what was
\* written as the lower bound, is agreement up to that component.
LEMMA RaisedBound ==
  ASSUME NEW r \in [1..3 -> Nat], NEW s \in [1..3 -> Nat]
  PROVE  Raised(r, s)
<1>1. r[1] \in Nat /\ r[2] \in Nat /\ r[3] \in Nat /\ s[1] \in Nat /\ s[2] \in Nat /\ s[3] \in Nat
  OBVIOUS
<1> QED
  BY <1>1 DEF Before, Raised

\* The same bound alone: no later, or in agreement.
LEMMA RaisedAlone ==
  ASSUME NEW r \in [1..3 -> Nat], NEW s \in [1..3 -> Nat], s[3] = 0
  PROVE  /\ s[2] = 0 => (Before(r, <<s[1] + 1, 0, 0>>) <=> ~Before(s, r) \/ r[1] = s[1])
         /\ Before(r, <<s[1], s[2] + 1, 0>>) <=> ~Before(s, r) \/ (r[1] = s[1] /\ r[2] = s[2])
<1>1. r[1] \in Nat /\ r[2] \in Nat /\ r[3] \in Nat /\ s[1] \in Nat /\ s[2] \in Nat
  OBVIOUS
<1> QED
  BY <1>1 DEF Before

LEMMA AgreeUpTo ==
  ASSUME NEW v, NEW t
  PROVE  /\ Agree(v, t, 1) <=> v.release[1] = t.parts[1]
         /\ Agree(v, t, 2) <=> v.release[1] = t.parts[1] /\ v.release[2] = t.parts[2]
         /\ Agree(v, t, 3) <=> v.release[1] = t.parts[1] /\ v.release[2] = t.parts[2] /\ v.release[3] = t.parts[3]
<1>1. 1..1 = {1} /\ 1..2 = {1, 2} /\ 1..3 = {1, 2, 3}
  OBVIOUS
<1> QED
  BY <1>1 DEF Agree

-----------------------------------------------------------------------------
(* Tokens: what the parser makes of one, and npm *)

\* The floor has what was written, and zeros.
LEMMA FloorParts ==
  ASSUME NEW t, NEW n \in 1..3, t.parts \in [1..n -> Nat \cup {X}]
  PROVE  /\ Floor(t).pre = t.pre /\ Floor(t).release \in [1..3 -> Nat]
         /\ Written(t) \in 0..n
         /\ \A i \in 1..3 : Floor(t).release[i] = IF i <= Written(t) THEN t.parts[i] ELSE 0
<1>1. /\ Specified(t.parts) \in 0..n
      /\ \A i \in 1..Specified(t.parts) : t.parts[i] \in Nat
  BY SpecifiedParts
<1> DEFINE k == Written(t)
<1>2. k \in 0..n /\ \A i \in 1..3 : i <= k => t.parts[i] \in Nat
  BY <1>1 DEF Written
<1> HIDE DEF k
<1>3. [i \in 1..3 |-> IF i <= k THEN t.parts[i] ELSE 0] \in [1..3 -> Nat]
  BY <1>2
<1> QED
  BY <1>2, <1>3 DEF Floor, k

\* The parser's lower bound is that floor, unless a number follows a wildcard.
LEMMA LowerIsFloor ==
  ASSUME NEW t, NEW n \in 1..3, t.parts \in [1..n -> Nat \cup {X}],
         \A i \in (Written(t) + 1)..Len(t.parts) : t.parts[i] \in {X, 0}
  PROVE  /\ Lower(t) = Floor(t)
         /\ Written(t) \in 0..3 /\ Lower(t).release \in [1..3 -> Nat]
         /\ \A i \in 1..3 : Lower(t).release[i] = IF i <= Written(t) THEN t.parts[i] ELSE 0
<1>1. /\ Len(t.parts) = n /\ Specified(t.parts) \in 0..n
      /\ \A i \in 1..Specified(t.parts) : t.parts[i] \in Nat
  BY SpecifiedParts
<1> DEFINE k == Written(t)
<1>2. k \in 0..n /\ \A i \in 1..k : t.parts[i] \in Nat
  BY <1>1 DEF Written
<1>3. Lower(t) = Floor(t)
  <2> HIDE DEF k
  <2>1. \A i \in 1..3 : Component(t.parts, i) = IF i <= k THEN t.parts[i] ELSE 0
    BY <1>1, <1>2 DEF Component, Zeroed, X, k
  <2>2. [i \in 1..3 |-> Component(t.parts, i)] = [i \in 1..3 |-> IF i <= k THEN t.parts[i] ELSE 0]
    BY <2>1
  <2> QED
    BY <2>2 DEF Lower, Floor, k
<1>4. k \in 0..3
  <2> HIDE DEF k
  <2> QED
    BY <1>2
<1>5. /\ Floor(t).release \in [1..3 -> Nat]
      /\ \A i \in 1..3 : Floor(t).release[i] = IF i <= k THEN t.parts[i] ELSE 0
  BY FloorParts
<1> HIDE DEF k
<1> QED
  BY <1>3, <1>4, <1>5, Zenon DEF k

\* A token that was given comparators admits what satisfies them all.
Within(v, t) == \A c \in UNION ParseToken(t) : Matches(v, c)

LEMMA BetweenMeans ==
  ASSUME NEW v, IsStable(v), NEW t, NEW lo, NEW hi, ParseToken(t) = {Between(lo, hi)}
  PROVE  Within(v, t) <=> ~Before(v.release, lo.release) /\ Before(v.release, hi.release)
<1>1. UNION ParseToken(t) = {Comparator(">=", lo), Comparator("<", hi)}
  BY DEF Between
<1>2. Within(v, t) <=> Matches(v, Comparator(">=", lo)) /\ Matches(v, Comparator("<", hi))
  BY <1>1, Zenon DEF Within
<1> QED
  BY <1>2, ComparatorsMatch, StableOrder DEF AtLeast

LEMMA CaretMeans ==
  ASSUME NEW v, IsVersion(v), IsStable(v), NEW t, t.prefix = "^",
         NEW n \in 1..3, t.parts \in [1..n -> Nat \cup {X}], ~MisreadToken(t)
  PROVE  Within(v, t) <=> NpmReads(v, t)
<1> DEFINE lo == Lower(t)
           k  == Written(t)
           r  == v.release
           s  == lo.release
<1>1. \A i \in (k + 1)..Len(t.parts) : t.parts[i] \in {X, 0}
  BY DEF MisreadToken
<1>2. lo = Floor(t)
  BY <1>1, LowerIsFloor
<1>3. /\ k \in 0..3 /\ s \in [1..3 -> Nat] /\ r \in [1..3 -> Nat]
      /\ \A i \in 1..3 : s[i] = IF i <= k THEN t.parts[i] ELSE 0
  BY <1>1, LowerIsFloor DEF IsVersion
<1>4. PICK hi : /\ ParseToken(t) = {Between(lo, hi)}
                /\ hi = IF s[1] # 0 THEN NextMajor(lo) ELSE IF s[2] # 0 THEN NextMinor(lo) ELSE NextPatch(lo)
  BY DEF ParseToken, CaretRange, Major, Minor
<1>5. Within(v, t) <=> ~Before(r, s) /\ Before(r, hi.release)
  BY <1>4, BetweenMeans
<1> DEFINE Keeps == \A i \in 1..k : (\A j \in 1..(i - 1) : t.parts[j] = 0) => r[i] = t.parts[i]
<1>6. NpmReads(v, t) <=> ~Before(r, s) /\ Keeps
  BY <1>2, StableOrder DEF NpmReads, AtLeast
<1>7. hi.release = IF s[1] # 0 THEN <<s[1] + 1, 0, 0>>
                   ELSE IF s[2] # 0 THEN <<s[1], s[2] + 1, 0>> ELSE <<s[1], s[2], s[3] + 1>>
  BY <1>4, StepsUp
<1>8. k < 3 => \E i \in 1..k : t.parts[i] # 0
  BY DEF MisreadToken
<1>9. Raised(r, s)
  BY <1>3, RaisedBound
<1> HIDE DEF lo, k, r, s
<1>10. CASE s[1] # 0
  <2>1. k >= 1 /\ t.parts[1] = s[1]
    BY <1>3, <1>10
  <2>2. Keeps <=> r[1] = s[1]
    <3>1. ASSUME NEW i \in 1..k, i # 1 PROVE ~(\A j \in 1..(i - 1) : t.parts[j] = 0)
      BY <1>3, <1>10, <2>1, <3>1
    <3>2. 1 \in 1..k /\ \A j \in 1..(1 - 1) : t.parts[j] = 0
      BY <1>3, <2>1
    <3> QED
      BY <2>1, <3>1, <3>2, Zenon
  <2>3. hi.release = <<s[1] + 1, 0, 0>>
    BY <1>7, <1>10
  <2> HIDE DEF Keeps
  <2> QED
    BY <1>5, <1>6, <1>9, <2>2, <2>3, Zenon DEF Raised
<1>11. CASE s[1] = 0 /\ s[2] # 0
  <2>1. k >= 2 /\ t.parts[1] = s[1] /\ t.parts[2] = s[2]
    BY <1>3, <1>11
  <2>2. Keeps <=> r[1] = s[1] /\ r[2] = s[2]
    <3>1. ASSUME NEW i \in 1..k, i # 1, i # 2 PROVE ~(\A j \in 1..(i - 1) : t.parts[j] = 0)
      BY <1>3, <1>11, <2>1, <3>1
    <3>2. /\ 1 \in 1..k /\ \A j \in 1..(1 - 1) : t.parts[j] = 0
          /\ 2 \in 1..k /\ \A j \in 1..(2 - 1) : t.parts[j] = 0
      BY <1>3, <1>11, <2>1
    <3> QED
      BY <2>1, <3>1, <3>2, Zenon
  <2>3. hi.release = <<s[1], s[2] + 1, 0>>
    BY <1>7, <1>11
  <2> HIDE DEF Keeps
  <2> QED
    BY <1>5, <1>6, <1>9, <2>2, <2>3, Zenon DEF Raised
<1>12. CASE s[1] = 0 /\ s[2] = 0
  <2>1. k = 3
    <3>1. ASSUME k < 3 PROVE \A i \in 1..k : t.parts[i] = 0
      BY <1>3, <1>12, <3>1
    <3> QED
      BY <1>3, <1>8, <3>1
  <2>2. t.parts[1] = s[1] /\ t.parts[2] = s[2] /\ t.parts[3] = s[3]
    BY <1>3, <2>1
  <2>3. Keeps <=> r[1] = s[1] /\ r[2] = s[2] /\ r[3] = s[3]
    <3>1. \A i \in 1..3 : \A j \in 1..(i - 1) : t.parts[j] = 0
      BY <1>12, <2>2
    <3>2. Keeps <=> \A i \in 1..3 : r[i] = t.parts[i]
      BY <2>1, <3>1
    <3>3. 1..3 = {1, 2, 3}
      OBVIOUS
    <3> QED
      BY <2>2, <3>2, <3>3, Zenon
  <2>4. hi.release = <<s[1], s[2], s[3] + 1>>
    BY <1>7, <1>12
  <2> HIDE DEF Keeps
  <2> QED
    BY <1>5, <1>6, <1>9, <2>3, <2>4, Zenon DEF Raised
<1> QED
  BY <1>10, <1>11, <1>12

LEMMA TildeMeans ==
  ASSUME NEW v, IsVersion(v), IsStable(v), NEW t, t.prefix = "~",
         NEW n \in 1..3, t.parts \in [1..n -> Nat \cup {X}], ~MisreadToken(t)
  PROVE  Within(v, t) <=> NpmReads(v, t)
<1> DEFINE lo == Lower(t)
           k  == Written(t)
           r  == v.release
           s  == lo.release
<1>1. k # 0 /\ \A i \in (k + 1)..Len(t.parts) : t.parts[i] \in {X, 0}
  BY DEF MisreadToken
<1>2. lo = Floor(t)
  BY <1>1, LowerIsFloor
<1>3. /\ k \in 1..3 /\ s \in [1..3 -> Nat] /\ r \in [1..3 -> Nat]
      /\ s[1] = t.parts[1] /\ (k >= 2 => s[2] = t.parts[2])
  <2>1. /\ k \in 0..3 /\ s \in [1..3 -> Nat] /\ r \in [1..3 -> Nat]
        /\ \A i \in 1..3 : s[i] = IF i <= k THEN t.parts[i] ELSE 0
    BY <1>1, LowerIsFloor DEF IsVersion
  <2> HIDE DEF lo, k, r, s
  <2> QED
    BY <1>1, <2>1
<1>4. PICK hi : /\ ParseToken(t) = {Between(lo, hi)}
                /\ hi = IF k >= 2 THEN NextMinor(lo) ELSE NextMajor(lo)
  BY DEF ParseToken, TildeRange, Written
<1>5. Within(v, t) <=> ~Before(r, s) /\ Before(r, hi.release)
  BY <1>4, BetweenMeans
<1>6. NpmReads(v, t) <=> ~Before(r, s) /\ Agree(v, t, IF k < 2 THEN k ELSE 2)
  BY <1>2, StableOrder DEF NpmReads, AtLeast
<1>7. hi.release = IF k >= 2 THEN <<s[1], s[2] + 1, 0>> ELSE <<s[1] + 1, 0, 0>>
  BY <1>4, StepsUp
<1>8. /\ Agree(v, t, 1) <=> r[1] = s[1]
      /\ k >= 2 => (Agree(v, t, 2) <=> r[1] = s[1] /\ r[2] = s[2])
  BY <1>3, AgreeUpTo
<1>9. Raised(r, s)
  BY <1>3, RaisedBound
<1> HIDE DEF lo, k, r, s
<1>10. CASE k >= 2
  <2>1. hi.release = <<s[1], s[2] + 1, 0>> /\ (IF k < 2 THEN k ELSE 2) = 2
    BY <1>3, <1>7, <1>10
  <2> QED
    BY <1>5, <1>6, <1>8, <1>9, <1>10, <2>1, Zenon DEF Raised
<1>11. CASE ~(k >= 2)
  <2>1. hi.release = <<s[1] + 1, 0, 0>> /\ (IF k < 2 THEN k ELSE 2) = 1
    BY <1>3, <1>7, <1>11
  <2> QED
    BY <1>5, <1>6, <1>8, <1>9, <2>1, Zenon DEF Raised
<1> QED
  BY <1>10, <1>11


\* Named, for the SMT translation does not take the empty string.
IsPlain(t) == t.prefix \in {"", "="}

LEMMA Triples ==
  /\ \A a, b, c \in Nat : <<a, b, c>> \in [1..3 -> Nat]
  /\ \A r, s \in [1..3 -> Nat] : r = s <=> \A i \in 1..3 : r[i] = s[i]
<1>1. ASSUME NEW a \in Nat, NEW b \in Nat, NEW c \in Nat PROVE <<a, b, c>> \in [1..3 -> Nat]
  OBVIOUS
<1>2. ASSUME NEW r \in [1..3 -> Nat], NEW s \in [1..3 -> Nat]
      PROVE  r = s <=> \A i \in 1..3 : r[i] = s[i]
  OBVIOUS
<1> QED
  BY <1>1, <1>2, Zenon

LEMMA PlainParses ==
  ASSUME NEW t, IsPlain(t)
  PROVE  ParseToken(t) = IF Specified(t.parts) = 3 THEN {{Comparator("=", Lower(t))}}
                         ELSE IF t.parts[1] = X \/ ~IsStable(t) THEN {}
                         ELSE {XRange(t)}
<1>1. t.prefix # "^" /\ t.prefix # "~"
  BY Zenon DEF IsPlain
<1> QED
  BY <1>1, Zenon DEF ParseToken, IsPlain, IsStable

LEMMA PlainReads ==
  ASSUME NEW v, IsStable(v), NEW t, IsPlain(t)
  PROVE  NpmReads(v, t) <=> IsStable(t) /\ Agree(v, t, Written(t))
<1>1. t.prefix # "^" /\ t.prefix # "~" /\ t.prefix # ">" /\ t.prefix # ">=" /\ t.prefix # "<" /\ t.prefix # "<="
  BY Zenon DEF IsPlain
<1> DEFINE k == Written(t)
<1>2. NpmReads(v, t) <=> v.pre = t.pre /\ Agree(v, t, k)
  <2> HIDE DEF k
  <2> QED
    BY <1>1, Zenon DEF NpmReads, k
<1> HIDE DEF k
<1> QED
  BY <1>2, Zenon DEF IsStable, k

\* A bound on what is written as one or two components, the rest being zero,
\* is agreement with them.
LEMMA XRangeMeans ==
  ASSUME NEW v, IsVersion(v), IsStable(v), NEW t, IsPlain(t), IsStable(t),
         t.parts[1] \in Nat, NEW k \in 1..2, k = Specified(t.parts),
         k = 2 => t.parts[2] \in Nat
  PROVE  Within(v, t) <=> NpmReads(v, t)
<1> DEFINE second == IF k = 2 THEN t.parts[2] ELSE 0
           lo == V(t.parts[1], second, 0)
           hi == IF k = 2 THEN NextMinor(lo) ELSE NextMajor(lo)
           r  == v.release
           s  == lo.release
<1>1. ParseToken(t) = {Between(lo, hi)}
  <2>1. t.parts[1] # X
    BY DEF X
  <2>2. k # 3 /\ (k >= 2 <=> k = 2)
    OBVIOUS
  <2> QED
    BY <2>1, <2>2, PlainParses DEF XRange
<1>2. hi.release = IF k = 2 THEN <<s[1], s[2] + 1, 0>> ELSE <<s[1] + 1, 0, 0>>
  BY StepsUp
<1>3. NpmReads(v, t) <=> Agree(v, t, k)
  BY PlainReads DEF Written
<1>4. s = <<t.parts[1], second, 0>>
  BY DEF V
<1> HIDE DEF lo, hi, r
<1>5. Within(v, t) <=> ~Before(r, s) /\ Before(r, hi.release)
  BY <1>1, BetweenMeans DEF r
<1>6. second \in Nat
  OBVIOUS
<1> HIDE DEF second, s
<1>7. s[1] = t.parts[1] /\ s[2] = second /\ s[3] = 0 /\ s \in [1..3 -> Nat] /\ r \in [1..3 -> Nat]
  <2>1. s \in [1..3 -> Nat]
    BY <1>4, <1>6, Triples
  <2> QED
    BY <1>4, <2>1 DEF r, IsVersion
<1>8. Raised(r, s)
  BY <1>7, RaisedBound
<1>9. /\ Agree(v, t, 1) <=> r[1] = t.parts[1]
      /\ Agree(v, t, 2) <=> r[1] = t.parts[1] /\ r[2] = t.parts[2]
  BY AgreeUpTo DEF r
<1>10. r[1] \in Nat /\ r[2] \in Nat /\ r[3] \in Nat
  BY <1>7
<1>11. CASE k = 2
  <2>1. hi.release = <<s[1], s[2] + 1, 0>> /\ s[2] = t.parts[2]
    BY <1>2, <1>7, <1>11 DEF second
  <2>2. r[1] = s[1] /\ r[2] = s[2] => ~Before(r, s)
    BY <1>7, <1>10 DEF Before
  <2> QED
    BY <1>3, <1>5, <1>7, <1>8, <1>9, <1>11, <2>1, <2>2, Zenon DEF Raised
<1>12. CASE k = 1
  <2>1. hi.release = <<s[1] + 1, 0, 0>> /\ s[2] = 0
    BY <1>2, <1>7, <1>12 DEF second
  <2>2. r[1] = s[1] => ~Before(r, s)
    BY <1>7, <1>10, <2>1 DEF Before
  <2> QED
    BY <1>3, <1>5, <1>7, <1>8, <1>9, <1>12, <2>1, <2>2, Zenon DEF Raised
<1> QED
  BY <1>11, <1>12

\* Without a prefix: the version itself, or an x-range.
LEMMA PlainMeans ==
  ASSUME NEW v, IsVersion(v), IsStable(v), NEW t, IsPlain(t), ParseToken(t) # {},
         NEW n \in 1..3, t.parts \in [1..n -> Nat \cup {X}]
  PROVE  Within(v, t) <=> NpmReads(v, t)
<1> DEFINE k == Specified(t.parts)
<1>1. \A i \in 1..k : t.parts[i] \in Nat
  BY SpecifiedParts
<1>2. CASE k = 3
  <2> DEFINE lo == Lower(t)
             r  == v.release
             s  == lo.release
  <2>1. ParseToken(t) = {{Comparator("=", lo)}}
    BY <1>2, PlainParses
  <2>2. Within(v, t) <=> v = lo
    <3>1. UNION ParseToken(t) = {Comparator("=", lo)}
      BY <2>1
    <3>2. Within(v, t) <=> Matches(v, Comparator("=", lo))
      BY <3>1, Zenon DEF Within
    <3> QED
      BY <3>2, ComparatorsMatch, Zenon
  <2>3. lo.pre = t.pre /\ s \in [1..3 -> Nat] /\ \A i \in 1..3 : s[i] = t.parts[i]
    BY <1>2, LowerParts
  <2>4. v = lo <=> v.pre = lo.pre /\ r = s
    BY DEF IsVersion, Lower
  <2>5. r \in [1..3 -> Nat]
    BY DEF IsVersion
  <2>6. r = s <=> \A i \in 1..3 : r[i] = s[i]
    <3> HIDE DEF r, s
    <3> QED
      BY <2>3, <2>5, Triples
  <2>7. Agree(v, t, 3) <=> \A i \in 1..3 : r[i] = t.parts[i]
    BY DEF Agree
  <2>8. NpmReads(v, t) <=> IsStable(t) /\ Agree(v, t, 3)
    BY <1>2, PlainReads DEF Written
  <2> HIDE DEF lo, r, s, k
  <2>9. Agree(v, t, 3) <=> r = s
    BY <2>3, <2>6, <2>7
  <2> QED
    BY <2>2, <2>3, <2>4, <2>8, <2>9, Zenon DEF IsStable
<1>3. CASE k # 3
  <2>1. t.parts[1] # X /\ IsStable(t)
    BY <1>3, PlainParses
  <2>2. k \in 1..n
    BY <2>1, SpecifiedFirst
  <2> HIDE DEF k
  <2>3. k \in 1..2 /\ t.parts[1] \in Nat /\ (k = 2 => t.parts[2] \in Nat)
    BY <1>1, <1>3, <2>2
  <2> QED
    BY <2>1, <2>3, XRangeMeans DEF k
<1> QED
  BY <1>2, <1>3

\* normalisePartial takes no wildcards, so it gives the floor.
LEMMA NormalisedFloor ==
  ASSUME NEW t, NEW n \in 1..3, t.parts \in [1..n -> Nat \cup {X}], Normalised(t) # {}
  PROVE  /\ Normalised(t) = {Floor(t)} /\ Lower(t) = Floor(t)
         /\ Written(t) = n /\ Len(t.parts) = n /\ Floor(t).release \in [1..3 -> Nat]
         /\ \A i \in 1..3 : Floor(t).release[i] = IF i <= n THEN t.parts[i] ELSE 0
<1>1. /\ Len(t.parts) = n /\ Written(t) \in 0..n
      /\ Written(t) < n => t.parts[Written(t) + 1] = X
  BY SpecifiedParts DEF Written
<1>2. Normalised(t) = {Lower(t)} /\ ~(\E i \in 1..n : t.parts[i] = X)
  BY <1>1 DEF Normalised
<1> DEFINE k == Written(t)
<1> HIDE DEF k
<1>3. k = n
  <2>1. k \in 0..n /\ (k < n => t.parts[k + 1] = X)
    BY <1>1 DEF k
  <2>2. k < n => k + 1 \in 1..n
    BY <2>1
  <2> QED
    BY <1>2, <2>1, <2>2
<1>4. \A i \in (k + 1)..Len(t.parts) : t.parts[i] \in {X, 0}
  BY <1>1, <1>3
<1>5. /\ Lower(t) = Floor(t) /\ Lower(t).release \in [1..3 -> Nat]
      /\ \A i \in 1..3 : Lower(t).release[i] = IF i <= k THEN t.parts[i] ELSE 0
  BY <1>4, LowerIsFloor DEF k
<1> QED
  BY <1>1, <1>2, <1>3, <1>5, Zenon DEF k

Compares(t) == t.prefix \in {">", ">=", "<", "<="}

LEMMA ComparatorMeans ==
  ASSUME NEW v, NEW t, Compares(t), ParseToken(t) # {}, ~MisreadToken(t),
         NEW n \in 1..3, t.parts \in [1..n -> Nat \cup {X}]
  PROVE  Within(v, t) <=> NpmReads(v, t)
<1>1. ParseToken(t) = {{Comparator(t.prefix, w)} : w \in Normalised(t)}
  <2>1. t.prefix # "^" /\ t.prefix # "~" /\ t.prefix # "=" /\ t.prefix # ""
    BY Zenon DEF Compares
  <2> QED
    BY <2>1, Zenon DEF ParseToken
<1> DEFINE lo == Floor(t)
<1>2. Normalised(t) = {lo} /\ Written(t) = n
  <2>1. Normalised(t) # {}
    BY <1>1
  <2> QED
    BY <2>1, NormalisedFloor
<1>3. t.prefix = ">" \/ t.prefix = "<=" => n = 3
  <2>1. t.prefix = ">" \/ t.prefix = "<=" => ~(n < 3)
    BY <1>2 DEF MisreadToken
  <2> QED
    BY <2>1
<1> HIDE DEF lo
<1>4. UNION ParseToken(t) = {Comparator(t.prefix, lo)}
  BY <1>1, <1>2
<1>5. Within(v, t) <=> Matches(v, Comparator(t.prefix, lo))
  BY <1>4, Zenon DEF Within
<1>6. CASE t.prefix = ">"
  BY <1>2, <1>3, <1>5, <1>6, ComparatorsMatch DEF NpmReads, lo
<1>7. CASE t.prefix = ">="
  BY <1>5, <1>7, ComparatorsMatch DEF NpmReads, lo
<1>8. CASE t.prefix = "<"
  BY <1>5, <1>8, ComparatorsMatch DEF NpmReads, lo
<1>9. CASE t.prefix = "<="
  BY <1>2, <1>3, <1>5, <1>9, ComparatorsMatch DEF NpmReads, lo
<1> QED
  BY <1>6, <1>7, <1>8, <1>9 DEF Compares

\* What parseToken makes of one token, where it makes something of it and the
\* token is not one of those it misreads, is what npm reads in it.
LEMMA TokenMeans ==
  ASSUME NEW v, IsVersion(v), IsStable(v), NEW t, IsToken(t), ParseToken(t) # {}, ~MisreadToken(t)
  PROVE  Within(v, t) <=> NpmReads(v, t)
<1>1. PICK n \in 1..3 : t.parts \in [1..n -> Nat \cup {X}]
  BY DEF IsToken
<1>2. t.prefix = "^" \/ t.prefix = "~" \/ IsPlain(t) \/ Compares(t)
  BY Zenon DEF IsToken, IsPlain, Compares
<1>3. CASE t.prefix = "^"
  BY <1>1, <1>3, CaretMeans
<1>4. CASE t.prefix = "~"
  BY <1>1, <1>4, TildeMeans
<1>5. CASE IsPlain(t)
  BY <1>1, <1>5, PlainMeans
<1>6. CASE Compares(t)
  BY <1>1, <1>6, ComparatorMeans
<1> QED
  BY <1>2, <1>3, <1>4, <1>5, <1>6

-----------------------------------------------------------------------------
(* Ranges: alternatives of hyphen ranges and conjunctions *)

\* An upper bound that is not complete lets everything through that agrees.
LEMMA UpperBound ==
  ASSUME NEW v, IsVersion(v), IsStable(v), NEW t, IsToken(t), Normalised(t) # {}, t.prefix = "<="
  PROVE  NpmReads(v, t) <=>
           IF Len(t.parts) = 3 THEN AtLeast(Lower(t), v)
           ELSE Precedes(v, IF Len(t.parts) = 2 THEN NextMinor(Lower(t)) ELSE NextMajor(Lower(t)))
<1>1. PICK n \in 1..3 : t.parts \in [1..n -> Nat \cup {X}]
  BY DEF IsToken
<1> DEFINE lo == Floor(t)
           r  == v.release
           s  == lo.release
<1>2. /\ Lower(t) = lo /\ Written(t) = n /\ Len(t.parts) = n /\ s \in [1..3 -> Nat]
      /\ \A i \in 1..3 : s[i] = IF i <= n THEN t.parts[i] ELSE 0
  BY <1>1, NormalisedFloor
<1>3. NpmReads(v, t) <=> AtLeast(lo, v) \/ (n < 3 /\ Agree(v, t, n))
  BY <1>2 DEF NpmReads
<1>4. CASE n = 3
  BY <1>2, <1>3, <1>4
<1>5. CASE n # 3
  <2>1. IsStable(lo)
    <3>1. Specified(t.parts) = n
      BY <1>2 DEF Written
    <3>2. t.pre = <<>>
      BY <1>5, <3>1 DEF IsToken
    <3> QED
      BY <3>2 DEF IsStable, Floor
  <2>2. AtLeast(lo, v) <=> ~Before(s, r)
    BY <2>1, StableOrder DEF AtLeast
  <2>3. r \in [1..3 -> Nat]
    BY DEF IsVersion
  <2>4. /\ Precedes(v, NextMinor(lo)) <=> Before(r, <<s[1], s[2] + 1, 0>>)
        /\ Precedes(v, NextMajor(lo)) <=> Before(r, <<s[1] + 1, 0, 0>>)
    BY StableOrder, StepsUp
  <2>5. /\ Agree(v, t, 1) <=> r[1] = t.parts[1]
        /\ Agree(v, t, 2) <=> r[1] = t.parts[1] /\ r[2] = t.parts[2]
    BY AgreeUpTo
  <2> HIDE DEF lo, r, s
  <2>6. s[1] = t.parts[1] /\ s[3] = 0 /\ (n = 2 => s[2] = t.parts[2]) /\ (n = 1 => s[2] = 0)
    BY <1>2, <1>5
  <2>7. /\ s[2] = 0 => (Before(r, <<s[1] + 1, 0, 0>>) <=> ~Before(s, r) \/ r[1] = s[1])
        /\ Before(r, <<s[1], s[2] + 1, 0>>) <=> ~Before(s, r) \/ (r[1] = s[1] /\ r[2] = s[2])
    BY <1>2, <2>3, <2>6, RaisedAlone
  <2>8. CASE n = 2
    <3>1. NpmReads(v, t) <=> ~Before(s, r) \/ (r[1] = s[1] /\ r[2] = s[2])
      BY <1>3, <2>2, <2>5, <2>6, <2>8
    <3> QED
      BY <1>2, <2>4, <2>7, <2>8, <3>1
  <2>9. CASE n = 1
    <3>1. NpmReads(v, t) <=> ~Before(s, r) \/ r[1] = s[1]
      BY <1>3, <2>2, <2>5, <2>6, <2>9
    <3> QED
      BY <1>2, <2>4, <2>6, <2>7, <2>9, <3>1
  <2> QED
    BY <1>5, <2>8, <2>9
<1> QED
  BY <1>4, <1>5

\* An alternative that parses to one conjunction, and what that admits.
ParsesTo(alt, S) == ParseComparatorSet(alt) = {S}
AllMatch(v, S) == \A c \in S : Matches(v, c)

Reprefixed(t, p) == [t EXCEPT !.prefix = p]

LEMMA ReprefixedParts ==
  ASSUME NEW t, NEW p, IsToken(t)
  PROVE  /\ Reprefixed(t, p).prefix = p
         /\ Reprefixed(t, p).parts = t.parts /\ Reprefixed(t, p).pre = t.pre
         /\ Reprefixed(t, p) = [prefix |-> p, parts |-> t.parts, pre |-> t.pre]
<1>1. t = [prefix |-> t.prefix, parts |-> t.parts, pre |-> t.pre]
  BY DEF IsToken
<1>2. PICK a, b, c : t = [prefix |-> a, parts |-> b, pre |-> c]
  BY <1>1
<1> QED
  BY <1>2 DEF Reprefixed

LEMMA HyphenMeans ==
  ASSUME NEW v, IsVersion(v), IsStable(v), NEW alt, DOMAIN alt = {"from", "to"},
         IsToken(alt.from), IsToken(alt.to), ParseComparatorSet(alt) # {}
  PROVE  \E S : ParsesTo(alt, S) /\ (AllMatch(v, S) <=> NpmTakes(v, alt))
<1> DEFINE from == alt.from
           to   == alt.to
           u    == Reprefixed(from, ">=")
           w    == Reprefixed(to, "<=")
           hi   == IF Len(to.parts) = 2 THEN NextMinor(Lower(to)) ELSE NextMajor(Lower(to))
           S    == IF Len(to.parts) = 3
                   THEN {Comparator(">=", Lower(from)), Comparator("<=", Lower(to))}
                   ELSE Between(Lower(from), hi)
<1>1. ParseComparatorSet(alt) = ParseHyphenRange(from, to)
  BY DEF ParseComparatorSet
<1>2. Normalised(to) # {} /\ Normalised(from) # {}
  BY <1>1 DEF ParseHyphenRange
<1>3. Normalised(from) = {Lower(from)} /\ Lower(from) = Floor(from)
  BY <1>2, NormalisedFloor DEF IsToken
<1>4. ParsesTo(alt, S)
  BY <1>1, <1>2, <1>3 DEF ParseHyphenRange, ParsesTo
<1>5. /\ u.prefix = ">=" /\ u.parts = from.parts /\ u.pre = from.pre
      /\ w.prefix = "<=" /\ w.parts = to.parts /\ w.pre = to.pre
      /\ w = [prefix |-> "<=", parts |-> to.parts, pre |-> to.pre]
  BY ReprefixedParts
<1>6. NpmTakes(v, alt) <=> NpmReads(v, u) /\ NpmReads(v, w)
  BY DEF NpmTakes, Reprefixed
<1> HIDE DEF u, w
<1>7. NpmReads(v, u) <=> Matches(v, Comparator(">=", Lower(from)))
  <2>1. Floor(u) = Floor(from)
    BY <1>5 DEF Floor, Written
  <2> QED
    BY <1>3, <1>5, <2>1, ComparatorsMatch DEF NpmReads
<1>8. IsToken(w) /\ Normalised(w) = Normalised(to) /\ Lower(w) = Lower(to)
  BY <1>5 DEF IsToken, Normalised, Lower
<1>9. NpmReads(v, w) <=> IF Len(to.parts) = 3 THEN AtLeast(Lower(to), v) ELSE Precedes(v, hi)
  BY <1>2, <1>5, <1>8, UpperBound
<1>10. CASE Len(to.parts) = 3
  <2>1. S = {Comparator(">=", Lower(from)), Comparator("<=", Lower(to))}
    BY <1>10
  <2> HIDE DEF S
  <2>2. AllMatch(v, S) <=> Matches(v, Comparator(">=", Lower(from))) /\ Matches(v, Comparator("<=", Lower(to)))
    BY <2>1, Zenon DEF AllMatch
  <2>3. AllMatch(v, S) <=> NpmTakes(v, alt)
    BY <1>6, <1>7, <1>9, <1>10, <2>2, ComparatorsMatch
  <2> QED
    BY <1>4, <2>3
<1>11. CASE Len(to.parts) # 3
  <2>1. S = {Comparator(">=", Lower(from)), Comparator("<", hi)}
    BY <1>11 DEF Between
  <2> HIDE DEF S
  <2>2. AllMatch(v, S) <=> Matches(v, Comparator(">=", Lower(from))) /\ Matches(v, Comparator("<", hi))
    BY <2>1, Zenon DEF AllMatch
  <2>3. AllMatch(v, S) <=> NpmTakes(v, alt)
    BY <1>6, <1>7, <1>9, <1>11, <2>2, ComparatorsMatch
  <2> QED
    BY <1>4, <2>3
<1> QED
  BY <1>10, <1>11

\* A conjunction admits what every one of its tokens does.
LEMMA WordsMean ==
  ASSUME NEW v, IsVersion(v), IsStable(v), NEW alt, DOMAIN alt = {"tokens"},
         \A t \in alt.tokens : IsToken(t) /\ ~MisreadToken(t), ParseComparatorSet(alt) # {}
  PROVE  \E S : ParsesTo(alt, S) /\ (AllMatch(v, S) <=> NpmTakes(v, alt))
<1> DEFINE S == UNION {UNION ParseToken(t) : t \in alt.tokens}
<1>0. "any" \notin DOMAIN alt /\ "tokens" \in DOMAIN alt
  BY Zenon
<1>1. ParseComparatorSet(alt) = IF \E t \in alt.tokens : ParseToken(t) = {} THEN {} ELSE {S}
  BY <1>0, Zenon DEF ParseComparatorSet
<1>2. \A t \in alt.tokens : ParseToken(t) # {}
  BY <1>1
<1>3. ParsesTo(alt, S)
  BY <1>1, <1>2, Zenon DEF ParsesTo
<1>4. AllMatch(v, S) <=> \A t \in alt.tokens : Within(v, t)
  BY Zenon DEF AllMatch, Within
<1>5. \A t \in alt.tokens : Within(v, t) <=> NpmReads(v, t)
  BY <1>2, TokenMeans
<1>6. NpmTakes(v, alt) <=> \A t \in alt.tokens : NpmReads(v, t)
  BY <1>0, Zenon DEF NpmTakes
<1> QED
  BY <1>3, <1>4, <1>5, <1>6, Zenon

LEMMA AnythingMeans ==
  ASSUME NEW v, IsVersion(v), IsStable(v), NEW alt, DOMAIN alt = {"any"}
  PROVE  \E S : ParsesTo(alt, S) /\ (AllMatch(v, S) <=> NpmTakes(v, alt))
<1> DEFINE S == {Comparator(">=", V(0, 0, 0))}
<1>1. ParsesTo(alt, S) /\ NpmTakes(v, alt)
  BY DEF ParseComparatorSet, ParsesTo, NpmTakes
<1>2. AllMatch(v, S)
  <2>1. v.release[1] \in Nat /\ v.release[2] \in Nat /\ v.release[3] \in Nat
    BY DEF IsVersion
  <2>2. ~Before(v.release, V(0, 0, 0).release)
    BY <2>1 DEF V, Before
  <2> QED
    BY <2>2, ComparatorsMatch, StableOrder DEF AllMatch, AtLeast
<1> QED
  BY <1>1, <1>2

\* A declaration that is parsed, and of which no token is misread.
LEMMA RangeMeans ==
  ASSUME NEW v, IsVersion(v), IsStable(v), NEW range \in Ranges, Parsed(range) # {}, ~Misread(range)
  PROVE  Admits(range, v) <=> NpmAdmits(range, v)
<1> DEFINE Chosen(alt) == CHOOSE c \in ParseComparatorSet(alt) : TRUE
<1>1. ASSUME NEW alt \in range PROVE AllMatch(v, Chosen(alt)) <=> NpmTakes(v, alt)
  <2>1. ParseComparatorSet(alt) # {}
    BY Zenon DEF Parsed
  <2>2. \/ DOMAIN alt = {"any"}
        \/ DOMAIN alt = {"tokens"} /\ \A t \in alt.tokens : IsToken(t)
        \/ DOMAIN alt = {"from", "to"} /\ IsToken(alt.from) /\ IsToken(alt.to)
    BY RangeAssumption, Zenon
  <2>3. \E S : ParsesTo(alt, S) /\ (AllMatch(v, S) <=> NpmTakes(v, alt))
    <3>1. CASE DOMAIN alt = {"any"}
      BY <3>1, AnythingMeans, Zenon
    <3>2. CASE DOMAIN alt = {"tokens"} /\ \A t \in alt.tokens : IsToken(t)
      <4>1. \A t \in alt.tokens : IsToken(t) /\ ~MisreadToken(t)
        BY <3>2, Zenon DEF Misread
      <4> QED
        BY <2>1, <3>2, <4>1, WordsMean, Zenon
    <3>3. CASE DOMAIN alt = {"from", "to"} /\ IsToken(alt.from) /\ IsToken(alt.to)
      BY <2>1, <3>3, HyphenMeans, Zenon
    <3> QED
      BY <2>2, <3>1, <3>2, <3>3, Zenon
  <2>4. PICK S : ParsesTo(alt, S) /\ (AllMatch(v, S) <=> NpmTakes(v, alt))
    BY <2>3, Zenon
  <2>5. Chosen(alt) = S
    BY <2>4 DEF ParsesTo
  <2> QED
    BY <2>4, <2>5, Zenon
<1>2. Parsed(range) = {{Chosen(alt) : alt \in range}}
  BY Zenon DEF Parsed
<1> HIDE DEF Chosen
<1>3. Admits(range, v) <=> Satisfies(v, {Chosen(alt) : alt \in range})
  BY <1>2, Zenon DEF Admits
<1>4. Satisfies(v, {Chosen(alt) : alt \in range}) <=> \E alt \in range : AllMatch(v, Chosen(alt))
  BY Zenon DEF Satisfies, AllMatch
<1> QED
  BY <1>1, <1>3, <1>4, Zenon DEF NpmAdmits

\* What a declaration declares is one of the ranges, and one field says it.
LEMMA DeclaredRange ==
  ASSUME ConsumersTypeOK, NEW d \in Declared(manifest)
  PROVE  d.range \in Ranges
<1>1. PICK i \in DOMAIN Fields : d = [range |-> manifest[Fields[i]].range, kind |-> Fields[i]]
                                 /\ manifest[Fields[i]].says = "a range"
  <2>1. PICK i \in {i \in Declaring(manifest) : \A j \in Declaring(manifest) : i <= j} :
           d = [range |-> manifest[Fields[i]].range, kind |-> Fields[i]]
    BY Zenon DEF Declared
  <2> QED
    BY <2>1, Zenon DEF Declaring
<1>2. manifest[Fields[i]] \in {Silent, Garbled} \cup {Says(r) : r \in Ranges}
  <2>1. Fields[i] \in FieldNames
    BY DEF FieldNames
  <2> QED
    BY <2>1 DEF ConsumersTypeOK
<1>3. manifest[Fields[i]] # Silent /\ manifest[Fields[i]] # Garbled
  <2>1. Silent.says # "a range" /\ Garbled.says # "a range"
    BY DEF Silent, Garbled
  <2> QED
    BY <1>1, <2>1, Zenon
<1>4. PICK r \in Ranges : manifest[Fields[i]] = Says(r)
  BY <1>2, <1>3, Zenon
<1>5. Says(r).range = r /\ d.range = manifest[Fields[i]].range
  BY <1>1 DEF Says
<1> QED
  BY <1>4, <1>5, Zenon

LEMMA DeclarationMeans ==
  ASSUME ConsumersTypeOK, NEW d \in Declared(manifest), NEW v \in published,
         IsStable(v), Parsed(d.range) # {}, ~Misread(d.range)
  PROVE  Admits(d.range, v) <=> NpmAdmits(d.range, v)
<1>1. IsVersion(v)
  BY ConsumerAssumption DEF ConsumersTypeOK, IsVersion
<1>2. d.range \in Ranges
  BY DeclaredRange
<1> QED
  BY <1>1, <1>2, RangeMeans

\* Whatever a maintainer declares and the registry offers: of every declaration
\* that range.ts parses and does not misread, the parsed range admits exactly
\* the stable versions that npm's own reading admits
\* (src/detect/range.ts:28).
THEOREM RangesMeanTheirNotation == ConsumersSpec => []RangesMeanWhatTheySay
<1>1. ConsumersTypeOK => RangesMeanWhatTheySay
  BY DeclarationMeans DEF RangesMeanWhatTheySay
<1> QED
  BY <1>1, ConsumersTypeCorrect, PTL

-----------------------------------------------------------------------------
(* Consumers: the impact and the next install, which reads the declaration  *)
(* by npm's rules, never by those of range.ts                               *)

Takes(v) == \E d \in Declared(manifest) : NpmAdmits(d.range, v)

\* Where nothing is misread, what range.ts permits is what npm takes.
LEMMA PermittedIsTaken ==
  ASSUME ConsumersTypeOK, ~Unreadable(manifest),
         \A d \in Declared(manifest) : ~Misread(d.range), NEW v \in published, IsStable(v)
  PROVE  Permits(manifest, v) <=> Takes(v)
<1>1. \A d \in Declared(manifest) : Admits(d.range, v) <=> NpmAdmits(d.range, v)
  BY DeclarationMeans DEF Unreadable
<1> QED
  BY <1>1, Zenon DEF Permits, Takes

LEMMA PredictionComesTrue ==
  ASSUME ConsumersIInv, ConsumersNext, lock' # lock, NEW to \in To,
         \A d \in Declared(manifest) : ~Misread(d.range)
  PROVE  ComesTrue(to)
<1> DEFINE impact == Impact(manifest, lock, From, to)
<1>1. Resolution # {} /\ lock'.top = Resolution
  BY DEF ConsumersNext, Release, Declare, Install
<1>2. to \in published /\ IsStable(to) /\ IsStable(From) /\ ConsumersTypeOK
  BY ConsumerAssumption DEF To, LatestStable, Latest, ConsumersIInv
<1>3. CASE impact = "current"
  <2>1. IsCurrent(lock, to)
    BY <1>3 DEF Impact
  <2>2. \E v \in lock.top : AtLeast(v, to)
    BY <2>1, LockedIsInstalled DEF IsCurrent
  <2> QED
    BY <1>3, <2>2 DEF ComesTrue
<1>4. CASE impact = "exposed"
  <2>1. Permits(manifest, to) /\ ~Unreadable(manifest)
    BY <1>4 DEF Impact
  <2>2. Takes(to)
    BY <1>2, <2>1, PermittedIsTaken
  <2>3. \E v \in lock'.top : AtLeast(v, to)
    BY <1>1, <1>2, <2>2, Resolved DEF Takes
  <2> QED
    BY <1>4, <2>3 DEF ComesTrue
<1>5. CASE impact = "stranded"
  <2>1. ~Permits(manifest, to) /\ ~Unreadable(manifest)
    BY <1>5 DEF Impact
  <2>2. ~Takes(to)
    BY <1>2, <2>1, PermittedIsTaken
  <2>3. to \notin lock'.top
    BY <1>1, <2>2, Resolved DEF Takes
  <2> QED
    BY <1>5, <2>3 DEF ComesTrue
<1>6. CASE impact = "unrelated"
  <2>1. Declared(manifest) # {}
    BY <1>1, Resolved DEF Takes
  <2>2. ~Permits(manifest, to) /\ ~Permits(manifest, From) /\ ~Unreadable(manifest)
    BY <1>6, <2>1 DEF Impact
  <2>3. ~Takes(to) /\ (From \in published => ~Takes(From))
    BY <1>2, <2>2, PermittedIsTaken
  <2>4. lock'.top \cap {From, to} = {}
    BY <1>1, <2>3, Resolved DEF Takes
  <2> QED
    BY <1>6, <2>4 DEF ComesTrue
<1>7. impact \in {"current", "exposed", "stranded"} \/ impact = "unrelated" \/ impact = "unknown"
  BY DEF Impact
<1>8. CASE impact = "unknown"
  BY <1>8 DEF ComesTrue
<1> QED
  BY <1>3, <1>4, <1>5, <1>6, <1>7, <1>8

\* For every package, registry and declaration that range.ts does not misread:
\* what the impact says of a repository is what its next install does, npm
\* reading the declaration (src/discover/affected.ts:33).
THEOREM PredictionsComeTrue == ConsumersSpec => ImpactComesTrue
<1>1. ASSUME ConsumersIInv, [ConsumersNext]_consumerVars
      PROVE  [\A to \in To : (\A d \in Declared(manifest) : ~Misread(d.range)) => ComesTrue(to)]_consumerVars
  <2>1. CASE lock' = lock
    BY <2>1 DEF ComesTrue
  <2>2. CASE lock' # lock
    <3>1. ConsumersNext
      BY <1>1, <2>2 DEF consumerVars
    <3> QED
      BY <1>1, <2>2, <3>1, PredictionComesTrue
  <2> QED
    BY <2>1, <2>2
<1> QED
  BY <1>1, ConsumersInvariantHolds, PTL DEF ConsumersSpec, ImpactComesTrue

-----------------------------------------------------------------------------
(* The platform: each of its parts with the others at rest                  *)

\* The customers that are in place at the start satisfy the invariant of the
\* accounts, although no step of Billing brought them there.

LEMMA BoughtRecord ==
  \A s \in Subscriptions :
    /\ Bought(s) \in StripeRecords
    /\ Bought(s).status = "active" /\ Bought(s).version = 1 /\ Bought(s).plan = "starter"
<1>1. 1 \in 0..MaxVersions /\ 0 \in 0..MaxVersions
  BY NamesApart
<1> QED
  BY <1>1, StarterIsSold DEF Bought, Unsold, StripeRecords, Statuses, PlanNames

LEMMA EventsOfOne == \A s \in Subscriptions : EventsOf(s) \subseteq Events
<1> SUFFICES ASSUME NEW s \in Subscriptions, NEW e \in EventsOf(s) PROVE e \in Events
  OBVIOUS
<1>1. 1 \in 1..MaxVersions
  BY NamesApart
<1>2. /\ e \in [sub : {s}, n : {1}, kind : {"checkout", "subscription"}, status : {"active"}, plan : {"starter"}]
  BY DEF EventsOf
<1>3. e \in [sub : Subscriptions, n : 1..MaxVersions, kind : {"checkout", "subscription"},
             status : {"active", "past_due", "canceled"}, plan : DOMAIN Plans]
  BY <1>1, <1>2, StarterIsSold
<1>4. e.n = 1 /\ e.status = "active"
  BY <1>2
<1> QED
  BY <1>3, <1>4 DEF Events

\* Who paid for a tenant, when someone did.
Payer(t) == CHOOSE s \in Paid(t) : TRUE

LEMMA PaidBySome ==
  ASSUME NEW t \in Tenants, Paid(t) # {}
  PROVE  Payer(t) \in Subscriptions /\ t = SlugFor(TRUE, CustomerOf[Payer(t)]) /\ t[1] = CustomerOf[Payer(t)]
<1>1. Payer(t) \in Paid(t)
  BY DEF Payer
<1>2. Payer(t) \in Subscriptions /\ t = SlugFor(TRUE, CustomerOf[Payer(t)])
  BY <1>1 DEF Paid
<1>3. SlugFor(TRUE, CustomerOf[Payer(t)])[1] = CustomerOf[Payer(t)]
  BY DEF SlugFor
<1> QED
  BY <1>2, <1>3

LEMMA BilledInitially == BilledInit => BillingIInv
<1> SUFFICES ASSUME BilledInit PROVE BillingIInv
  OBVIOUS
<1>1. AtStripeOK
  <2>1. stripe = [s \in Subscriptions |-> Bought(s)]
    BY DEF BilledInit
  <2>2. \A s \in Subscriptions : stripe[s].status = "active" /\ stripe[s].version = 1 /\ stripe[s].plan = "starter"
    BY <2>1, BoughtRecord
  <2> QED
    BY <2>1, <2>2, BoughtRecord, StarterIsSold DEF AtStripeOK, StripeOK
<1>2. EventsOK /\ HandlingsOK
  BY EventsOfOne DEF BilledInit, EventsOK, HandlingsOK, OneHandler
<1>3. ProvidersOK
  <2>1. provider = [t \in Tenants |-> [exists |-> Paid(t) # {}, ref |-> IF Paid(t) = {} THEN NoRef ELSE Payer(t)]]
    BY DEF BilledInit, Payer
  <2>2. \A t \in Tenants : Paid(t) # {} => Payer(t) \in Subscriptions /\ t[1] = CustomerOf[Payer(t)]
    BY PaidBySome
  <2>3. \A t \in Tenants : provider[t] \in ProviderRows
    BY <2>1, <2>2 DEF ProviderRows
  <2>4. \A t \in Tenants : provider[t].ref # NoRef => t[1] = CustomerOf[provider[t].ref]
    BY <2>1, <2>2
  <2> QED
    BY <2>1, <2>3, <2>4 DEF ProvidersOK
<1>4. SubscriptionsOK
  <2>1. subscription = [t \in Tenants |-> IF Paid(t) = {} THEN NoSubscription
          ELSE [sub |-> Payer(t), status |-> "active", plan |-> "starter", dated |-> TRUE]]
    BY DEF BilledInit, Payer
  <2>2. \A t \in Tenants : Paid(t) # {} =>
          Payer(t) \in Subscriptions /\ t = SlugFor(TRUE, CustomerOf[Payer(t)]) /\ t[1] = CustomerOf[Payer(t)]
    BY PaidBySome
  <2>3. NoSubscription \in SubscriptionRows /\ NoSubscription.sub = "none"
    BY DEF NoSubscription, SubscriptionRows, Statuses, PlanNames
  <2>4. \A t \in Tenants : subscription[t] \in SubscriptionRows
    BY <2>1, <2>2, <2>3, StarterIsSold DEF SubscriptionRows, Statuses, PlanNames
  <2>5. \A t \in Tenants : subscription[t].sub # "none" =>
          t = SlugFor(TRUE, CustomerOf[subscription[t].sub]) /\ t[1] = CustomerOf[subscription[t].sub]
    BY <2>1, <2>2, <2>3
  <2>6. OneTenantPerSubscription
    BY <2>5 DEF OneTenantPerSubscription
  <2> QED
    BY <2>1, <2>4, <2>5, <2>6 DEF SubscriptionsOK
<1>5. ExistingOK
  BY DEF BilledInit, ExistingOK
<1>6. mishaps = 0
  BY DEF BilledInit
<1>7. mishaps \in 0..MaxMishaps
  BY <1>6, NamesApart
<1> QED
  BY <1>1, <1>2, <1>3, <1>4, <1>5, <1>7, BillingInParts

LEMMA EnrolmentGoesOn ==
  ASSUME TenancyIInv, EnrolmentNext \/ UNCHANGED accountVars
  PROVE  TenancyIInv'
<1>1. [TenancyNext]_tenancyVars
  BY DEF TenancyNext, tenancyVars, accountVars
<1> QED
  BY <1>1, TenancyPreserved

\* Change detection, consumers, accounts and the brakes on writes keep to their
\* types, whichever of them moves and whoever is a customer when they start.
THEOREM PlatformTypeCorrect == MCSpec => []PlatformTypeOK
<1> DEFINE All == DetectionIInv /\ ConsumersIInv /\ TenancyIInv
                 /\ OutboundIInv /\ LimiterIInv /\ ChainIInv
<1>1. MCInit => All
  BY DetectionStarts, ConsumersStart, BilledInitially, EnrolmentInitially,
     OutboundInitHolds, LimiterInitHolds, ChainInitHolds
  DEF MCInit, TenancyIInv
<1>2. All /\ [MCNext]_<<detectionVars, consumerVars, accountVars, controlVars, focus>> => All'
  <2> SUFFICES ASSUME All, [MCNext]_<<detectionVars, consumerVars, accountVars, controlVars, focus>> PROVE All'
    OBVIOUS
  <2>1. /\ [DetectionNext]_detectionVars /\ [ConsumersNext]_consumerVars
        /\ EnrolmentNext \/ UNCHANGED accountVars
        /\ [OutboundNext]_outboundVars /\ [LimiterNext]_limiterVars /\ [ChainNext]_chainVars
    BY DEF MCNext, ControlNext, controlVars
  <2> QED
    BY <2>1, DetectionStep, ConsumersStep, EnrolmentGoesOn,
       OutboundStepKeeps, LimiterStepKeeps, ChainStepKeeps
<1>3. All => PlatformTypeOK
  BY DEF PlatformTypeOK, DetectionIInv, ConsumersIInv, TenancyIInv, EnrolmentIInv, OutboundIInv,
         LimiterIInv, ChainIInv
<1> QED
  BY <1>1, <1>2, <1>3, PTL DEF MCSpec

-----------------------------------------------------------------------------
(* Precedence of versions: a strict total order, so that the highest of     *)
(* finitely many versions is one version.                                   *)

Identifiers == {0, 1} \X Nat
SemVers == [release : [1..3 -> Nat], pre : Seq(Identifiers)]

LEMMA ReleasesOrdered ==
  ASSUME NEW r \in [1..3 -> Nat], NEW s \in [1..3 -> Nat], NEW t \in [1..3 -> Nat]
  PROVE  /\ ~ReleasePrecedes(r, r)
         /\ r = s \/ ReleasePrecedes(r, s) \/ ReleasePrecedes(s, r)
         /\ ReleasePrecedes(r, s) /\ ReleasePrecedes(s, t) => ReleasePrecedes(r, t)
<1>1. ASSUME NEW x \in [1..3 -> Nat], NEW y \in [1..3 -> Nat]
      PROVE  ReleasePrecedes(x, y) <=>
               \/ x[1] < y[1]
               \/ x[1] = y[1] /\ x[2] < y[2]
               \/ x[1] = y[1] /\ x[2] = y[2] /\ x[3] < y[3]
  BY DEF ReleasePrecedes
<1>2. r[1] \in Nat /\ r[2] \in Nat /\ r[3] \in Nat /\ s[1] \in Nat /\ s[2] \in Nat /\ s[3] \in Nat
      /\ t[1] \in Nat /\ t[2] \in Nat /\ t[3] \in Nat
  OBVIOUS
<1>3. r[1] = s[1] /\ r[2] = s[2] /\ r[3] = s[3] => r = s
  <2>1. 1..3 = {1, 2, 3}
    OBVIOUS
  <2> QED
    BY <2>1
<1>4. ~ReleasePrecedes(r, r)
  BY <1>1, <1>2
<1>5. r = s \/ ReleasePrecedes(r, s) \/ ReleasePrecedes(s, r)
  BY <1>1, <1>2, <1>3
<1>6. ReleasePrecedes(r, s) /\ ReleasePrecedes(s, t) => ReleasePrecedes(r, t)
  BY <1>1, <1>2
<1> QED
  BY <1>4, <1>5, <1>6

LEMMA IdentifiersOrdered ==
  ASSUME NEW x \in Identifiers, NEW y \in Identifiers, NEW z \in Identifiers
  PROVE  /\ ~IdPrecedes(x, x)
         /\ x = y \/ IdPrecedes(x, y) \/ IdPrecedes(y, x)
         /\ IdPrecedes(x, y) /\ IdPrecedes(y, z) => IdPrecedes(x, z)
BY DEF Identifiers, IdPrecedes

\* The place where one list of identifiers turns out smaller than another.
SmallerAt(s, t, i) ==
  /\ i \in 1..Len(t) /\ i <= Len(s) + 1
  /\ \A j \in 1..(i - 1) : s[j] = t[j]
  /\ i <= Len(s) => IdPrecedes(s[i], t[i])

LEMMA PrePrecedesSomewhere == \A s, t : PrePrecedes(s, t) <=> \E i : SmallerAt(s, t, i)
BY DEF PrePrecedes, SmallerAt

LEMMA ListsIrreflexive == ASSUME NEW s \in Seq(Identifiers) PROVE ~PrePrecedes(s, s)
<1> SUFFICES ASSUME NEW i, SmallerAt(s, s, i) PROVE FALSE
  BY PrePrecedesSomewhere
<1>1. Len(s) \in Nat /\ i \in 1..Len(s) /\ IdPrecedes(s[i], s[i])
  BY LenProperties DEF SmallerAt
<1>2. s[i] \in Identifiers
  BY <1>1, ElementOfSeq
<1> QED
  BY <1>1, <1>2, IdentifiersOrdered

LEMMA ListsTransitive ==
  ASSUME NEW s \in Seq(Identifiers), NEW t \in Seq(Identifiers), NEW u \in Seq(Identifiers),
         PrePrecedes(s, t), PrePrecedes(t, u)
  PROVE  PrePrecedes(s, u)
<1>1. PICK i : SmallerAt(s, t, i)
  BY PrePrecedesSomewhere
<1>2. PICK k : SmallerAt(t, u, k)
  BY PrePrecedesSomewhere
<1>3. Len(s) \in Nat /\ Len(t) \in Nat /\ Len(u) \in Nat
  BY LenProperties
<1>4. i \in 1..Len(t) /\ k \in 1..Len(u)
  BY <1>1, <1>2 DEF SmallerAt
<1>5. CASE i < k
  <2>1. i \in 1..Len(u) /\ i <= Len(s) + 1 /\ \A j \in 1..(i - 1) : s[j] = u[j]
    BY <1>1, <1>2, <1>3, <1>4, <1>5 DEF SmallerAt
  <2>2. i <= Len(s) => IdPrecedes(s[i], u[i])
    BY <1>1, <1>2, <1>3, <1>4, <1>5 DEF SmallerAt
  <2> QED
    BY <2>1, <2>2, PrePrecedesSomewhere DEF SmallerAt
<1>6. CASE k < i
  <2>1. k <= Len(s) + 1 /\ \A j \in 1..(k - 1) : s[j] = u[j]
    BY <1>1, <1>2, <1>3, <1>4, <1>6 DEF SmallerAt
  <2>2. k <= Len(s) => IdPrecedes(s[k], u[k])
    BY <1>1, <1>2, <1>3, <1>4, <1>6 DEF SmallerAt
  <2> QED
    BY <1>4, <2>1, <2>2, PrePrecedesSomewhere DEF SmallerAt
<1>7. CASE i = k
  <2>1. i <= Len(s) + 1 /\ \A j \in 1..(i - 1) : s[j] = u[j]
    BY <1>1, <1>2, <1>3, <1>4, <1>7 DEF SmallerAt
  <2>2. ASSUME i <= Len(s) PROVE IdPrecedes(s[i], u[i])
    <3>1. IdPrecedes(s[i], t[i]) /\ IdPrecedes(t[i], u[i])
      BY <1>1, <1>2, <1>3, <1>4, <1>7, <2>2 DEF SmallerAt
    <3>2. s[i] \in Identifiers /\ t[i] \in Identifiers /\ u[i] \in Identifiers
      BY <1>3, <1>4, <1>7, <2>2, ElementOfSeq
    <3> QED
      BY <3>1, <3>2, IdentifiersOrdered
  <2> QED
    BY <1>4, <1>7, <2>1, <2>2, PrePrecedesSomewhere DEF SmallerAt
<1> QED
  BY <1>3, <1>4, <1>5, <1>6, <1>7

LEMMA ListsTotal ==
  ASSUME NEW s \in Seq(Identifiers), NEW t \in Seq(Identifiers), s # t
  PROVE  PrePrecedes(s, t) \/ PrePrecedes(t, s)
<1>1. Len(s) \in Nat /\ Len(t) \in Nat
  BY LenProperties
<1> DEFINE Differs(i) == i > Len(s) \/ i > Len(t) \/ s[i] # t[i]
           D == {i \in Nat : i >= 1 /\ (i <= Len(s) \/ i <= Len(t)) /\ Differs(i)}
<1>2. D \subseteq Nat /\ D # {}
  <2>1. CASE Len(s) # Len(t)
    <3>1. (Len(s) < Len(t) => Len(t) \in D) /\ (Len(t) < Len(s) => Len(s) \in D)
      BY <1>1
    <3> QED
      BY <1>1, <2>1, <3>1
  <2>2. CASE Len(s) = Len(t)
    <3>1. PICK i \in 1..Len(s) : s[i] # t[i]
      BY <2>2, SeqEqual
    <3> QED
      BY <1>1, <3>1
  <2> QED
    BY <2>1, <2>2
<1>3. PICK i \in D : \A j \in D : i <= j
  <2> HIDE DEF D
  <2> QED
    BY <1>2, LeastElement
<1>4. \A j \in 1..(i - 1) : j <= Len(s) /\ j <= Len(t) /\ s[j] = t[j]
  BY <1>1, <1>3
<1>5. i \in Nat /\ i >= 1 /\ i <= Len(s) + 1 /\ i <= Len(t) + 1
  BY <1>1, <1>3, <1>4
<1>6. CASE i > Len(s)
  BY <1>1, <1>3, <1>4, <1>5, <1>6, PrePrecedesSomewhere DEF SmallerAt
<1>7. CASE i > Len(t)
  BY <1>1, <1>3, <1>4, <1>5, <1>7, PrePrecedesSomewhere DEF SmallerAt
<1>8. CASE i <= Len(s) /\ i <= Len(t)
  <2>1. s[i] \in Identifiers /\ t[i] \in Identifiers /\ s[i] # t[i]
    BY <1>1, <1>3, <1>5, <1>8, ElementOfSeq
  <2>2. IdPrecedes(s[i], t[i]) \/ IdPrecedes(t[i], s[i])
    BY <2>1, IdentifiersOrdered
  <2>3. SmallerAt(s, t, i) \/ SmallerAt(t, s, i)
    BY <1>1, <1>4, <1>5, <1>8, <2>2 DEF SmallerAt
  <2> QED
    BY <2>3, PrePrecedesSomewhere
<1> QED
  BY <1>1, <1>5, <1>6, <1>7, <1>8

\* compareVersions is a strict total order, of releases, prereleases and the two
\* together: no version precedes itself, of two different ones exactly one
\* precedes the other, and what precedes a lower version precedes the higher
\* (src/detect/semver.ts:72).
THEOREM PrecedenceIsTotal ==
  ASSUME NEW a \in SemVers, NEW b \in SemVers, NEW c \in SemVers
  PROVE  /\ ~Precedes(a, a)
         /\ a # b => (Precedes(a, b) <=> ~Precedes(b, a))
         /\ Precedes(a, b) /\ Precedes(b, c) => Precedes(a, c)
<1>1. /\ {a.release, b.release, c.release} \subseteq [1..3 -> Nat]
      /\ {a.pre, b.pre, c.pre} \subseteq Seq(Identifiers)
  BY DEF SemVers
<1>2. a.release = b.release /\ a.pre = b.pre => a = b
  BY DEF SemVers
<1>3. ~Precedes(a, a)
  BY <1>1, ReleasesOrdered, ListsIrreflexive DEF Precedes
<1>4. ASSUME a # b PROVE Precedes(a, b) \/ Precedes(b, a)
  <2>1. CASE a.release # b.release
    BY <1>1, <2>1, ReleasesOrdered DEF Precedes
  <2>2. CASE a.release = b.release
    <3>1. a.pre # b.pre
      BY <1>2, <1>4, <2>2
    <3>2. PrePrecedes(a.pre, b.pre) \/ PrePrecedes(b.pre, a.pre)
      BY <1>1, <3>1, ListsTotal
    <3> QED
      BY <2>2, <3>1, <3>2 DEF Precedes, IsStable
  <2> QED
    BY <2>1, <2>2
<1>5. ASSUME NEW x \in {a, b, c}, NEW y \in {a, b, c}, NEW z \in {a, b, c}, Precedes(x, y), Precedes(y, z)
      PROVE  Precedes(x, z)
  <2>1. /\ {x.release, y.release, z.release} \subseteq [1..3 -> Nat]
        /\ {x.pre, y.pre, z.pre} \subseteq Seq(Identifiers)
    BY <1>1
  <2>2. CASE ReleasePrecedes(x.release, y.release) \/ ReleasePrecedes(y.release, z.release)
    <3>1. ReleasePrecedes(x.release, z.release)
      BY <1>5, <2>1, <2>2, ReleasesOrdered DEF Precedes
    <3> QED
      BY <3>1 DEF Precedes
  <2>3. CASE x.release = y.release /\ y.release = z.release
    <3>1. /\ ~IsStable(x) /\ (IsStable(y) \/ PrePrecedes(x.pre, y.pre))
          /\ ~IsStable(y) /\ (IsStable(z) \/ PrePrecedes(y.pre, z.pre))
      BY <1>5, <2>1, <2>3, ReleasesOrdered DEF Precedes
    <3>2. IsStable(z) \/ PrePrecedes(x.pre, z.pre)
      BY <2>1, <3>1, ListsTransitive
    <3> QED
      BY <2>3, <3>1, <3>2 DEF Precedes
  <2> QED
    BY <1>5, <2>2, <2>3 DEF Precedes
<1>6. Precedes(a, b) => ~Precedes(b, a)
  BY <1>3, <1>5
<1> QED
  BY <1>3, <1>4, <1>5, <1>6

LEMMA LatestOfMore ==
  ASSUME NEW vs \in SUBSET SemVers, NEW v \in vs, NEW m \in Latest(vs \ {v})
  PROVE  Latest(vs) # {}
<1>1. m \in vs /\ m \in SemVers /\ v \in SemVers /\ \A w \in vs \ {v} : ~Precedes(m, w)
  BY DEF Latest, AtLeast
<1>2. CASE ~Precedes(m, v)
  <2>1. m \in Latest(vs)
    BY <1>1, <1>2 DEF Latest, AtLeast
  <2> QED
    BY <2>1
<1>3. CASE Precedes(m, v)
  <2>1. ~Precedes(v, v)
    BY <1>1, PrecedenceIsTotal
  <2>2. ASSUME NEW w \in vs \ {v} PROVE ~Precedes(v, w)
    <3>1. w \in SemVers
      OBVIOUS
    <3>2. Precedes(v, w) => Precedes(m, w)
      BY <1>1, <1>3, <3>1, PrecedenceIsTotal
    <3> QED
      BY <1>1, <3>2
  <2>3. v \in Latest(vs)
    BY <2>1, <2>2 DEF Latest, AtLeast
  <2> QED
    BY <2>3
<1> QED
  BY <1>2, <1>3

\* The highest of a finite set of versions that is not empty is there, and is
\* one version, but for the build metadata precedence ignores: what the sweep takes
\* for the next release, and what an install resolves a range to, does not depend on
\* the order the registry lists them in (src/detect/semver.ts:141).
THEOREM LatestIsOne ==
  ASSUME NEW vs \in SUBSET SemVers, IsFiniteSet(vs), vs # {}
  PROVE  \E v \in vs : Latest(vs) = {v}
<1> DEFINE Lacking(n) == \E ws \in SUBSET SemVers :
             IsFiniteSet(ws) /\ ws # {} /\ Cardinality(ws) = n /\ Latest(ws) = {}
           N == {n \in Nat : Lacking(n)}
<1>1. N = {}
  <2> SUFFICES ASSUME N # {} PROVE FALSE
    OBVIOUS
  <2>1. PICK n \in N : \A k \in N : n <= k
    <3> HIDE DEF N
    <3>1. N \in SUBSET Nat
      BY DEF N
    <3> QED
      BY <3>1, LeastElement
  <2>2. PICK ws \in SUBSET SemVers : IsFiniteSet(ws) /\ ws # {} /\ Cardinality(ws) = n /\ Latest(ws) = {}
    BY <2>1
  <2>3. PICK v \in ws : TRUE
    BY <2>2
  <2>4. IsFiniteSet(ws \ {v}) /\ Cardinality(ws \ {v}) = n - 1
    BY <2>2, <2>3, FS_RemoveElement
  <2>5. n - 1 \in Nat
    BY <2>4, FS_CardinalityType
  <2>6. n - 1 \notin N
    BY <2>1, <2>5
  <2>7. CASE ws \ {v} = {}
    <3>1. ~Precedes(v, v)
      BY <2>2, <2>3, PrecedenceIsTotal
    <3>2. v \in Latest(ws)
      BY <2>3, <2>7, <3>1 DEF Latest, AtLeast
    <3> QED
      BY <2>2, <3>2
  <2>8. CASE ws \ {v} # {}
    <3>1. Latest(ws \ {v}) # {}
      BY <2>2, <2>4, <2>5, <2>6, <2>8
    <3>2. PICK m : m \in Latest(ws \ {v})
      BY <3>1
    <3> QED
      BY <2>2, <2>3, <3>2, LatestOfMore
  <2> QED
    BY <2>7, <2>8
<1>2. Latest(vs) # {}
  <2>1. Cardinality(vs) \in Nat
    BY FS_CardinalityType
  <2> QED
    BY <1>1, <2>1
<1>3. ASSUME NEW v \in Latest(vs), NEW w \in Latest(vs) PROVE v = w
  <2>1. v \in SemVers /\ w \in SemVers /\ ~Precedes(v, w) /\ ~Precedes(w, v)
    BY DEF Latest, AtLeast
  <2> QED
    BY <2>1, PrecedenceIsTotal
<1>4. PICK v : v \in Latest(vs)
  BY <1>2
<1>5. v \in vs
  BY <1>4 DEF Latest
<1> QED
  BY <1>3, <1>4, <1>5

\* One version at most, of what is published.
TargetsAreDetermined ==
  /\ To = {} \/ \E v \in published : To = {v}
  /\ Resolution = {} \/ \E v \in published : Resolution = {v}

\* Of what is published nothing but the versions themselves settles what the next
\* sweep is about and what the next install takes: either is one version at most
\* (src/detect/npm.ts:305, src/detect/semver.ts:141).
THEOREM TargetsDetermined == ConsumersSpec => []TargetsAreDetermined
<1>1. ASSUME ConsumersIInv, NEW vs \in SUBSET published, LatestStable(vs) # {}
      PROVE  \E v \in published : LatestStable(vs) = {v}
  <2> DEFINE stable == {v \in vs : IsStable(v)}
  <2>1. LatestStable(vs) = Latest(stable)
    BY DEF LatestStable
  <2>2. stable \subseteq published /\ published \subseteq Market
    BY <1>1 DEF ConsumersIInv, ConsumersTypeOK
  <2>3. IsFiniteSet(stable)
    BY <1>1, <2>2, FS_Subset DEF ConsumersIInv
  <2>4. ASSUME NEW v \in stable PROVE v \in SemVers
    <3>1. v = [release |-> v.release, pre |-> v.pre] /\ v.release \in [1..3 -> Nat]
      BY <2>2, ConsumerAssumption
    <3>2. v.pre = <<>>
      BY DEF IsStable
    <3>3. v.pre \in Seq(Identifiers)
      BY <3>2, EmptySeq
    <3> QED
      BY <3>1, <3>3 DEF SemVers
  <2>5. stable # {}
    BY <1>1, <2>1 DEF Latest
  <2> HIDE DEF stable
  <2>6. \E v \in stable : Latest(stable) = {v}
    BY <2>3, <2>4, <2>5, LatestIsOne
  <2> QED
    BY <2>1, <2>2, <2>6
<1>2. ConsumersIInv => TargetsAreDetermined
  <2> SUFFICES ASSUME ConsumersIInv PROVE TargetsAreDetermined
    OBVIOUS
  <2>1. {v \in published : Precedes(From, v)} \in SUBSET published
    OBVIOUS
  <2>2. {v \in published : \E d \in Declared(manifest) : NpmAdmits(d.range, v)} \in SUBSET published
    OBVIOUS
  <2> QED
    BY <1>1, <2>1, <2>2 DEF TargetsAreDetermined, To, Resolution
<1> QED
  BY <1>2, ConsumersInvariantHolds, PTL
=============================================================================
