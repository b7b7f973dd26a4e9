--------------------------- MODULE ChangeDetection ---------------------------
(***************************************************************************)
(* One sweep of a watched package: src/workflows/detect-changes.ts over    *)
(* src/detect/npm.ts (what the registry says), npm-surface-source.ts with  *)
(* tarball.ts and dts-surface.ts (what the declarations say) and           *)
(* corroborate.ts (the verdict), while the publisher goes on publishing.   *)
(*                                                                         *)
(* The registry is outside: it changes between any two steps.  The content *)
(* of a tarball is its surface, or nothing when it cannot be described;    *)
(* the ceilings and the unpacking of the archive are part of the latter.   *)
(***************************************************************************)
EXTENDS Versions, Corroboration

CONSTANTS
  Releases,     \* versions the publisher may publish
  Baseline,     \* the version the watch compares with
  OwnSurface,   \* OwnSurface[v]: {surface} of the declarations v ships, or {}
  TypesVersions,\* versions of the DefinitelyTyped package
  TypesSurface, \* TypesSurface[t]: {surface}, or {}
  MaxChanges,   \* bound: what the publisher does
  MaxLosses     \* bound: fetches that fail, and crashes

ASSUME ReleaseAssumption ==
  /\ Baseline \in Releases
  /\ IsStable(Baseline)
  /\ {MaxChanges, MaxLosses} \subseteq Nat

VARIABLES
  listed,   \* listed[v]: the registry's entry for v
  typed,    \* the DefinitelyTyped versions on the registry
  sweep,    \* the running detect-changes job
  row,      \* what the recorder was last given, or NoRow
  changes,  \* how often the publisher did something
  losses    \* how often a fetch failed or the worker crashed

registryVars  == <<listed, typed, changes>>
detectionVars == <<listed, typed, changes, sweep, row, losses>>

\* dist: a tarball on the registry with a hash, one there without, one on
\* another host, or none.
Dists   == {"on-registry", "unhashed", "off-registry", "bare"}
Missing == [published |-> FALSE, deprecated |-> FALSE, dist |-> "bare"]
Entry(dist) == [Missing EXCEPT !.published = TRUE, !.dist = dist]

Published == {v \in Releases : listed[v].published}

Stages == {"find-next-version", "corroborate-registry", "corroborate-artifact",
           "corroborate-surface", "record", "ended"}

NoSurfaces == [before |-> {}, after |-> {}]
NoSweep    == [at |-> "find-next-version", next |-> Baseline, evidence |-> {},
               surfaces |-> NoSurfaces, verdict |-> "none"]
NoRow      == [to |-> Baseline, evidence |-> {}, impacted |-> {}]

-----------------------------------------------------------------------------
(* The publisher *)

Change == changes < MaxChanges /\ changes' = changes + 1 /\ UNCHANGED <<sweep, row, losses>>

Publish(v) ==
  /\ ~listed[v].published
  /\ Change
  /\ \E d \in Dists : listed' = [listed EXCEPT ![v] = Entry(d)]
  /\ UNCHANGED typed

Deprecate(v) ==
  /\ listed[v].published /\ ~listed[v].deprecated
  /\ Change
  /\ listed' = [listed EXCEPT ![v].deprecated = TRUE]
  /\ UNCHANGED typed

Unpublish(v) ==
  /\ listed[v].published /\ v # Baseline
  /\ Change
  /\ listed' = [listed EXCEPT ![v] = Missing]
  /\ UNCHANGED typed

PublishTypes(t) ==
  /\ t \notin typed
  /\ Change
  /\ typed' = typed \cup {t}
  /\ UNCHANGED listed

-----------------------------------------------------------------------------
(* What the collectors return *)

\* nextStableAfter
NextStable(vs, from) == LatestStable({v \in vs : Precedes(from, v)})

RegistryObservation(from, to) ==
  [kind |-> "registry",
   breaking |-> /\ listed[to].published
                /\ IsBreakingBump(from, to) \/ listed[from].deprecated]

ArtifactObservation(to) ==
  [kind |-> "artifact",
   breaking |-> listed[to].published /\ listed[to].dist = "on-registry"]

\* The declarations a package's tarball ships; nothing unless its entry names
\* a tarball on an allowed host.
OwnDeclarations(v) ==
  IF listed[v].published /\ listed[v].dist \in {"on-registry", "unhashed"} THEN OwnSurface[v] ELSE {}

MatchingTypes(v) == LatestStable({t \in typed : Major(t) = Major(v)})

\* surfaceFor: the package's own declarations, else those of DefinitelyTyped.
\* A fetch that fails, in reach, is the same null as one that finds nothing.
Surfaces(v, reach) ==
  IF "own" \in reach /\ OwnDeclarations(v) # {} THEN OwnDeclarations(v)
  ELSE IF "types" \in reach THEN UNION {TypesSurface[t] : t \in MatchingTypes(v)}
  ELSE {}

Sources == {"own", "types"}

\* What collectSurface makes of the two surfaces: one of them missing costs
\* the source.
SpecEvidence(s) == {SurfaceCorroboration(b, a) : b \in s.before, a \in s.after}
Impacted(s) == UNION {ImpactedSymbols(b, a) : b \in s.before, a \in s.after}
Guidance(s) == \E b \in s.before, a \in s.after : RequiresGuidance(b, a)

-----------------------------------------------------------------------------
(* The workflow: one action per memoised step *)

Reach(stage) == sweep.at = stage /\ UNCHANGED registryVars

FindNext ==
  /\ Reach("find-next-version")
  /\ LET next == NextStable(Published, Baseline)
     IN  \/ /\ next = {}
            /\ sweep' = [sweep EXCEPT !.at = "ended", !.verdict = "no-newer-version"]
         \/ \E v \in next :
              sweep' = [sweep EXCEPT !.at = "corroborate-registry", !.next = v]
  /\ UNCHANGED <<row, losses>>

CorroborateRegistry ==
  /\ Reach("corroborate-registry")
  /\ sweep' = [sweep EXCEPT !.at = "corroborate-artifact",
                            !.evidence = @ \cup {RegistryObservation(Baseline, sweep.next)}]
  /\ UNCHANGED <<row, losses>>

CorroborateArtifact ==
  /\ Reach("corroborate-artifact")
  /\ sweep' = [sweep EXCEPT !.at = "corroborate-surface",
                            !.evidence = @ \cup {ArtifactObservation(sweep.next)}]
  /\ UNCHANGED <<row, losses>>

\* The two surfaces are fetched side by side, and each fetch may fail.
CorroborateSurface ==
  /\ Reach("corroborate-surface")
  /\ \E old, new \in SUBSET Sources :
       /\ losses + Cardinality(Sources \ old) + Cardinality(Sources \ new) <= MaxLosses
       /\ losses' = losses + Cardinality(Sources \ old) + Cardinality(Sources \ new)
       /\ LET s == [before |-> Surfaces(Baseline, old), after |-> Surfaces(sweep.next, new)]
              e == sweep.evidence \cup SpecEvidence(s)
          IN  sweep' = [sweep EXCEPT !.at = "record", !.surfaces = s, !.evidence = e,
                                     !.verdict = Eligibility(e, Guidance(s))]
  /\ UNCHANGED row

\* Mutant of Recorded: a conflict keeps the evidence of the first sweep.
Recorded_KeepsEvidence(s) ==
  [to |-> s.next, impacted |-> Impacted(s.surfaces),
   evidence |-> IF row.to = s.next THEN row.evidence ELSE s.evidence]

\* ON CONFLICT (provider_id, change_key) refreshes the whole analysis.
Recorded(s) == [to |-> s.next, evidence |-> s.evidence, impacted |-> Impacted(s.surfaces)]

\* record-change and record-ineligible: the same upsert, eligible or not.
Record ==
  /\ Reach("record")
  /\ row' = Recorded(sweep)
  /\ sweep' = [sweep EXCEPT !.at = "ended"]
  /\ UNCHANGED losses

\* A crash takes the transaction of the handler, step records included, but
\* not what the recorder committed; the retry starts over.
Crash ==
  /\ Reach(sweep.at) /\ sweep.at \notin {"find-next-version", "ended"}
  /\ losses < MaxLosses /\ losses' = losses + 1
  /\ sweep' = NoSweep
  /\ UNCHANGED row

\* The scheduler enqueues the next sweep of the package.
SweepAgain ==
  /\ Reach("ended")
  /\ sweep' = NoSweep
  /\ UNCHANGED <<row, losses>>

-----------------------------------------------------------------------------
DetectionInit ==
  /\ listed = [v \in Releases |-> IF v = Baseline THEN Entry("on-registry") ELSE Missing]
  /\ typed = {}
  /\ sweep = NoSweep
  /\ row = NoRow
  /\ changes = 0 /\ losses = 0

PublisherNext ==
  \/ \E v \in Releases : Publish(v) \/ Deprecate(v) \/ Unpublish(v)
  \/ \E t \in TypesVersions : PublishTypes(t)

DetectionNext ==
  \/ PublisherNext
  \/ FindNext \/ CorroborateRegistry \/ CorroborateArtifact
  \/ CorroborateSurface \/ Record \/ Crash \/ SweepAgain

-----------------------------------------------------------------------------
(* Properties *)

DetectionTypeOK ==
  /\ listed \in [Releases -> [published : BOOLEAN, deprecated : BOOLEAN, dist : Dists]]
  /\ typed \subseteq TypesVersions
  /\ sweep \in [at : Stages, next : Releases, evidence : SUBSET Observations,
               surfaces : {sweep.surfaces}, verdict : Verdicts \cup {"none", "no-newer-version"}]
  /\ row \in [to : Releases, evidence : SUBSET Observations, impacted : {row.impacted}]
  /\ changes \in 0..MaxChanges /\ losses \in 0..MaxLosses

\* What plan-rollout re-assesses is the stored evidence, without the sweep's
\* verdict (src/workflows/plan-rollout.ts:224): it never refuses a change the
\* sweep called eligible, and it accepts beyond those only the ones the sweep
\* left to a human because an export was removed.
ReassessmentAgrees ==
  sweep.at = "ended" /\ sweep.verdict # "no-newer-version" =>
    /\ Eligible(sweep.verdict) => Eligibility(row.evidence, FALSE) = sweep.verdict
    /\ Eligible(Eligibility(row.evidence, FALSE)) =>
         Eligible(sweep.verdict) \/ sweep.verdict = "capability-requires-approval"
=============================================================================
