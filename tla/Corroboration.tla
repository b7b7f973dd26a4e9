---------------------------- MODULE Corroboration ----------------------------
(***************************************************************************)
(* When a change upstream is corroborated well enough to fan out           *)
(* (src/detect/corroborate.ts), and what two declared surfaces differ in   *)
(* (src/detect/api-surface.ts).  An observation is a kind of source and    *)
(* whether it agrees that the change is breaking; origin, time and detail  *)
(* are recorded and never looked at.  A surface maps each exported name to *)
(* its kind, its signature and whether it is deprecated.                   *)
(***************************************************************************)
EXTENDS Integers, FiniteSets

Kinds == {"registry", "artifact", "spec", "changelog"}
Observations == [kind : Kinds, breaking : BOOLEAN]

Weight(kind) ==
  CASE kind \in {"artifact", "registry"} -> 3
    [] kind = "spec"                     -> 2
    [] kind = "changelog"                -> 1

WeightOf(kinds) ==
  LET W[k \in SUBSET Kinds] ==
        IF k = {} THEN 0
        ELSE LET x == CHOOSE x \in k : TRUE IN Weight(x) + W[k \ {x}]
  IN  W[kinds]

MinimumWeight == 4
MinimumKinds  == 2

AgreeingKinds(evidence) == {o.kind : o \in {e \in evidence : e.breaking}}
HardDissent(evidence) == {o \in evidence : ~o.breaking /\ o.kind # "changelog"}

\* "high" and "moderate" are the two ways to be eligible; the rest refuse.
Eligibility(evidence, capability) ==
  LET kinds == AgreeingKinds(evidence)
  IN  IF kinds = {} THEN "not-breaking"
      ELSE IF kinds = {"changelog"} THEN "changelog-only"
      ELSE IF Cardinality(kinds) < MinimumKinds \/ WeightOf(kinds) < MinimumWeight
      THEN "insufficient-sources"
      ELSE IF HardDissent(evidence) # {} THEN "sources-disagree"
      ELSE IF capability THEN "capability-requires-approval"
      ELSE IF WeightOf(kinds) >= 6 /\ Cardinality(kinds) >= 3 THEN "high"
      ELSE "moderate"

Verdicts == {"not-breaking", "changelog-only", "insufficient-sources", "sources-disagree",
             "capability-requires-approval", "high", "moderate"}

Eligible(verdict) == verdict \in {"high", "moderate"}

\* The first wave of a rollout over n repositories; Math.ceil of a percentage.
CeilPercent(n, p) == (n * p + 99) \div 100
Clamp(lo, x, hi) == IF x > hi THEN hi ELSE IF x < lo THEN lo ELSE x

CanarySize(verdict, n) ==
  IF ~Eligible(verdict) THEN 0
  ELSE IF n <= 5 THEN n
  ELSE Clamp(3, CeilPercent(n, IF verdict = "high" THEN 5 ELSE 2), 25)

-----------------------------------------------------------------------------
(* Surfaces *)

Symbol(kind, signature) == [kind |-> kind, signature |-> signature, deprecated |-> FALSE]

Removed(from, to) == DOMAIN from \ DOMAIN to
Added(from, to)   == DOMAIN to \ DOMAIN from
Changed(from, to) ==
  {s \in DOMAIN from \cap DOMAIN to :
     from[s].kind # to[s].kind \/ from[s].signature # to[s].signature}
NewlyDeprecated(from, to) ==
  {s \in (DOMAIN from \cap DOMAIN to) \ Changed(from, to) :
     to[s].deprecated /\ ~from[s].deprecated}

\* What can break a consumer: not what was added, and not a deprecation.
ImpactedSymbols(from, to) == Removed(from, to) \cup Changed(from, to)

SurfaceCorroboration(from, to) ==
  [kind |-> "spec", breaking |-> ImpactedSymbols(from, to) # {}]

\* A removal has no mechanical replacement.
RequiresGuidance(from, to) == Removed(from, to) # {}
=============================================================================
