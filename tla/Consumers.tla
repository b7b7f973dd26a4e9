------------------------------ MODULE Consumers ------------------------------
(***************************************************************************)
(* What a change means to one repository that declares the package:        *)
(* src/discover/manifest.ts (what was declared, what is locked) and        *)
(* src/discover/affected.ts (the impact, and whether to contact anyone).   *)
(* The maintainer edits the manifest and installs; what an install from    *)
(* the declared range resolves to is npm, outside this repository, and     *)
(* reads the range by npm's rules, not by those of range.ts.               *)
(***************************************************************************)
EXTENDS Versions

CONSTANTS
  Market,       \* versions of the package there may be
  From,         \* the baseline of the change, published at first
  Ranges,       \* declarations the maintainer may write, NotARange included
  MaxEdits      \* bound: releases, edits and installs

\* Up to three components, any of them a wildcard; a prerelease only after
\* three numbers, as npm has it.
IsToken(t) ==
  /\ t = [prefix |-> t.prefix, parts |-> t.parts, pre |-> t.pre]
  /\ t.prefix \in {"", "=", "^", "~", ">", ">=", "<", "<="}
  /\ \E n \in 1..3 : t.parts \in [1..n -> Nat \cup {X}]
  /\ t.pre # <<>> => Specified(t.parts) = 3

ASSUME ConsumerAssumption ==
  /\ From \in Market /\ IsStable(From) /\ MaxEdits \in Nat
  /\ \A v \in Market : v = [release |-> v.release, pre |-> v.pre] /\ v.release \in [1..3 -> Nat]
ASSUME RangeAssumption ==
  \A range \in Ranges : \A alt \in range :
    \/ DOMAIN alt = {"any"}
    \/ DOMAIN alt = {"tokens"} /\ \A t \in alt.tokens : IsToken(t)
    \/ DOMAIN alt = {"from", "to"} /\ IsToken(alt.from) /\ IsToken(alt.to)

VARIABLES
  published, \* the versions of the package on the registry
  manifest,  \* manifest[f]: what field f says of the package
  lock,      \* the lockfile
  edits      \* how often publisher or maintainer did something

consumerVars == <<published, manifest, lock, edits>>

Fields == <<"dependencies", "devDependencies", "peerDependencies", "optionalDependencies">>
FieldNames == {Fields[i] : i \in DOMAIN Fields}

\* A field says nothing of the package, or something that is no string.
Silent   == [says |-> "nothing", range |-> NotARange]
Garbled  == [says |-> "no string", range |-> NotARange]
Says(r)  == [says |-> "a range", range |-> r]

\* top: the copy installed for the repository itself; nested: those installed
\* for its dependencies alone.
NoLock  == [format |-> "none", top |-> {}, nested |-> {}]
Formats == {"npm", "pnpm", "yarn"}

-----------------------------------------------------------------------------
(* manifest.ts *)

Declaring(m) == {i \in DOMAIN Fields : m[Fields[i]].says = "a range"}

\* parseManifest: the first field, in this order, that declares it usably.
Declared(m) ==
  {[range |-> m[Fields[i]].range, kind |-> Fields[i]] :
     i \in {i \in Declaring(m) : \A j \in Declaring(m) : i <= j}}

\* Mutant of LockedVersion: the first of several copies will do.
LockedVersion_AnyCopy(l) ==
  LET found == l.top \cup l.nested
  IN  IF found = {} THEN {} ELSE {CHOOSE v \in found : \A w \in found : AtLeast(v, w)}

\* lockedVersion: unambiguous or nothing.  npm's format tells the top-level
\* copy apart; the other two are searched for every copy.
LockedVersion(l) ==
  LET found == IF l.format = "npm" THEN l.top ELSE l.top \cup l.nested
  IN  IF l.format \in Formats /\ Cardinality(found) = 1 THEN found ELSE {}

-----------------------------------------------------------------------------
(* affected.ts *)

Unreadable(m)  == \E d \in Declared(m) : Parsed(d.range) = {}
Permits(m, v)  == \E d \in Declared(m) : Admits(d.range, v)
IsCurrent(l, to) == \E v \in LockedVersion(l) : AtLeast(v, to)

\* assessRepository, in the order it asks.
Impact(m, l, from, to) ==
  IF Declared(m) = {} THEN "unrelated"
  ELSE IF IsCurrent(l, to) THEN "current"
  ELSE IF Unreadable(m) THEN "unknown"
  ELSE IF Permits(m, to) THEN "exposed"
  ELSE IF Permits(m, from) THEN "stranded"
  ELSE "unrelated"

-----------------------------------------------------------------------------
(* npm: a range is read for what its author wrote, up to the first wildcard *)

Written(t) == Specified(t.parts)
Floor(t) ==
  [release |-> [i \in 1..3 |-> IF i <= Written(t) THEN t.parts[i] ELSE 0], pre |-> t.pre]
Agree(v, t, n) == \A i \in 1..n : v.release[i] = t.parts[i]

\* A partial version stands for all that agree with it: > is above them, and
\* <= takes them in.  A caret keeps the leading zeros that were written and
\* what comes after them, a tilde the major and the minor.
NpmReads(v, t) ==
  LET n == Written(t)
  IN  CASE t.prefix = "^"  -> /\ AtLeast(v, Floor(t))
                              /\ \A i \in 1..n : (\A j \in 1..(i - 1) : t.parts[j] = 0)
                                                   => v.release[i] = t.parts[i]
        [] t.prefix = "~"  -> AtLeast(v, Floor(t)) /\ Agree(v, t, IF n < 2 THEN n ELSE 2)
        [] t.prefix = ">"  -> Precedes(Floor(t), v) /\ ~(n < 3 /\ Agree(v, t, n))
        [] t.prefix = ">=" -> AtLeast(v, Floor(t))
        [] t.prefix = "<"  -> Precedes(v, Floor(t))
        [] t.prefix = "<=" -> AtLeast(Floor(t), v) \/ (n < 3 /\ Agree(v, t, n))
        [] OTHER           -> v.pre = t.pre /\ Agree(v, t, n)

NpmTakes(v, alt) ==
  IF "any" \in DOMAIN alt THEN TRUE
  ELSE IF "tokens" \in DOMAIN alt THEN \A t \in alt.tokens : NpmReads(v, t)
  ELSE /\ NpmReads(v, [alt.from EXCEPT !.prefix = ">="])
       /\ NpmReads(v, [alt.to EXCEPT !.prefix = "<="])

NpmAdmits(range, v) == \E alt \in range : NpmTakes(v, alt)

-----------------------------------------------------------------------------
(* The publisher and the maintainer *)

Edited == edits < MaxEdits /\ edits' = edits + 1

Release(v) ==
  /\ v \notin published
  /\ Edited
  /\ published' = published \cup {v}
  /\ UNCHANGED <<manifest, lock>>

Declare(f, r) ==
  /\ manifest[f] # r
  /\ Edited
  /\ manifest' = [manifest EXCEPT ![f] = r]
  /\ UNCHANGED <<published, lock>>

\* What npm resolves the declaration to: the highest stable version it admits.
Resolution ==
  LatestStable({v \in published : \E d \in Declared(manifest) : NpmAdmits(d.range, v)})

Install(format) ==
  /\ Resolution # {}
  /\ Edited
  /\ \E others \in {n \in SUBSET published : Cardinality(n) <= 1} :
       lock' = [format |-> format, top |-> Resolution, nested |-> others]
  /\ UNCHANGED <<published, manifest>>

-----------------------------------------------------------------------------
ConsumersInit ==
  /\ published = {From}
  /\ manifest = [f \in FieldNames |-> Silent]
  /\ lock = NoLock
  /\ edits = 0

ConsumersNext ==
  \/ \E v \in Market : Release(v)
  \/ \E f \in FieldNames, r \in Ranges : Declare(f, Says(r))
  \/ \E f \in FieldNames : Declare(f, Garbled) \/ Declare(f, Silent)
  \/ \E f \in Formats : Install(f)

-----------------------------------------------------------------------------
(* Properties *)

ConsumersTypeOK ==
  /\ published \subseteq Market
  /\ manifest \in [FieldNames -> {Silent, Garbled} \cup {Says(r) : r \in Ranges}]
  /\ lock \in [format : Formats \cup {"none"}, top : SUBSET published, nested : SUBSET published]
  /\ edits \in 0..MaxEdits

\* The change a sweep makes of the registry as it is.
To == LatestStable({v \in published : Precedes(From, v)})

\* What range.ts takes for something else than npm does: a caret with nothing
\* but zeros written, or a tilde with nothing at all; a number after a wildcard,
\* which both keep in the lower bound; and a partial version after > or <=.
MisreadToken(t) ==
  LET n == Written(t)
  IN  \/ t.prefix = "^" /\ n < 3 /\ \A i \in 1..n : t.parts[i] = 0
      \/ t.prefix = "~" /\ n = 0
      \/ t.prefix \in {"^", "~"} /\ \E i \in (n + 1)..Len(t.parts) : t.parts[i] \notin {X, 0}
      \/ t.prefix \in {">", "<="} /\ n < 3

Misread(range) == \E alt \in range : "tokens" \in DOMAIN alt /\ \E t \in alt.tokens : MisreadToken(t)

\* Any other range that range.ts can parse admits the stable versions npm
\* admits, in carets, tildes, x-ranges, comparators, hyphen ranges, and their
\* conjunctions and alternatives (src/detect/range.ts:28).
RangesMeanWhatTheySay ==
  \A d \in Declared(manifest), v \in published :
    IsStable(v) /\ Parsed(d.range) # {} /\ ~Misread(d.range)
      => (Admits(d.range, v) <=> NpmAdmits(d.range, v))

\* What the impact says of a repository is what its next install does.  A
\* current one runs the version or a later one already, an exposed one takes it
\* or a later one; a stranded one, and an unrelated one that declares a range,
\* never gets to it.
ComesTrue(to) ==
  LET impact == Impact(manifest, lock, From, to)
  IN  lock' # lock =>
        /\ impact = "current" => \E v \in lock.top : AtLeast(v, to)
        /\ impact = "exposed" => \E v \in lock'.top : AtLeast(v, to)
        /\ impact = "stranded" => to \notin lock'.top
        /\ impact = "unrelated" => lock'.top \cap {From, to} = {}

\* The classification is a prediction, and of a declaration that range.ts reads
\* as npm does it comes true (src/discover/affected.ts:33).
ImpactComesTrue ==
  [][\A to \in To : (\A d \in Declared(manifest) : ~Misread(d.range)) => ComesTrue(to)]_consumerVars

\* affected.ts: "Declared range cannot admit the old version either": the same
\* of every declaration, the misread ones too.
EveryPredictionComesTrue == [][\A to \in To : ComesTrue(to)]_consumerVars
=============================================================================
