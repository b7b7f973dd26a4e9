------------------------------ MODULE Versions ------------------------------
(***************************************************************************)
(* Semantic versions (src/detect/semver.ts) and npm ranges                 *)
(* (src/detect/range.ts).  A version is its release triple and its         *)
(* prerelease identifiers; an identifier is <<0, n>> when numeric and      *)
(* <<1, r>> when alphanumeric, r being its place in ASCII order.  Build    *)
(* metadata never matters and is left out.                                 *)
(*                                                                         *)
(* A range is kept as its author wrote it: alternatives joined by ||, each *)
(* a hyphen range or a set of tokens, a token a prefix and one to three    *)
(* components.  What the parser makes of it, nothing at all included, is   *)
(* Parsed.                                                                 *)
(***************************************************************************)
EXTENDS Integers, Sequences, FiniteSets

V(a, b, c) == [release |-> <<a, b, c>>, pre |-> <<>>]
IsStable(v) == v.pre = <<>>
Major(v) == v.release[1]
Minor(v) == v.release[2]

-----------------------------------------------------------------------------
(* Precedence *)

IdPrecedes(x, y) == x[1] < y[1] \/ (x[1] = y[1] /\ x[2] < y[2])

\* s is smaller at the first identifier that differs, or is a proper prefix.
PrePrecedes(s, t) ==
  \E i \in 1..Len(t) :
    /\ i <= Len(s) + 1
    /\ \A j \in 1..(i - 1) : s[j] = t[j]
    /\ i <= Len(s) => IdPrecedes(s[i], t[i])

ReleasePrecedes(r, s) ==
  \E i \in 1..3 : r[i] < s[i] /\ \A j \in 1..(i - 1) : r[j] = s[j]

Precedes(a, b) ==
  \/ ReleasePrecedes(a.release, b.release)
  \/ /\ a.release = b.release
     /\ \/ ~IsStable(a) /\ IsStable(b)
        \/ ~IsStable(a) /\ ~IsStable(b) /\ PrePrecedes(a.pre, b.pre)

AtLeast(a, b) == ~Precedes(a, b)

Bump(from, to) ==
  CASE to = from             -> "none"
    [] Precedes(to, from)    -> "downgrade"
    [] Major(to) # Major(from) -> "major"
    [] Minor(to) # Minor(from) -> "minor"
    [] to.release # from.release -> "patch"
    [] OTHER                 -> "prerelease"

\* Mutant of IsBreakingBump: 0.x is treated like 1.x.
IsBreakingBump_MajorOnly(from, to) == Bump(from, to) = "major"

IsBreakingBump(from, to) ==
  \/ Bump(from, to) = "major"
  \/ Bump(from, to) = "minor" /\ Major(from) = 0 /\ Major(to) = 0

\* The highest of vs: a singleton, or empty when vs is.
Latest(vs) == {v \in vs : \A w \in vs : AtLeast(v, w)}
LatestStable(vs) == Latest({v \in vs : IsStable(v)})

-----------------------------------------------------------------------------
(* Ranges.  A function that may return null returns a set of at most one   *)
(* result.  X is a component written as x, X or *.                         *)

X == -1
Zeroed(part) == IF part = X THEN 0 ELSE part

Token(prefix, parts) == [prefix |-> prefix, parts |-> parts, pre |-> <<>>]

\* How many components precede the first wildcard.
Specified(parts) ==
  CHOOSE n \in 0..Len(parts) :
    /\ \A i \in 1..n : parts[i] # X
    /\ n < Len(parts) => parts[n + 1] = X

\* splitPartial fills up with zeros, and reads a wildcard as zero.
Component(parts, i) == IF i <= Len(parts) THEN Zeroed(parts[i]) ELSE 0
Lower(t) == [release |-> [i \in 1..3 |-> Component(t.parts, i)], pre |-> t.pre]

\* normalisePartial fills up with zeros too, but a wildcard stays unparseable.
Normalised(t) == IF \E i \in 1..Len(t.parts) : t.parts[i] = X THEN {} ELSE {Lower(t)}

Comparator(op, v) == [op |-> op, version |-> v]
Between(lo, hi) == {Comparator(">=", lo), Comparator("<", hi)}

\* The first version a change of the given component leads to.
NextMajor(v) == V(Major(v) + 1, 0, 0)
NextMinor(v) == V(Major(v), Minor(v) + 1, 0)
NextPatch(v) == V(Major(v), Minor(v), v.release[3] + 1)

\* Mutant of CaretRange: the major pins the range, also at zero.
CaretRange_MajorOnly(t) == Between(Lower(t), NextMajor(Lower(t)))

CaretRange(t) ==
  LET lo == Lower(t)
  IN  Between(lo, IF Major(lo) # 0 THEN NextMajor(lo)
                  ELSE IF Minor(lo) # 0 THEN NextMinor(lo)
                  ELSE NextPatch(lo))

TildeRange(t) ==
  LET lo == Lower(t)
  IN  Between(lo, IF Specified(t.parts) >= 2 THEN NextMinor(lo) ELSE NextMajor(lo))

XRange(t) ==
  LET n  == Specified(t.parts)
      lo == V(t.parts[1], IF n >= 2 THEN t.parts[2] ELSE 0, 0)
  IN  Between(lo, IF n >= 2 THEN NextMinor(lo) ELSE NextMajor(lo))

ParseToken(t) ==
  CASE t.prefix = "^" -> {CaretRange(t)}
    [] t.prefix = "~" -> {TildeRange(t)}
    [] t.prefix \in {"", "="} ->
         IF Specified(t.parts) = 3 THEN {{Comparator("=", Lower(t))}}
         ELSE IF t.parts[1] = X \/ t.pre # <<>> THEN {}
         ELSE {XRange(t)}
    [] OTHER -> {{Comparator(t.prefix, v)} : v \in Normalised(t)}

\* from - to, where an upper bound that is not complete means "below the next".
ParseHyphenRange(from, to) ==
  {  IF Len(to.parts) = 3
     THEN {Comparator(">=", lo), Comparator("<=", Lower(to))}
     ELSE Between(lo, IF Len(to.parts) = 2 THEN NextMinor(Lower(to)) ELSE NextMajor(Lower(to)))
   : lo \in IF Normalised(to) = {} THEN {} ELSE Normalised(from) }

\* One alternative is [tokens], [from, to], or anything: "", *, x.
Anything == [any |-> TRUE]
Words(tokens) == [tokens |-> tokens]
Hyphen(from, to) == [from |-> from, to |-> to]

ParseComparatorSet(alt) ==
  IF "any" \in DOMAIN alt THEN {{Comparator(">=", V(0, 0, 0))}}
  ELSE IF "tokens" \in DOMAIN alt
  THEN IF \E t \in alt.tokens : ParseToken(t) = {} THEN {}
       ELSE {UNION {UNION ParseToken(t) : t \in alt.tokens}}
  ELSE ParseHyphenRange(alt.from, alt.to)

\* A tag, a URL or a workspace: is not a range: a declaration without
\* alternatives here.
NotARange == {}
Parsed(range) ==
  IF range = NotARange \/ \E alt \in range : ParseComparatorSet(alt) = {}
  THEN {}
  ELSE {{CHOOSE c \in ParseComparatorSet(alt) : TRUE : alt \in range}}

Matches(v, c) ==
  CASE c.op = ">"  -> Precedes(c.version, v)
    [] c.op = ">=" -> AtLeast(v, c.version)
    [] c.op = "<"  -> Precedes(v, c.version)
    [] c.op = "<=" -> AtLeast(c.version, v)
    [] c.op = "="  -> v = c.version

Satisfies(v, sets) == \E set \in sets : \A c \in set : Matches(v, c)
Admits(range, v) == \E sets \in Parsed(range) : Satisfies(v, sets)
=============================================================================
