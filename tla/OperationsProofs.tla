--------------------------- MODULE OperationsProofs ---------------------------
(***************************************************************************)
(* What holds of MigrationAgent and of UnifiedDiff for every tree, every   *)
(* answer of the model and every bound, and of the components that         *)
(* MCOperations puts side by side.                                         *)
(***************************************************************************)
EXTENDS MCOperations, AccountsProofs, ConnectionPoolProofs, FiniteSetTheorems, SequenceTheorems,
        WellFoundedInduction, TLAPS

-----------------------------------------------------------------------------
(* Loops *)

\* A nonempty set of naturals has a least element: of the intervals below its
\* elements one contains no other.
LEMMA LeastElement ==
  ASSUME NEW T \in SUBSET Nat, T # {}
  PROVE  \E x \in T : \A y \in T : x <= y
<1> DEFINE Below == {0 .. n : n \in T}
<1>1. Below \subseteq FiniteSubsetsOf(Nat)
  <2>1. \A n \in T : IsFiniteSet(0 .. n) /\ 0 .. n \subseteq Nat
    <3> TAKE n \in T
    <3> QED
      BY 0 \in Int, n \in Int, FS_Interval
  <2> QED
    BY <2>1 DEF FiniteSubsetsOf
<1>2. Below # {}
  OBVIOUS
<1> HIDE DEF Below
<1>3. \E U \in Below : \A V \in Below : <<V, U>> \notin StrictSubsetOrdering(Nat)
  BY <1>1, <1>2, FS_StrictSubsetOrderingWellFounded, WFMin
<1>4. PICK x \in T : \A V \in Below : <<V, 0 .. x>> \notin StrictSubsetOrdering(Nat)
  BY <1>3 DEF Below
<1>5. ASSUME NEW y \in T, y < x PROVE FALSE
  <2>1. 0 .. y \in Below /\ 0 .. y \subseteq 0 .. x /\ x \in 0 .. x /\ x \notin 0 .. y
    BY <1>5 DEF Below
  <2>2. 0 .. y # 0 .. x /\ 0 .. x \in SUBSET Nat /\ 0 .. y \in SUBSET Nat
    BY <2>1
  <2>3. <<0 .. y, 0 .. x>> \in StrictSubsetOrdering(Nat)
    <3> DEFINE pair == <<0 .. y, 0 .. x>>
    <3>1. pair \in (SUBSET Nat) \X (SUBSET Nat) /\ pair[1] = 0 .. y /\ pair[2] = 0 .. x
      BY <2>2
    <3>2. pair[1] \subseteq pair[2] /\ pair[1] # pair[2]
      BY <2>1, <2>2, <3>1
    <3> HIDE DEF pair
    <3>3. pair \in StrictSubsetOrdering(Nat)
      BY <3>1, <3>2 DEF StrictSubsetOrdering
    <3> QED
      BY <3>3 DEF pair
  <2> QED
    BY <1>4, <2>1, <2>3
<1> QED
  BY <1>5

\* Induction up to a bound, of the members of a set.
LEMMA UpTo ==
  ASSUME NEW L \in Nat, NEW S, 0 \in S, \A n \in 1..L : n - 1 \in S => n \in S
  PROVE  \A n \in 0..L : n \in S
<1> DEFINE T == {n \in 0..L : n \notin S}
<1> SUFFICES ASSUME T # {} PROVE FALSE
  OBVIOUS
<1>1. PICK x \in T : \A y \in T : x <= y
  <2>1. T \in SUBSET Nat
    OBVIOUS
  <2> HIDE DEF T
  <2> QED
    BY <2>1, LeastElement
<1>2. x \in 1..L /\ x - 1 \in 0..L /\ x \notin S
  OBVIOUS
<1>3. x - 1 \notin T
  BY <1>1, <1>2
<1> QED
  BY <1>2, <1>3

\* A loop of L turns on members of R: its states, each made from the last.
IsLoop(f, L, R, base, step) ==
  /\ f \in [0..L -> R] /\ f[0] = base
  /\ \A n \in 1..L : f[n] = step[<<n, f[n - 1]>>]

LEMMA LoopExists ==
  ASSUME NEW L \in Nat, NEW R, NEW base \in R, NEW step \in [(1..L) \X R -> R]
  PROVE  \E f : IsLoop(f, L, R, base, step)
<1> DEFINE S == {l \in 0..L : \E f : IsLoop(f, l, R, base, step)}
<1>1. 0 \in S
  <2> DEFINE f == [n \in 0..0 |-> base]
  <2>1. IsLoop(f, 0, R, base, step)
    BY DEF IsLoop
  <2> QED
    BY <2>1
<1>2. ASSUME NEW l \in 1..L, l - 1 \in S PROVE l \in S
  <2>1. PICK f : IsLoop(f, l - 1, R, base, step)
    BY <1>2
  <2> DEFINE g == [n \in 0..l |-> IF n = l THEN step[<<l, f[l - 1]>>] ELSE f[n]]
  <2>2. /\ f \in [0..l - 1 -> R] /\ f[0] = base /\ f[l - 1] \in R
        /\ \A n \in 1..l - 1 : f[n] = step[<<n, f[n - 1]>>]
    BY <2>1 DEF IsLoop
  <2>3. step[<<l, f[l - 1]>>] \in R
    BY <2>2
  <2>4. g \in [0..l -> R] /\ g[0] = base
    BY <2>2, <2>3
  <2>5. \A n \in 1..l : g[n] = step[<<n, g[n - 1]>>]
    <3> TAKE n \in 1..l
    <3>1. n - 1 \in 0..l /\ n - 1 # l /\ n \in 0..l
      OBVIOUS
    <3>2. g[n - 1] = f[n - 1]
      BY <3>1
    <3>3. CASE n = l
      BY <3>1, <3>2, <3>3
    <3>4. CASE n # l
      BY <2>2, <3>1, <3>2, <3>4
    <3> QED
      BY <3>3, <3>4
  <2>6. IsLoop(g, l, R, base, step)
    BY <2>4, <2>5 DEF IsLoop
  <2> QED
    BY <2>6
<1>3. L \in S
  <2> HIDE DEF S
  <2>1. \A n \in 0..L : n \in S
    BY <1>1, <1>2, UpTo
  <2> QED
    BY <2>1
<1> QED
  BY <1>3

\* Two loops that take the same steps are in the same states.
Alike(f, g, L) == f[0] = g[0] /\ \A n \in 1..L : f[n - 1] = g[n - 1] => f[n] = g[n]

LEMMA LoopsAgree ==
  ASSUME NEW L \in Nat, NEW f, NEW g, Alike(f, g, L)
  PROVE  \A n \in 0..L : f[n] = g[n]
<1> USE DEF Alike
<1> DEFINE S == {n \in 0..L : f[n] = g[n]}
<1>1. 0 \in S /\ \A n \in 1..L : n - 1 \in S => n \in S
  OBVIOUS
<1>2. \A n \in 0..L : n \in S
  <2> HIDE DEF S
  <2> QED
    BY <1>1, UpTo
<1> QED
  BY <1>2

-----------------------------------------------------------------------------
(* Lines *)

Texts  == Seq(Tokens)
Splits == [ended : Seq(Texts), rest : Texts]

LEMMA SplitTyped ==
  ASSUME NEW state \in Splits, NEW token \in Tokens
  PROVE  Split(state, token) \in Splits
BY EmptySeq, AppendProperties DEF Split, Splits, Texts

\* The loop of toLines.
LEMMA SplittingLoops ==
  ASSUME NEW text \in Texts
  PROVE  \E f : /\ f \in [0..Len(text) -> Splits] /\ f[0] = [ended |-> <<>>, rest |-> <<>>]
                /\ \A n \in 1..Len(text) : f[n] = Split(f[n - 1], text[n])
                /\ Splitting(text) = f[Len(text)]
<1> DEFINE L == Len(text)
           base == [ended |-> <<>>, rest |-> <<>>]
           step == [x \in (1..L) \X Splits |-> Split(x[2], text[x[1]])]
           Body(f) == [n \in 0..L |-> IF n = 0 THEN base ELSE Split(f[n - 1], text[n])]
           F == CHOOSE f : f = Body(f)
<1>1. L \in Nat /\ base \in Splits /\ \A n \in 1..L : text[n] \in Tokens
  BY EmptySeq, LenProperties, ElementOfSeq DEF Texts, Splits
<1>2. step \in [(1..L) \X Splits -> Splits]
  BY <1>1, SplitTyped
<1>3. PICK g : IsLoop(g, L, Splits, base, step)
  <2> HIDE DEF L, base, step
  <2> QED
    BY <1>1, <1>2, LoopExists
<1>4. /\ g \in [0..L -> Splits] /\ g[0] = base
      /\ \A n \in 1..L : g[n] = Split(g[n - 1], text[n])
  <2>1. g \in [0..L -> Splits] /\ g[0] = base
    BY <1>3 DEF IsLoop
  <2>2. ASSUME NEW n \in 1..L PROVE g[n] = Split(g[n - 1], text[n])
    <3>1. n - 1 \in 0..L
      BY <1>1
    <3>2. <<n, g[n - 1]>> \in (1..L) \X Splits
      BY <2>1, <3>1
    <3>3. g[n] = step[<<n, g[n - 1]>>]
      BY <1>3 DEF IsLoop
    <3> QED
      BY <3>2, <3>3
  <2> QED
    BY <2>1, <2>2
<1>5. g = Body(g)
  BY <1>1, <1>4
<1>6. F = Body(F)
  BY <1>5
<1>7. Splitting(text) = F[L]
  BY DEF Splitting
<1>8. \A n \in 0..L : F[n] = g[n]
  <2>1. F[0] = g[0]
    <3>1. 0 \in 0..L
      BY <1>1
    <3>2. ASSUME NEW f PROVE Body(f)[0] = base
      <4> HIDE DEF L, base
      <4> QED
        BY <3>1
    <3> HIDE DEF F, base, Body
    <3> QED
      BY <1>4, <1>6, <3>2
  <2>2. ASSUME NEW n \in 1..L, F[n - 1] = g[n - 1] PROVE F[n] = g[n]
    <3> HIDE DEF F, base, step
    <3>1. F[n] = Split(F[n - 1], text[n])
      BY <1>1, <1>6
    <3> QED
      BY <1>4, <2>2, <3>1
  <2> HIDE DEF F, L
  <2>3. L \in Nat /\ Alike(F, g, L)
    BY <1>1, <2>1, <2>2 DEF Alike
  <2> QED
    BY <2>3, LoopsAgree
<1>9. F[L] = g[L]
  <2> HIDE DEF F
  <2> QED
    BY <1>1, <1>8
<1>10. Splitting(text) = g[L]
  BY <1>7, <1>9, Zenon
<1> HIDE DEF F
<1> QED
  BY <1>4, <1>10

LEMMA SplittingTyped ==
  ASSUME NEW text \in Texts
  PROVE  Splitting(text) \in Splits
<1>1. PICK f : f \in [0..Len(text) -> Splits] /\ Splitting(text) = f[Len(text)]
  BY SplittingLoops
<1>2. Len(text) \in 0..Len(text)
  BY LenProperties DEF Texts
<1> QED
  BY <1>1, <1>2

LEMMA SplittingAppend ==
  ASSUME NEW text \in Texts, NEW token \in Tokens
  PROVE  /\ Splitting(<<>>) = [ended |-> <<>>, rest |-> <<>>]
         /\ Splitting(text) \in Splits
         /\ Splitting(Append(text, token)) = Split(Splitting(text), token)
<1> DEFINE longer == Append(text, token)
           L == Len(text)
<1>1. /\ longer \in Texts /\ L \in Nat /\ Len(longer) = L + 1
      /\ \A n \in 1..L : longer[n] = text[n]
      /\ longer[L + 1] = token
  BY AppendProperties, LenProperties DEF Texts
<1> HIDE DEF longer
<1>2. PICK f : /\ f \in [0..L -> Splits] /\ f[0] = [ended |-> <<>>, rest |-> <<>>]
               /\ \A n \in 1..L : f[n] = Split(f[n - 1], text[n])
               /\ Splitting(text) = f[L]
  BY SplittingLoops
<1>3. PICK g : /\ g \in [0..L + 1 -> Splits] /\ g[0] = [ended |-> <<>>, rest |-> <<>>]
               /\ \A n \in 1..L + 1 : g[n] = Split(g[n - 1], longer[n])
               /\ Splitting(longer) = g[L + 1]
  <2>1. PICK g : /\ g \in [0..Len(longer) -> Splits] /\ g[0] = [ended |-> <<>>, rest |-> <<>>]
                 /\ \A n \in 1..Len(longer) : g[n] = Split(g[n - 1], longer[n])
                 /\ Splitting(longer) = g[Len(longer)]
    BY <1>1, SplittingLoops
  <2> QED
    BY <1>1, <2>1
<1>4. f[L] = g[L]
  <2>1. ASSUME NEW n \in 1..L, f[n - 1] = g[n - 1] PROVE f[n] = g[n]
    BY <1>1, <1>2, <1>3, <2>1
  <2>2. f[0] = g[0]
    BY <1>2, <1>3
  <2>3. \A n \in 0..L : f[n] = g[n]
    <3>1. L \in Nat /\ Alike(f, g, L)
      BY <1>1, <2>1, <2>2 DEF Alike
    <3> HIDE DEF L
    <3> QED
      BY <3>1, LoopsAgree
  <2> QED
    BY <1>1, <2>3
<1>5. Splitting(<<>>) = [ended |-> <<>>, rest |-> <<>>]
  <2>1. <<>> \in Texts /\ Len(<<>>) = 0
    BY EmptySeq DEF Texts
  <2>2. PICK h : h[0] = [ended |-> <<>>, rest |-> <<>>] /\ Splitting(<<>>) = h[Len(<<>>)]
    BY <2>1, SplittingLoops
  <2> QED
    BY <2>1, <2>2
<1>6. Splitting(longer) = Split(Splitting(text), token)
  BY <1>1, <1>2, <1>3, <1>4
<1> QED
  BY <1>1, <1>2, <1>5, <1>6 DEF longer

\* No token leaves nothing, and what the last one was can be told.
LEMMA SplitInjective ==
  ASSUME NEW s \in Splits, NEW t \in Splits, NEW x \in Tokens, NEW y \in Tokens
  PROVE  /\ Split(s, x) # [ended |-> <<>>, rest |-> <<>>]
         /\ Split(s, x) = Split(t, y) => s = t /\ x = y
<1> DEFINE none == [ended |-> <<>>, rest |-> <<>>]
<1>1. /\ s.ended \in Seq(Texts) /\ t.ended \in Seq(Texts) /\ s.rest \in Texts /\ t.rest \in Texts
      /\ s = [ended |-> s.ended, rest |-> s.rest] /\ t = [ended |-> t.ended, rest |-> t.rest]
  BY DEF Splits
<1>2. /\ Append(s.ended, s.rest) # <<>>
      /\ Append(s.ended, s.rest) = Append(t.ended, t.rest) => s.ended = t.ended /\ s.rest = t.rest
  <2> DEFINE u == s.ended
             v == t.ended
             w == s.rest
             z == t.rest
  <2>1. u \in Seq(Texts) /\ v \in Seq(Texts) /\ w \in Texts /\ z \in Texts
    BY <1>1
  <2> HIDE DEF u, v, w, z
  <2>2. Append(u, w) # <<>>
    BY <2>1, AppendProperties
  <2>3. Append(u, w) = Append(v, z) => u = v /\ w = z
    BY <2>1, AppendInjective
  <2> QED
    BY <2>2, <2>3 DEF u, v, w, z
<1>3. /\ Append(s.rest, x) # <<>> /\ Append(t.rest, y) # <<>>
      /\ Append(s.rest, x) = Append(t.rest, y) => s.rest = t.rest /\ x = y
  <2>1. s.rest \in Seq(Tokens) /\ t.rest \in Seq(Tokens)
    BY <1>1 DEF Texts
  <2>2. Append(s.rest, x) # <<>> /\ Append(t.rest, y) # <<>>
    BY <2>1, AppendProperties
  <2>3. Append(s.rest, x) = Append(t.rest, y) => s.rest = t.rest /\ x = y
    BY <2>1, AppendInjective
  <2> QED
    BY <2>2, <2>3
<1>4. Split(s, x) # none
  <2>1. CASE x = Newline
    <3>1. Split(s, x).ended # <<>>
      BY <1>2, <2>1 DEF Split
    <3> QED
      BY <3>1
  <2>2. CASE x # Newline
    <3>1. Split(s, x).rest # <<>>
      BY <1>3, <2>2 DEF Split
    <3> QED
      BY <3>1
  <2> QED
    BY <2>1, <2>2
<1>5. ASSUME Split(s, x) = Split(t, y) PROVE s = t /\ x = y
  <2>1. Split(s, x).ended = Split(t, y).ended /\ Split(s, x).rest = Split(t, y).rest
    BY <1>5
  <2>2. CASE x = Newline
    <3>1. y = Newline
      BY <1>3, <2>1, <2>2 DEF Split
    <3> QED
      BY <1>1, <1>2, <2>1, <2>2, <3>1 DEF Split
  <2>3. CASE x # Newline
    <3>1. y # Newline
      BY <1>3, <2>1, <2>3 DEF Split
    <3> QED
      BY <1>1, <1>3, <2>1, <2>3, <3>1 DEF Split
  <2> QED
    BY <2>2, <2>3
<1> QED
  BY <1>4, <1>5

\* Two texts that split alike are one.
LEMMA SplittingInjective ==
  ASSUME NEW x \in Texts, NEW y \in Texts, Splitting(x) = Splitting(y)
  PROVE  x = y
<1> DEFINE L == Len(x)
           Same(n) == \A u \in Texts : Len(u) = n => \A v \in Texts : Splitting(u) = Splitting(v) => u = v
           S == {n \in 0..L : Same(n)}
<1>0. L \in Nat
  BY LenProperties DEF Texts
<1>1. 0 \in S
  <2>1. ASSUME NEW u \in Texts, Len(u) = 0, NEW v \in Texts, Splitting(u) = Splitting(v) PROVE u = v
    <3>1. u = <<>>
      BY <2>1, EmptySeq DEF Texts
    <3>2. CASE v # <<>>
      <4>1. PICK w \in Texts, token \in Tokens : v = Append(w, token)
        BY <3>2, SequenceEmptyOrAppend DEF Texts
      <4>2. Splitting(w) \in Splits /\ Splitting(v) = Split(Splitting(w), token)
        BY <4>1, SplittingAppend
      <4>3. Splitting(u) = [ended |-> <<>>, rest |-> <<>>]
        BY <3>1, <4>1, SplittingAppend
      <4> QED
        BY <2>1, <4>2, <4>3, SplitInjective
    <3> QED
      BY <3>1, <3>2
  <2> QED
    BY <1>0, <2>1
<1>2. ASSUME NEW n \in 1..L, n - 1 \in S PROVE n \in S
  <2>1. ASSUME NEW u \in Texts, Len(u) = n, NEW v \in Texts, Splitting(u) = Splitting(v) PROVE u = v
    <3>1. PICK u1 \in Texts, a \in Tokens : u = Append(u1, a)
      <4>1. u # <<>>
        BY <2>1, EmptySeq DEF Texts
      <4> QED
        BY <4>1, SequenceEmptyOrAppend DEF Texts
    <3>2. Splitting(u1) \in Splits /\ Splitting(u) = Split(Splitting(u1), a) /\ Len(u1) = n - 1
      <4>1. Splitting(u1) \in Splits /\ Splitting(u) = Split(Splitting(u1), a)
        BY <3>1, SplittingAppend
      <4>2. Len(u) = Len(u1) + 1 /\ Len(u1) \in Nat
        BY <3>1, AppendProperties, LenProperties DEF Texts
      <4> QED
        BY <2>1, <4>1, <4>2
    <3>3. v # <<>>
      <4>1. Splitting(<<>>) = [ended |-> <<>>, rest |-> <<>>]
        BY <3>1, SplittingAppend
      <4>2. Splitting(u) # [ended |-> <<>>, rest |-> <<>>]
        BY <3>1, <3>2, SplitInjective
      <4> QED
        BY <2>1, <4>1, <4>2
    <3>4. PICK v1 \in Texts, b \in Tokens : v = Append(v1, b)
      BY <3>3, SequenceEmptyOrAppend DEF Texts
    <3>5. Splitting(v1) \in Splits /\ Splitting(v) = Split(Splitting(v1), b)
      BY <3>4, SplittingAppend
    <3>6. Splitting(u1) = Splitting(v1) /\ a = b
      <4>1. Split(Splitting(u1), a) = Split(Splitting(v1), b)
        BY <2>1, <3>2, <3>5
      <4> QED
        BY <3>1, <3>2, <3>4, <3>5, <4>1, SplitInjective
    <3>7. u1 = v1
      BY <1>2, <3>1, <3>2, <3>4, <3>6
    <3> QED
      BY <3>1, <3>4, <3>6, <3>7
  <2> QED
    BY <2>1
<1>3. L \in S
  <2> HIDE DEF S, L
  <2>1. \A n \in 0..L : n \in S
    BY <1>0, <1>1, <1>2, UpTo
  <2> QED
    BY <1>0, <2>1
<1> QED
  BY <1>3

LEMMA ToLinesFacts ==
  ASSUME NEW x \in Texts
  PROVE  /\ ToLines(x).lines \in Seq(Texts) /\ ToLines(x).open \in BOOLEAN
         /\ ToLines(x).open => ToLines(x).lines # <<>>
<1> DEFINE split == Splitting(x)
<1>1. split.ended \in Seq(Texts) /\ split.rest \in Texts
  BY SplittingLoops, LenProperties DEF Texts, Splits
<1> HIDE DEF split
<1>2. Append(split.ended, split.rest) \in Seq(Texts) /\ Append(split.ended, split.rest) # <<>>
  BY <1>1, AppendProperties
<1>3. ToLines(x) = IF split.rest = <<>> THEN [lines |-> split.ended, open |-> FALSE]
                   ELSE [lines |-> Append(split.ended, split.rest), open |-> TRUE]
  BY DEF ToLines, split
<1> QED
  BY <1>1, <1>2, <1>3

\* Texts of the same lines, ended alike, are one.
LEMMA ToLinesInjective ==
  ASSUME NEW x \in Texts, NEW y \in Texts,
         ToLines(x).lines = ToLines(y).lines, ToLines(x).open = ToLines(y).open
  PROVE  x = y
<1> DEFINE s == Splitting(x)
           t == Splitting(y)
<1>1. s \in Splits /\ t \in Splits
  BY SplittingTyped
<1>2. /\ ToLines(x) = IF s.rest = <<>> THEN [lines |-> s.ended, open |-> FALSE]
                      ELSE [lines |-> Append(s.ended, s.rest), open |-> TRUE]
      /\ ToLines(y) = IF t.rest = <<>> THEN [lines |-> t.ended, open |-> FALSE]
                      ELSE [lines |-> Append(t.ended, t.rest), open |-> TRUE]
  BY DEF ToLines
<1> HIDE DEF s, t
<1>3. /\ s.ended \in Seq(Texts) /\ s.rest \in Texts /\ s = [ended |-> s.ended, rest |-> s.rest]
      /\ t.ended \in Seq(Texts) /\ t.rest \in Texts /\ t = [ended |-> t.ended, rest |-> t.rest]
  BY <1>1 DEF Splits
<1>4. s.ended = t.ended /\ s.rest = t.rest
  <2>1. CASE s.rest = <<>>
    BY <1>2, <2>1
  <2>2. CASE s.rest # <<>>
    <3>1. t.rest # <<>> /\ Append(s.ended, s.rest) = Append(t.ended, t.rest)
      BY <1>2, <2>2
    <3> QED
      BY <1>3, <3>1, AppendInjective
  <2> QED
    BY <2>1, <2>2
<1> QED
  BY <1>3, <1>4, SplittingInjective DEF s, t

-----------------------------------------------------------------------------
(* Paths: what is done to the lines b so that they become the lines a *)

Ops == [kind : {"equal", "delete", "insert"}, text : Texts, old : Nat, new : Nat]

\* One operation, when o lines of b and n lines of a are behind.
Follows(op, b, a, o, n, o2, n2) ==
  \/ /\ op = Equal(b[o2], o2, n2) /\ o2 = o + 1 /\ n2 = n + 1
     /\ o2 <= Len(b) /\ n2 <= Len(a) /\ b[o2] = a[n2]
  \/ op = Delete(b[o2], o2) /\ o2 = o + 1 /\ n2 = n /\ o2 <= Len(b)
  \/ op = Insert(a[n2], n2) /\ o2 = o /\ n2 = n + 1 /\ n2 <= Len(a)

\* O and N are what is behind after each operation.
IsPath(ops, b, a, O, N, o, n, o2, n2) ==
  /\ O \in [0..Len(ops) -> Nat] /\ N \in [0..Len(ops) -> Nat]
  /\ O[0] = o /\ N[0] = n /\ O[Len(ops)] = o2 /\ N[Len(ops)] = n2
  /\ \A k \in 1..Len(ops) : Follows(ops[k], b, a, O[k - 1], N[k - 1], O[k], N[k])

Path(ops, b, a, o, n, o2, n2) ==
  ops \in Seq(Ops) /\ \E O, N : IsPath(ops, b, a, O, N, o, n, o2, n2)

LEMMA FollowsTyped ==
  ASSUME NEW b \in Seq(Texts), NEW a \in Seq(Texts), NEW o \in Nat, NEW n \in Nat,
         NEW o2 \in Nat, NEW n2 \in Nat, NEW op, Follows(op, b, a, o, n, o2, n2)
  PROVE  op \in Ops
<1>1. (o2 \in 1..Len(b) => b[o2] \in Texts) /\ (n2 \in 1..Len(a) => a[n2] \in Texts)
  BY ElementOfSeq
<1>2. Len(b) \in Nat /\ Len(a) \in Nat
  BY LenProperties
<1> QED
  BY <1>1, <1>2 DEF Follows, Ops, Equal, Delete, Insert

LEMMA PathEmpty ==
  ASSUME NEW b, NEW a, NEW o \in Nat, NEW n \in Nat
  PROVE  Path(<<>>, b, a, o, n, o, n)
<1> DEFINE O == [k \in 0..0 |-> o]
           N == [k \in 0..0 |-> n]
<1>1. <<>> \in Seq(Ops) /\ Len(<<>>) = 0
  BY EmptySeq
<1>2. IsPath(<<>>, b, a, O, N, o, n, o, n)
  BY <1>1 DEF IsPath
<1> QED
  BY <1>1, <1>2 DEF Path

LEMMA PathConcat ==
  ASSUME NEW b, NEW a, NEW o, NEW n, NEW o1, NEW n1, NEW o2, NEW n2, NEW p, NEW q,
         Path(p, b, a, o, n, o1, n1), Path(q, b, a, o1, n1, o2, n2)
  PROVE  Path(p \o q, b, a, o, n, o2, n2)
<1>1. PICK O1, N1 : IsPath(p, b, a, O1, N1, o, n, o1, n1)
  BY DEF Path
<1>2. PICK O2, N2 : IsPath(q, b, a, O2, N2, o1, n1, o2, n2)
  BY DEF Path
<1> DEFINE P == Len(p)
           Q == Len(q)
           pq == p \o q
           O == [k \in 0..P + Q |-> IF k <= P THEN O1[k] ELSE O2[k - P]]
           N == [k \in 0..P + Q |-> IF k <= P THEN N1[k] ELSE N2[k - P]]
<1>3. /\ P \in Nat /\ Q \in Nat /\ pq \in Seq(Ops) /\ Len(pq) = P + Q
      /\ \A i \in 1..P + Q : pq[i] = IF i <= P THEN p[i] ELSE q[i - P]
  BY LenProperties, ConcatProperties DEF Path
<1>4. /\ O1 \in [0..P -> Nat] /\ N1 \in [0..P -> Nat]
      /\ O1[0] = o /\ N1[0] = n /\ O1[P] = o1 /\ N1[P] = n1
      /\ \A k \in 1..P : Follows(p[k], b, a, O1[k - 1], N1[k - 1], O1[k], N1[k])
  BY <1>1 DEF IsPath
<1>5. /\ O2 \in [0..Q -> Nat] /\ N2 \in [0..Q -> Nat]
      /\ O2[0] = o1 /\ N2[0] = n1 /\ O2[Q] = o2 /\ N2[Q] = n2
      /\ \A k \in 1..Q : Follows(q[k], b, a, O2[k - 1], N2[k - 1], O2[k], N2[k])
  BY <1>2 DEF IsPath
<1> HIDE DEF P, Q, pq
<1>6. O \in [0..P + Q -> Nat] /\ N \in [0..P + Q -> Nat]
  <2>1. ASSUME NEW k \in 0..P + Q
        PROVE  /\ (IF k <= P THEN O1[k] ELSE O2[k - P]) \in Nat
               /\ (IF k <= P THEN N1[k] ELSE N2[k - P]) \in Nat
    <3>1. CASE k <= P
      BY <1>3, <1>4, <3>1
    <3>2. CASE ~(k <= P)
      <4>1. k - P \in 0..Q
        BY <1>3, <3>2
      <4> QED
        BY <1>5, <3>2, <4>1
    <3> QED
      BY <3>1, <3>2
  <2> QED
    BY <2>1
<1>7. O[0] = o /\ N[0] = n /\ O[P + Q] = o2 /\ N[P + Q] = n2
  <2>1. O[0] = o /\ N[0] = n
    BY <1>3, <1>4
  <2>2. CASE Q = 0
    BY <1>3, <1>4, <1>5, <2>2
  <2>3. CASE Q # 0
    <3>1. P + Q \in 0..P + Q /\ ~(P + Q <= P) /\ (P + Q) - P = Q
      BY <1>3, <2>3
    <3>2. O[P + Q] = O2[Q] /\ N[P + Q] = N2[Q]
      BY <3>1
    <3> QED
      BY <1>5, <2>1, <3>2
  <2> QED
    BY <2>1, <2>2, <2>3
<1>8. ASSUME NEW k \in 1..P + Q
      PROVE  Follows(pq[k], b, a, O[k - 1], N[k - 1], O[k], N[k])
  <2>1. CASE k <= P
    <3>1. O[k - 1] = O1[k - 1] /\ N[k - 1] = N1[k - 1] /\ O[k] = O1[k] /\ N[k] = N1[k] /\ pq[k] = p[k]
      BY <1>3, <2>1
    <3>2. Follows(p[k], b, a, O1[k - 1], N1[k - 1], O1[k], N1[k])
      BY <1>3, <1>4, <2>1
    <3> HIDE DEF O, N
    <3> QED
      BY <3>1, <3>2
  <2>2. CASE ~(k <= P)
    <3>0. k \in 0..P + Q /\ k - P \in 1..Q
      BY <1>3, <2>2
    <3>1. O[k] = O2[k - P] /\ N[k] = N2[k - P] /\ pq[k] = q[k - P] /\ k - P \in 1..Q
      <4>1. O[k] = O2[k - P] /\ N[k] = N2[k - P]
        BY <2>2, <3>0
      <4>2. pq[k] = q[k - P]
        BY <1>3, <2>2
      <4> QED
        BY <3>0, <4>1, <4>2
    <3>2. O[k - 1] = O2[k - P - 1] /\ N[k - 1] = N2[k - P - 1]
      <4>1. CASE k - 1 = P
        <5>1. k - 1 \in 0..P + Q /\ k - 1 <= P /\ k - P - 1 = 0
          BY <1>3, <4>1
        <5>2. O[k - 1] = O1[k - 1] /\ N[k - 1] = N1[k - 1]
          BY <5>1
        <5> QED
          BY <1>4, <1>5, <4>1, <5>1, <5>2
      <4>2. CASE k - 1 # P
        <5>1. k - 1 \in 0..P + Q /\ ~(k - 1 <= P) /\ k - 1 - P = k - P - 1
          BY <1>3, <2>2, <4>2
        <5> QED
          BY <5>1
      <4> QED
        BY <4>1, <4>2
    <3>3. Follows(q[k - P], b, a, O2[k - P - 1], N2[k - P - 1], O2[k - P], N2[k - P])
      BY <1>5, <3>1
    <3> HIDE DEF O, N
    <3> QED
      BY <3>1, <3>2, <3>3
  <2> QED
    BY <2>1, <2>2
<1>9. IsPath(pq, b, a, O, N, o, n, o2, n2)
  <2> HIDE DEF O, N
  <2> QED
    BY <1>3, <1>6, <1>7, <1>8 DEF IsPath
<1> QED
  BY <1>3, <1>9 DEF Path, pq

LEMMA PathAppend ==
  ASSUME NEW b \in Seq(Texts), NEW a \in Seq(Texts), NEW o \in Nat, NEW n \in Nat,
         NEW o1 \in Nat, NEW n1 \in Nat, NEW o2 \in Nat, NEW n2 \in Nat, NEW p, NEW op,
         Path(p, b, a, o, n, o1, n1), Follows(op, b, a, o1, n1, o2, n2)
  PROVE  Path(Append(p, op), b, a, o, n, o2, n2)
<1> DEFINE O == [k \in 0..1 |-> IF k = 0 THEN o1 ELSE o2]
           N == [k \in 0..1 |-> IF k = 0 THEN n1 ELSE n2]
<1>1. op \in Ops
  BY FollowsTyped
<1>2. <<op>> \in Seq(Ops) /\ Len(<<op>>) = 1 /\ <<op>>[1] = op
  BY <1>1
<1>3. IsPath(<<op>>, b, a, O, N, o1, n1, o2, n2)
  <2>1. O \in [0..1 -> Nat] /\ N \in [0..1 -> Nat] /\ O[0] = o1 /\ N[0] = n1 /\ O[1] = o2 /\ N[1] = n2
    OBVIOUS
  <2> HIDE DEF O, N
  <2>2. \A k \in 1..1 : k = 1 /\ k - 1 = 0
    OBVIOUS
  <2>3. \A k \in 1..1 : Follows(<<op>>[k], b, a, O[k - 1], N[k - 1], O[k], N[k])
    BY <1>2, <2>1, <2>2
  <2> QED
    BY <1>2, <2>1, <2>3 DEF IsPath
<1>4. Path(<<op>>, b, a, o1, n1, o2, n2)
  BY <1>2, <1>3 DEF Path
<1>5. Append(p, op) = p \o <<op>>
  BY <1>1, AppendIsConcat DEF Path
<1> QED
  BY <1>4, <1>5, PathConcat

\* The last operation of a path, and the path to it.
LEMMA PathFront ==
  ASSUME NEW b, NEW a, NEW o, NEW n, NEW o2, NEW n2, NEW p, Path(p, b, a, o, n, o2, n2), p # <<>>
  PROVE  \E o1 \in Nat, n1 \in Nat :
           /\ Path(SubSeq(p, 1, Len(p) - 1), b, a, o, n, o1, n1)
           /\ o2 \in Nat /\ n2 \in Nat /\ Follows(p[Len(p)], b, a, o1, n1, o2, n2)
<1>1. PICK O, N : IsPath(p, b, a, O, N, o, n, o2, n2)
  BY DEF Path
<1> DEFINE L == Len(p) - 1
           front == SubSeq(p, 1, L)
           O1 == [k \in 0..L |-> O[k]]
           N1 == [k \in 0..L |-> N[k]]
<1>2. L \in Nat /\ Len(p) = L + 1 /\ \A i \in 1..L : p[i] \in Ops
  BY EmptySeq, ElementOfSeq, LenProperties DEF Path
<1>3. front \in Seq(Ops) /\ Len(front) = L /\ \A i \in 1..L : front[i] = p[i]
  BY <1>2, SubSeqProperties
<1>4. /\ O \in [0..L + 1 -> Nat] /\ N \in [0..L + 1 -> Nat]
      /\ O[0] = o /\ N[0] = n /\ O[L + 1] = o2 /\ N[L + 1] = n2
      /\ \A k \in 1..L + 1 : Follows(p[k], b, a, O[k - 1], N[k - 1], O[k], N[k])
  BY <1>1, <1>2 DEF IsPath
<1> HIDE DEF L, front
<1>5. IsPath(front, b, a, O1, N1, o, n, O[L], N[L])
  <2>1. O1 \in [0..L -> Nat] /\ N1 \in [0..L -> Nat] /\ O1[0] = o /\ N1[0] = n /\ O1[L] = O[L] /\ N1[L] = N[L]
    BY <1>2, <1>4
  <2>2. ASSUME NEW k \in 1..L PROVE Follows(front[k], b, a, O1[k - 1], N1[k - 1], O1[k], N1[k])
    <3>1. O1[k - 1] = O[k - 1] /\ N1[k - 1] = N[k - 1] /\ O1[k] = O[k] /\ N1[k] = N[k] /\ front[k] = p[k]
      BY <1>2, <1>3
    <3>2. Follows(p[k], b, a, O[k - 1], N[k - 1], O[k], N[k])
      BY <1>2, <1>4
    <3> HIDE DEF O1, N1
    <3> QED
      BY <3>1, <3>2
  <2> HIDE DEF O1, N1
  <2> QED
    BY <1>3, <2>1, <2>2 DEF IsPath
<1>6. Follows(p[L + 1], b, a, O[L], N[L], O[L + 1], N[L + 1])
  <2>1. L + 1 \in 1..L + 1 /\ (L + 1) - 1 = L
    BY <1>2
  <2> QED
    BY <1>4, <2>1
<1>7. O[L] \in Nat /\ N[L] \in Nat /\ o2 \in Nat /\ n2 \in Nat
  BY <1>2, <1>4
<1>8. Path(front, b, a, o, n, O[L], N[L])
  BY <1>3, <1>5 DEF Path
<1> QED
  BY <1>2, <1>4, <1>6, <1>7, <1>8 DEF front, L

-----------------------------------------------------------------------------
(* diffLines *)

LEMMA DeletionsPath ==
  ASSUME NEW b \in Seq(Texts), NEW a \in Seq(Texts), NEW i \in Nat, NEW i2 \in Nat, NEW n \in Nat,
         i >= 1, i <= i2 + 1, i2 <= Len(b)
  PROVE  Path(Deletions(b, i, i2), b, a, i - 1, n, i2, n)
<1> DEFINE L == i2 - i + 1
           ops == Deletions(b, i, i2)
           O == [k \in 0..L |-> i - 1 + k]
           N == [k \in 0..L |-> n]
<1>1. L \in Nat /\ Len(b) \in Nat
  BY LenProperties
<1>2. ops = [k \in 1..L |-> Delete(b[i + k - 1], i + k - 1)]
  BY DEF Deletions
<1>3. ASSUME NEW k \in 1..L PROVE Delete(b[i + k - 1], i + k - 1) \in Ops
  <2>1. i + k - 1 \in 1..Len(b)
    BY <1>1
  <2>2. b[i + k - 1] \in Texts
    BY <2>1, ElementOfSeq
  <2> QED
    BY <2>1, <2>2 DEF Delete, Ops
<1> HIDE DEF L, ops
<1>4. ops \in Seq(Ops) /\ Len(ops) = L
  BY <1>1, <1>2, <1>3
<1>5. O \in [0..L -> Nat] /\ N \in [0..L -> Nat] /\ O[0] = i - 1 /\ N[0] = n /\ O[L] = i2 /\ N[L] = n
  BY <1>1 DEF L
<1>6. ASSUME NEW k \in 1..L PROVE Follows(ops[k], b, a, O[k - 1], N[k - 1], O[k], N[k])
  <2>1. ops[k] = Delete(b[i + k - 1], i + k - 1)
    BY <1>2
  <2>2. O[k] = i + k - 1 /\ O[k - 1] = i + k - 2 /\ N[k] = n /\ N[k - 1] = n
    BY <1>1
  <2>3. i + k - 1 <= Len(b) /\ i + k - 1 = (i + k - 2) + 1
    BY <1>1 DEF L
  <2> HIDE DEF O, N
  <2> QED
    BY <2>1, <2>2, <2>3 DEF Follows
<1>7. IsPath(ops, b, a, O, N, i - 1, n, i2, n)
  <2> HIDE DEF O, N
  <2> QED
    BY <1>4, <1>5, <1>6 DEF IsPath
<1> QED
  BY <1>4, <1>7 DEF Path, ops

LEMMA InsertionsPath ==
  ASSUME NEW b \in Seq(Texts), NEW a \in Seq(Texts), NEW j \in Nat, NEW j2 \in Nat, NEW o \in Nat,
         j >= 1, j <= j2 + 1, j2 <= Len(a)
  PROVE  Path(Insertions(a, j, j2), b, a, o, j - 1, o, j2)
<1> DEFINE L == j2 - j + 1
           ops == Insertions(a, j, j2)
           N == [k \in 0..L |-> j - 1 + k]
           O == [k \in 0..L |-> o]
<1>1. L \in Nat /\ Len(a) \in Nat
  BY LenProperties
<1>2. ops = [k \in 1..L |-> Insert(a[j + k - 1], j + k - 1)]
  BY DEF Insertions
<1>3. ASSUME NEW k \in 1..L PROVE Insert(a[j + k - 1], j + k - 1) \in Ops
  <2>1. j + k - 1 \in 1..Len(a)
    BY <1>1
  <2>2. a[j + k - 1] \in Texts
    BY <2>1, ElementOfSeq
  <2> QED
    BY <2>1, <2>2 DEF Insert, Ops
<1> HIDE DEF L, ops
<1>4. ops \in Seq(Ops) /\ Len(ops) = L
  BY <1>1, <1>2, <1>3
<1>5. O \in [0..L -> Nat] /\ N \in [0..L -> Nat] /\ N[0] = j - 1 /\ O[0] = o /\ N[L] = j2 /\ O[L] = o
  BY <1>1 DEF L
<1>6. ASSUME NEW k \in 1..L PROVE Follows(ops[k], b, a, O[k - 1], N[k - 1], O[k], N[k])
  <2>1. ops[k] = Insert(a[j + k - 1], j + k - 1)
    BY <1>2
  <2>2. N[k] = j + k - 1 /\ N[k - 1] = j + k - 2 /\ O[k] = o /\ O[k - 1] = o
    BY <1>1
  <2>3. j + k - 1 <= Len(a) /\ j + k - 1 = (j + k - 2) + 1
    BY <1>1 DEF L
  <2> HIDE DEF O, N
  <2> QED
    BY <2>1, <2>2, <2>3 DEF Follows
<1>7. IsPath(ops, b, a, O, N, o, j - 1, o, j2)
  <2> HIDE DEF O, N
  <2> QED
    BY <1>4, <1>5, <1>6 DEF IsPath
<1> QED
  BY <1>4, <1>7 DEF Path, ops

LEMMA EqualsPath ==
  ASSUME NEW b \in Seq(Texts), NEW a \in Seq(Texts), NEW i \in Nat, NEW j \in Nat, NEW L \in Nat,
         i + L <= Len(b), j + L <= Len(a), \A k \in 1..L : b[i + k] = a[j + k]
  PROVE  Path(Equals(b, i, j, L), b, a, i, j, i + L, j + L)
<1> DEFINE ops == Equals(b, i, j, L)
           O == [k \in 0..L |-> i + k]
           N == [k \in 0..L |-> j + k]
<1>1. Len(a) \in Nat /\ Len(b) \in Nat
  BY LenProperties
<1>2. ops = [k \in 1..L |-> Equal(b[i + k], i + k, j + k)]
  BY DEF Equals
<1>3. ASSUME NEW k \in 1..L PROVE Equal(b[i + k], i + k, j + k) \in Ops
  <2>1. i + k \in 1..Len(b) /\ j + k \in Nat
    BY <1>1
  <2>2. b[i + k] \in Texts
    BY <2>1, ElementOfSeq
  <2> QED
    BY <2>1, <2>2 DEF Equal, Ops
<1> HIDE DEF ops
<1>4. ops \in Seq(Ops) /\ Len(ops) = L
  <2>1. ops \in [1..L -> Ops]
    BY <1>2, <1>3
  <2> QED
    BY <2>1
<1>5. O \in [0..L -> Nat] /\ N \in [0..L -> Nat] /\ O[0] = i /\ N[0] = j /\ O[L] = i + L /\ N[L] = j + L
  OBVIOUS
<1>6. ASSUME NEW k \in 1..L PROVE Follows(ops[k], b, a, O[k - 1], N[k - 1], O[k], N[k])
  <2>1. ops[k] = Equal(b[i + k], i + k, j + k) /\ b[i + k] = a[j + k]
    BY <1>2
  <2>2. O[k] = i + k /\ O[k - 1] = i + k - 1 /\ N[k] = j + k /\ N[k - 1] = j + k - 1
    OBVIOUS
  <2>3. /\ i + k <= Len(b) /\ i + k = (i + k - 1) + 1
        /\ j + k <= Len(a) /\ j + k = (j + k - 1) + 1
    BY <1>1
  <2> HIDE DEF O, N
  <2> QED
    BY <2>1, <2>2, <2>3 DEF Follows
<1>7. IsPath(ops, b, a, O, N, i, j, i + L, j + L)
  <2> HIDE DEF O, N
  <2> QED
    BY <1>4, <1>5, <1>6 DEF IsPath
<1> QED
  BY <1>4, <1>7 DEF Path, ops

\* The greatest number up to a bound such that all below it are in a set.
LEMMA GreatestRun ==
  ASSUME NEW L \in Nat, NEW S
  PROVE  \E h \in 0..L : (\A k \in 1..h : k \in S) /\ (h < L => h + 1 \notin S)
<1>1. CASE \A k \in 1..L : k \in S
  BY <1>1
<1>2. CASE \E k \in 1..L : k \notin S
  <2> DEFINE T == {k \in 1..L : k \notin S}
  <2>1. PICK x \in T : \A y \in T : x <= y
    <3>1. T \in SUBSET Nat /\ T # {}
      BY <1>2
    <3> HIDE DEF T
    <3> QED
      BY <3>1, LeastElement
  <2>2. x - 1 \in 0..L /\ (x - 1) + 1 \notin S
    BY <2>1
  <2>3. ASSUME NEW k \in 1..x - 1 PROVE k \in S
    <3>1. k \notin T /\ k \in 1..L
      BY <2>1
    <3> QED
      BY <3>1
  <2> QED
    BY <2>2, <2>3
<1> QED
  BY <1>1, <1>2

LEMMA HeadAndTail ==
  ASSUME NEW b \in Seq(Texts), NEW a \in Seq(Texts)
  PROVE  LET h == HeadOf(b, a)
             t == TailOf(b, a)
         IN  /\ h \in Nat /\ t \in Nat /\ h + t <= Len(b) /\ h + t <= Len(a)
             /\ \A k \in 1..h : b[k] = a[k]
             /\ \A k \in 0..t - 1 : b[Len(b) - k] = a[Len(a) - k]
<1> DEFINE h == HeadOf(b, a)
           t == TailOf(b, a)
           M == Shorter(Len(b), Len(a))
<1>1. Len(a) \in Nat /\ Len(b) \in Nat /\ M \in Nat /\ M <= Len(a) /\ M <= Len(b)
  BY LenProperties DEF Shorter
<1>2. h \in 0..M /\ \A k \in 1..h : b[k] = a[k]
  <2> DEFINE S == {k \in 1..M : b[k] = a[k]}
  <2>1. PICK g \in 0..M : (\A k \in 1..g : k \in S) /\ (g < M => g + 1 \notin S)
    <3>1. M \in Nat
      BY <1>1
    <3> HIDE DEF S, M
    <3> QED
      BY <3>1, GreatestRun
  <2>2. (\A k \in 1..g : b[k] = a[k]) /\ (g < M => b[g + 1] # a[g + 1])
    BY <1>1, <2>1
  <2> HIDE DEF S
  <2> QED
    BY <2>2 DEF HeadOf
<1> HIDE DEF h
<1>3. M - h \in Nat
  BY <1>1, <1>2
<1>4. t \in 0..M - h /\ \A k \in 0..t - 1 : b[Len(b) - k] = a[Len(a) - k]
  <2> DEFINE R == M - h
             S == {k \in 1..R : b[Len(b) - (k - 1)] = a[Len(a) - (k - 1)]}
  <2>1. PICK g \in 0..R : (\A k \in 1..g : k \in S) /\ (g < R => g + 1 \notin S)
    <3>1. R \in Nat
      BY <1>3
    <3> HIDE DEF S, R
    <3> QED
      BY <3>1, GreatestRun
  <2>2. \A k \in 0..g - 1 : b[Len(b) - k] = a[Len(a) - k]
    <3> TAKE k \in 0..g - 1
    <3>1. k + 1 \in 1..g /\ (k + 1) - 1 = k
      BY <1>3
    <3>2. k + 1 \in S
      BY <2>1, <3>1
    <3> QED
      BY <3>1, <3>2
  <2>3. g < R => b[Len(b) - g] # a[Len(a) - g]
    <3> SUFFICES ASSUME g < R PROVE b[Len(b) - g] # a[Len(a) - g]
      OBVIOUS
    <3>1. g + 1 \in 1..R /\ (g + 1) - 1 = g /\ g + 1 \notin S
      BY <1>3, <2>1
    <3> QED
      BY <3>1
  <2>4. t = CHOOSE u \in 0..R : /\ \A k \in 0..u - 1 : b[Len(b) - k] = a[Len(a) - k]
                                /\ u < R => b[Len(b) - u] # a[Len(a) - u]
    BY DEF TailOf, h
  <2> HIDE DEF S, R, t
  <2>5. t \in 0..R /\ \A k \in 0..t - 1 : b[Len(b) - k] = a[Len(a) - k]
    BY <2>2, <2>3, <2>4
  <2> QED
    BY <2>5 DEF R
<1> HIDE DEF t, M
<1> QED
  BY <1>1, <1>2, <1>3, <1>4 DEF h, t

Ats(i1, i2, j1, j2) == [i : i1..i2 + 1, j : j1..j2 + 1, ops : Seq(Ops)]

\* One operation, or nothing when nothing is left.
EqualNext(next, at, b, a) ==
  next = [i |-> at.i + 1, j |-> at.j + 1, ops |-> Append(at.ops, Equal(b[at.i], at.i, at.j))]
DeleteNext(next, at, b) ==
  next = [i |-> at.i + 1, j |-> at.j, ops |-> Append(at.ops, Delete(b[at.i], at.i))]
InsertNext(next, at, a) ==
  next = [i |-> at.i, j |-> at.j + 1, ops |-> Append(at.ops, Insert(a[at.j], at.j))]

Advanced(next, at, b, a, i2, j2) ==
  \/ at.i <= i2 /\ at.j <= j2 /\ b[at.i] = a[at.j] /\ EqualNext(next, at, b, a)
  \/ at.i <= i2 /\ DeleteNext(next, at, b)
  \/ at.j <= j2 /\ InsertNext(next, at, a)
  \/ at.i = i2 + 1 /\ at.j = j2 + 1 /\ next = at

LEMMA AdvanceCases ==
  ASSUME NEW b, NEW a, NEW i1 \in Nat, NEW i2 \in Nat, NEW j1 \in Nat, NEW j2 \in Nat,
         NEW at \in Ats(i1, i2, j1, j2), NEW common
  PROVE  Advanced(Advance(at, b, a, i2, j2, common), at, b, a, i2, j2)
<1> DEFINE more == common[at.i + 1, at.j] >= common[at.i, at.j + 1]
           same == b[at.i] = a[at.j]
           equal == [i |-> at.i + 1, j |-> at.j + 1, ops |-> Append(at.ops, Equal(b[at.i], at.i, at.j))]
           delete == [i |-> at.i + 1, j |-> at.j, ops |-> Append(at.ops, Delete(b[at.i], at.i))]
           insert == [i |-> at.i, j |-> at.j + 1, ops |-> Append(at.ops, Insert(a[at.j], at.j))]
           first == at.i <= i2 /\ at.j <= j2 /\ same
           second == at.i <= i2 /\ (at.j <= j2 => ~same /\ more)
           third == at.j <= j2 /\ (at.i <= i2 => ~same /\ ~more)
           next == Advance(at, b, a, i2, j2, common)
<1>1. next = CASE first -> equal [] second -> delete [] third -> insert [] OTHER -> at
  BY DEF Advance
<1>2. at.i \in i1..i2 + 1 /\ at.j \in j1..j2 + 1
  BY DEF Ats
<1>3. ~first /\ ~second /\ ~third => at.i = i2 + 1 /\ at.j = j2 + 1
  <2> HIDE DEF more, same
  <2> QED
    BY <1>2
<1>4. (first => ~second /\ ~third) /\ (second => ~third)
  <2> HIDE DEF more, same
  <2> QED
    BY <1>2
<1>5. /\ first => at.i <= i2 /\ at.j <= j2 /\ same
      /\ second => at.i <= i2
      /\ third => at.j <= j2
  OBVIOUS
<1>6. first \in BOOLEAN /\ second \in BOOLEAN /\ third \in BOOLEAN
  OBVIOUS
<1> HIDE DEF first, second, third, next, equal, delete, insert
<1>7. CASE first
  <2>1. next = equal
    BY <1>1, <1>4, <1>6, <1>7
  <2> QED
    BY <1>5, <1>7, <2>1 DEF Advanced, EqualNext, equal, next
<1>8. CASE ~first /\ second
  <2>1. next = delete
    BY <1>1, <1>4, <1>6, <1>8
  <2> QED
    BY <1>5, <1>8, <2>1 DEF Advanced, DeleteNext, delete, next
<1>9. CASE ~first /\ ~second /\ third
  <2>1. next = insert
    BY <1>1, <1>4, <1>6, <1>9
  <2> QED
    BY <1>5, <1>9, <2>1 DEF Advanced, InsertNext, insert, next
<1>10. CASE ~first /\ ~second /\ ~third
  <2>1. next = at
    BY <1>1, <1>6, <1>10
  <2> QED
    BY <1>3, <1>10, <2>1 DEF Advanced, next
<1> QED
  BY <1>7, <1>8, <1>9, <1>10

LEMMA AdvanceTyped ==
  ASSUME NEW b \in Seq(Texts), NEW a \in Seq(Texts),
         NEW i1 \in Nat, NEW i2 \in Nat, NEW j1 \in Nat, NEW j2 \in Nat, i1 >= 1, j1 >= 1,
         i2 <= Len(b), j2 <= Len(a),
         NEW at \in Ats(i1, i2, j1, j2), NEW common
  PROVE  Advance(at, b, a, i2, j2, common) \in Ats(i1, i2, j1, j2)
<1> DEFINE next == Advance(at, b, a, i2, j2, common)
<1>1. Advanced(next, at, b, a, i2, j2)
  BY AdvanceCases
<1> HIDE DEF next
<1>2. at.i \in i1..i2 + 1 /\ at.j \in j1..j2 + 1 /\ at.ops \in Seq(Ops)
  BY DEF Ats
<1>3. Len(b) \in Nat /\ Len(a) \in Nat
  BY LenProperties
<1>4. (at.i <= i2 => b[at.i] \in Texts) /\ (at.j <= j2 => a[at.j] \in Texts)
  <2>1. (at.i <= i2 => at.i \in 1..Len(b)) /\ (at.j <= j2 => at.j \in 1..Len(a))
    BY <1>2, <1>3
  <2> QED
    BY <2>1, ElementOfSeq
<1>5. /\ (at.i <= i2 => Equal(b[at.i], at.i, at.j) \in Ops /\ Delete(b[at.i], at.i) \in Ops)
      /\ (at.j <= j2 => Insert(a[at.j], at.j) \in Ops)
  BY <1>2, <1>4 DEF Ops, Equal, Delete, Insert
<1>6. \A op \in Ops : Append(at.ops, op) \in Seq(Ops)
  BY <1>2, AppendProperties
<1>7. CASE at.i <= i2 /\ at.j <= j2 /\ EqualNext(next, at, b, a)
  <2> DEFINE op == Equal(b[at.i], at.i, at.j)
             x == at.i
             y == at.j
  <2>1. op \in Ops /\ Append(at.ops, op) \in Seq(Ops)
    BY <1>5, <1>6, <1>7
  <2>2. next = [i |-> x + 1, j |-> y + 1, ops |-> Append(at.ops, op)]
    BY <1>7 DEF EqualNext
  <2>3. x + 1 \in i1..i2 + 1 /\ y + 1 \in j1..j2 + 1
    <3>1. x \in i1..i2 /\ y \in j1..j2
      BY <1>2, <1>7
    <3> HIDE DEF x, y
    <3> QED
      BY <3>1
  <2> HIDE DEF x, y, op, next
  <2> QED
    BY <2>1, <2>2, <2>3 DEF Ats, next
<1>8. CASE at.i <= i2 /\ DeleteNext(next, at, b)
  BY <1>2, <1>5, <1>6, <1>8 DEF DeleteNext, Ats, next
<1>9. CASE at.j <= j2 /\ InsertNext(next, at, a)
  BY <1>2, <1>5, <1>6, <1>9 DEF InsertNext, Ats, next
<1> QED
  BY <1>1, <1>7, <1>8, <1>9 DEF Advanced, next

\* What is done so far leads to the next lines, and each turn gets nearer.
Walked(at, n, b, a, i1, i2, j1, j2) ==
  /\ at \in Ats(i1, i2, j1, j2)
  /\ Path(at.ops, b, a, i1 - 1, j1 - 1, at.i - 1, at.j - 1)
  /\ at.i + at.j >= i1 + j1 + n \/ (at.i = i2 + 1 /\ at.j = j2 + 1)

LEMMA AdvanceKeeps ==
  ASSUME NEW b \in Seq(Texts), NEW a \in Seq(Texts),
         NEW i1 \in Nat, NEW i2 \in Nat, NEW j1 \in Nat, NEW j2 \in Nat, i1 >= 1, j1 >= 1,
         i2 <= Len(b), j2 <= Len(a),
         NEW at, NEW common, NEW n \in Nat, Walked(at, n, b, a, i1, i2, j1, j2)
  PROVE  Walked(Advance(at, b, a, i2, j2, common), n + 1, b, a, i1, i2, j1, j2)
<1> DEFINE next == Advance(at, b, a, i2, j2, common)
<1>0. at \in Ats(i1, i2, j1, j2) /\ Path(at.ops, b, a, i1 - 1, j1 - 1, at.i - 1, at.j - 1)
  BY DEF Walked
<1>1. Advanced(next, at, b, a, i2, j2)
  BY <1>0, AdvanceCases
<1>2. next \in Ats(i1, i2, j1, j2)
  BY <1>0, AdvanceTyped
<1> HIDE DEF next
<1>3. /\ at.i \in i1..i2 + 1 /\ at.j \in j1..j2 + 1
      /\ i1 - 1 \in Nat /\ j1 - 1 \in Nat /\ at.i - 1 \in Nat /\ at.j - 1 \in Nat /\ at.i \in Nat /\ at.j \in Nat
  BY <1>0 DEF Ats
<1>4. (at.i <= i2 => at.i <= Len(b)) /\ (at.j <= j2 => at.j <= Len(a))
  <2>1. Len(b) \in Nat /\ Len(a) \in Nat
    BY LenProperties
  <2> DEFINE x == at.i
             y == at.j
  <2>2. x \in Nat /\ y \in Nat
    BY <1>3
  <2> HIDE DEF x, y
  <2>3. (x <= i2 => x <= Len(b)) /\ (y <= j2 => y <= Len(a))
    BY <2>1, <2>2
  <2> QED
    BY <2>3 DEF x, y
<1>5. CASE at.i <= i2 /\ at.j <= j2 /\ b[at.i] = a[at.j] /\ EqualNext(next, at, b, a)
  <2> DEFINE op == Equal(b[at.i], at.i, at.j)
  <2>1. Follows(op, b, a, at.i - 1, at.j - 1, at.i, at.j)
    <3>0. \A x \in Nat : x = (x - 1) + 1
      OBVIOUS
    <3>1. at.i = (at.i - 1) + 1 /\ at.j = (at.j - 1) + 1
      BY <1>3, <3>0, Zenon
    <3> QED
      BY <1>4, <1>5, <3>1 DEF Follows
  <2>2. next.i = at.i + 1 /\ next.j = at.j + 1
    BY <1>5 DEF EqualNext
  <2>0. next.ops = Append(at.ops, op)
    BY <1>5 DEF EqualNext
  <2> HIDE DEF op
  <2>3. Path(Append(at.ops, op), b, a, i1 - 1, j1 - 1, at.i, at.j)
    BY <1>0, <1>3, <2>1, PathAppend
  <2>4. next.i - 1 = at.i /\ next.j - 1 = at.j
    <3>1. \A x \in Nat : (x + 1) - 1 = x
      OBVIOUS
    <3> QED
      BY <1>3, <2>2, <3>1
  <2>5. next.i + next.j >= i1 + j1 + (n + 1)
    <3>1. at.i + at.j >= i1 + j1 + n
      BY <1>3, <1>5 DEF Walked
    <3> DEFINE x == at.i
               y == at.j
               u == next.i
               v == next.j
    <3>2. x \in Nat /\ y \in Nat /\ x + y >= i1 + j1 + n
      BY <1>3, <3>1
    <3>3. (u = x + 1 /\ v = y + 1) \/ (u = x + 1 /\ v = y) \/ (u = x /\ v = y + 1)
      BY <2>2
    <3> HIDE DEF x, y, u, v
    <3>4. u + v >= i1 + j1 + (n + 1)
      BY <3>2, <3>3
    <3> QED
      BY <3>4 DEF u, v
  <2> QED
    BY <1>2, <2>0, <2>3, <2>4, <2>5 DEF Walked, next
<1>6. CASE at.i <= i2 /\ DeleteNext(next, at, b)
  <2> DEFINE op == Delete(b[at.i], at.i)
  <2>1. Follows(op, b, a, at.i - 1, at.j - 1, at.i, at.j - 1)
    <3>0. \A x \in Nat : x = (x - 1) + 1
      OBVIOUS
    <3>1. at.i = (at.i - 1) + 1
      BY <1>3, <3>0, Zenon
    <3> QED
      BY <1>4, <1>6, <3>1 DEF Follows
  <2>2. next.i = at.i + 1 /\ next.j = at.j
    BY <1>6 DEF DeleteNext
  <2>0. next.ops = Append(at.ops, op)
    BY <1>6 DEF DeleteNext
  <2> HIDE DEF op
  <2>3. Path(Append(at.ops, op), b, a, i1 - 1, j1 - 1, at.i, at.j - 1)
    BY <1>0, <1>3, <2>1, PathAppend
  <2>4. next.i - 1 = at.i /\ next.j - 1 = at.j - 1
    BY <1>3, <2>2
  <2>5. next.i + next.j >= i1 + j1 + (n + 1)
    <3>1. at.i + at.j >= i1 + j1 + n
      BY <1>3, <1>6 DEF Walked
    <3> DEFINE x == at.i
               y == at.j
               u == next.i
               v == next.j
    <3>2. x \in Nat /\ y \in Nat /\ x + y >= i1 + j1 + n
      BY <1>3, <3>1
    <3>3. (u = x + 1 /\ v = y + 1) \/ (u = x + 1 /\ v = y) \/ (u = x /\ v = y + 1)
      BY <2>2
    <3> HIDE DEF x, y, u, v
    <3>4. u + v >= i1 + j1 + (n + 1)
      BY <3>2, <3>3
    <3> QED
      BY <3>4 DEF u, v
  <2> QED
    BY <1>2, <2>0, <2>3, <2>4, <2>5 DEF Walked, next
<1>7. CASE at.j <= j2 /\ InsertNext(next, at, a)
  <2> DEFINE op == Insert(a[at.j], at.j)
  <2>1. Follows(op, b, a, at.i - 1, at.j - 1, at.i - 1, at.j)
    <3>1. at.j = (at.j - 1) + 1
      BY <1>3
    <3> QED
      BY <1>4, <1>7, <3>1 DEF Follows
  <2>2. next.i = at.i /\ next.j = at.j + 1
    BY <1>7 DEF InsertNext
  <2>0. next.ops = Append(at.ops, op)
    BY <1>7 DEF InsertNext
  <2> HIDE DEF op
  <2>3. Path(Append(at.ops, op), b, a, i1 - 1, j1 - 1, at.i - 1, at.j)
    BY <1>0, <1>3, <2>1, PathAppend
  <2>4. next.i - 1 = at.i - 1 /\ next.j - 1 = at.j
    BY <1>3, <2>2
  <2>5. next.i + next.j >= i1 + j1 + (n + 1)
    <3>1. at.i + at.j >= i1 + j1 + n
      BY <1>3, <1>7 DEF Walked
    <3> DEFINE x == at.i
               y == at.j
               u == next.i
               v == next.j
    <3>2. x \in Nat /\ y \in Nat /\ x + y >= i1 + j1 + n
      BY <1>3, <3>1
    <3>3. (u = x + 1 /\ v = y + 1) \/ (u = x + 1 /\ v = y) \/ (u = x /\ v = y + 1)
      BY <2>2
    <3> HIDE DEF x, y, u, v
    <3>4. u + v >= i1 + j1 + (n + 1)
      BY <3>2, <3>3
    <3> QED
      BY <3>4 DEF u, v
  <2> QED
    BY <1>2, <2>0, <2>3, <2>4, <2>5 DEF Walked, next
<1>8. CASE at.i = i2 + 1 /\ at.j = j2 + 1 /\ next = at
  BY <1>0, <1>8 DEF Walked, next
<1> QED
  BY <1>1, <1>5, <1>6, <1>7, <1>8 DEF Advanced, next

LEMMA WalkPath ==
  ASSUME NEW b \in Seq(Texts), NEW a \in Seq(Texts),
         NEW i1 \in Nat, NEW i2 \in Nat, NEW j1 \in Nat, NEW j2 \in Nat, i1 >= 1, j1 >= 1,
         i2 <= Len(b), j2 <= Len(a), i1 <= i2 + 1, j1 <= j2 + 1
  PROVE  Path(Walk(b, a, i1, i2, j1, j2), b, a, i1 - 1, j1 - 1, i2, j2)
<1> DEFINE L == (i2 - i1 + 1) + (j2 - j1 + 1)
           common == Common(b, a, i1, i2, j1, j2)
           R == Ats(i1, i2, j1, j2)
           base == [i |-> i1, j |-> j1, ops |-> <<>>]
           step == [x \in (1..L) \X R |-> Advance(x[2], b, a, i2, j2, common)]
           Body(f) == [n \in 0..L |-> IF n = 0 THEN base ELSE Advance(f[n - 1], b, a, i2, j2, common)]
           F == CHOOSE f : f = Body(f)
<1>0. Walk(b, a, i1, i2, j1, j2) = F[L].ops
  BY DEF Walk
<1> HIDE DEF common
<1>1. L \in Nat /\ base \in R
  BY EmptySeq DEF Ats
<1>2. step \in [(1..L) \X R -> R]
  BY AdvanceTyped
<1>3. PICK g : IsLoop(g, L, R, base, step)
  <2> HIDE DEF L, base, step, R
  <2> QED
    BY <1>1, <1>2, LoopExists
<1>4. /\ g \in [0..L -> R] /\ g[0] = base
      /\ \A n \in 1..L : g[n] = Advance(g[n - 1], b, a, i2, j2, common)
  <2>1. g \in [0..L -> R] /\ g[0] = base
    BY <1>3 DEF IsLoop
  <2>2. ASSUME NEW n \in 1..L PROVE g[n] = Advance(g[n - 1], b, a, i2, j2, common)
    <3>1. n - 1 \in 0..L
      BY <1>1
    <3>2. <<n, g[n - 1]>> \in (1..L) \X R
      BY <2>1, <3>1
    <3>3. g[n] = step[<<n, g[n - 1]>>]
      BY <1>3 DEF IsLoop
    <3> QED
      BY <3>2, <3>3
  <2> QED
    BY <2>1, <2>2
<1> HIDE DEF L, R, base
<1>5. g = Body(g)
  BY <1>1, <1>4
<1>6. F = Body(F)
  BY <1>5
<1> HIDE DEF F
<1>7. /\ F[0] = base
      /\ \A n \in 1..L : F[n] = Advance(F[n - 1], b, a, i2, j2, common)
  BY <1>1, <1>6
<1> HIDE DEF step
<1>8. Walked(F[L], L, b, a, i1, i2, j1, j2)
  <2> DEFINE S == {n \in 0..L : Walked(F[n], n, b, a, i1, i2, j1, j2)}
  <2>1. 0 \in S
    <3>1. Path(<<>>, b, a, i1 - 1, j1 - 1, i1 - 1, j1 - 1)
      BY PathEmpty
    <3>2. base.i = i1 /\ base.j = j1 /\ base.ops = <<>>
      BY DEF base
    <3>3. Walked(base, 0, b, a, i1, i2, j1, j2)
      BY <1>1, <3>1, <3>2 DEF Walked, R
    <3> QED
      BY <1>1, <1>7, <3>3
  <2>2. ASSUME NEW n \in 1..L, n - 1 \in S PROVE n \in S
    <3>1. n - 1 \in Nat /\ Walked(F[n - 1], n - 1, b, a, i1, i2, j1, j2) /\ (n - 1) + 1 = n
      BY <2>2
    <3>2. Walked(Advance(F[n - 1], b, a, i2, j2, common), (n - 1) + 1, b, a, i1, i2, j1, j2)
      BY <3>1, AdvanceKeeps
    <3>3. F[n] = Advance(F[n - 1], b, a, i2, j2, common)
      BY <1>7
    <3> QED
      BY <3>1, <3>2, <3>3
  <2>3. L \in S
    <3> HIDE DEF S
    <3>1. \A n \in 0..L : n \in S
      BY <1>1, <2>1, <2>2, UpTo
    <3> QED
      BY <1>1, <3>1
  <2> QED
    BY <2>3
<1>9. F[L].i = i2 + 1 /\ F[L].j = j2 + 1
  <2>1. /\ F[L].i \in i1..i2 + 1 /\ F[L].j \in j1..j2 + 1
        /\ F[L].i + F[L].j >= i1 + j1 + L \/ (F[L].i = i2 + 1 /\ F[L].j = j2 + 1)
    BY <1>8 DEF Walked, Ats
  <2> DEFINE x == F[L].i
             y == F[L].j
  <2>2. x \in i1..i2 + 1 /\ y \in j1..j2 + 1 /\ (x + y >= i1 + j1 + L \/ (x = i2 + 1 /\ y = j2 + 1))
    BY <2>1
  <2> HIDE DEF x, y
  <2>3. x = i2 + 1 /\ y = j2 + 1
    BY <2>2 DEF L
  <2> QED
    BY <2>3 DEF x, y
<1>10. Path(F[L].ops, b, a, i1 - 1, j1 - 1, i2, j2)
  <2>1. F[L].i - 1 = i2 /\ F[L].j - 1 = j2
    BY <1>9
  <2> QED
    BY <1>8, <2>1 DEF Walked
<1> QED
  BY <1>0, <1>10

\* diffLines makes one text's lines the other's.
LEMMA DiffLinesPath ==
  ASSUME NEW b \in Seq(Texts), NEW a \in Seq(Texts)
  PROVE  Path(DiffLines(b, a), b, a, 0, 0, Len(b), Len(a))
<1> DEFINE h == HeadOf(b, a)
           t == TailOf(b, a)
           i2 == Len(b) - t
           j2 == Len(a) - t
           middle == DiffMiddle(b, a, h + 1, i2, h + 1, j2)
<1>1. /\ h \in Nat /\ t \in Nat /\ h + t <= Len(b) /\ h + t <= Len(a)
      /\ \A k \in 1..h : b[k] = a[k]
      /\ \A k \in 0..t - 1 : b[Len(b) - k] = a[Len(a) - k]
  BY HeadAndTail
<1>2. DiffLines(b, a) = Equals(b, 0, 0, h) \o middle \o Equals(b, i2, j2, t)
  BY DEF DiffLines
<1> HIDE DEF h, t
<1>3. Len(b) \in Nat /\ Len(a) \in Nat /\ i2 \in Nat /\ j2 \in Nat
  BY <1>1, LenProperties
<1>4. Path(Equals(b, 0, 0, h), b, a, 0, 0, h, h)
  <2>1. /\ 0 + h <= Len(b) /\ 0 + h <= Len(a) /\ 0 + h = h
        /\ \A k \in 1..h : b[0 + k] = a[0 + k]
    BY <1>1, <1>3
  <2>2. Path(Equals(b, 0, 0, h), b, a, 0, 0, 0 + h, 0 + h)
    BY <1>1, <2>1, EqualsPath
  <2> QED
    BY <2>1, <2>2
<1>5. Path(middle, b, a, h, h, i2, j2)
  <2>1. /\ h + 1 \in Nat /\ h + 1 >= 1 /\ i2 <= Len(b) /\ j2 <= Len(a)
        /\ h + 1 <= i2 + 1 /\ h + 1 <= j2 + 1 /\ (h + 1) - 1 = h
    BY <1>1, <1>3
  <2> DEFINE h1 == h + 1
  <2> HIDE DEF i2, j2, h1
  <2>2. Path(Walk(b, a, h1, i2, h1, j2), b, a, h1 - 1, h1 - 1, i2, j2)
    BY <1>3, <2>1, WalkPath DEF h1
  <2>3. Path(Deletions(b, h1, i2) \o Insertions(a, h1, j2), b, a, h1 - 1, h1 - 1, i2, j2)
    <3>1. h1 - 1 \in Nat /\ h1 - 1 = h
      BY <1>1, <2>1 DEF h1
    <3>2. Path(Deletions(b, h1, i2), b, a, h1 - 1, h1 - 1, i2, h1 - 1)
      BY <1>1, <1>3, <2>1, <3>1, DeletionsPath DEF h1
    <3>3. Path(Insertions(a, h1, j2), b, a, i2, h1 - 1, i2, j2)
      BY <1>1, <1>3, <2>1, <3>1, InsertionsPath DEF h1
    <3> QED
      BY <3>2, <3>3, PathConcat
  <2>4. Path(DiffMiddle(b, a, h1, i2, h1, j2), b, a, h1 - 1, h1 - 1, i2, j2)
    BY <2>2, <2>3 DEF DiffMiddle
  <2> QED
    BY <2>1, <2>4 DEF h1
<1>6. Path(Equals(b, i2, j2, t), b, a, i2, j2, Len(b), Len(a))
  <2>1. i2 + t = Len(b) /\ j2 + t = Len(a)
    BY <1>1, <1>3
  <2>2. ASSUME NEW k \in 1..t PROVE b[i2 + k] = a[j2 + k]
    <3>1. t - k \in 0..t - 1 /\ Len(b) - (t - k) = i2 + k /\ Len(a) - (t - k) = j2 + k
      BY <1>1, <1>3
    <3>2. b[Len(b) - (t - k)] = a[Len(a) - (t - k)]
      BY <1>1, <3>1
    <3> QED
      BY <3>1, <3>2
  <2>3. i2 + t <= Len(b) /\ j2 + t <= Len(a)
    BY <1>3, <2>1
  <2> HIDE DEF i2, j2
  <2>4. Path(Equals(b, i2, j2, t), b, a, i2, j2, i2 + t, j2 + t)
    BY <1>1, <1>3, <2>2, <2>3, EqualsPath
  <2> QED
    BY <2>1, <2>4
<1> HIDE DEF i2, j2, middle
<1>7. Path(Equals(b, 0, 0, h) \o middle, b, a, 0, 0, i2, j2)
  BY <1>4, <1>5, PathConcat
<1>8. Path((Equals(b, 0, 0, h) \o middle) \o Equals(b, i2, j2, t), b, a, 0, 0, Len(b), Len(a))
  BY <1>6, <1>7, PathConcat
<1> QED
  BY <1>2, <1>8

\* Rewriting the last line changes nothing.
LEMMA ReopenedPath ==
  ASSUME NEW b \in Seq(Texts), NEW a \in Seq(Texts), NEW ops, NEW before, NEW after,
         Path(ops, b, a, 0, 0, Len(b), Len(a))
  PROVE  Path(Reopened(ops, before, after), b, a, 0, 0, Len(b), Len(a))
<1> DEFINE last == ops[Len(ops)]
           front == SubSeq(ops, 1, Len(ops) - 1)
           d == Delete(last.text, last.old)
           i == Insert(last.text, last.new)
<1>1. CASE ~(before.open # after.open /\ ops # <<>> /\ last.kind = "equal")
  BY <1>1 DEF Reopened
<1>2. CASE before.open # after.open /\ ops # <<>> /\ last.kind = "equal"
  <2>1. PICK o1 \in Nat, n1 \in Nat :
          /\ Path(front, b, a, 0, 0, o1, n1)
          /\ Len(b) \in Nat /\ Len(a) \in Nat /\ Follows(last, b, a, o1, n1, Len(b), Len(a))
    BY <1>2, PathFront
  <2> HIDE DEF last, front
  <2>2. /\ last = Equal(b[Len(b)], Len(b), Len(a)) /\ Len(b) = o1 + 1 /\ Len(a) = n1 + 1
        /\ b[Len(b)] = a[Len(a)]
    BY <1>2, <2>1 DEF Follows, Equal, Delete, Insert
  <2>3. d = Delete(b[Len(b)], Len(b)) /\ i = Insert(a[Len(a)], Len(a))
    BY <2>2 DEF Equal
  <2> HIDE DEF d, i
  <2>4. Follows(d, b, a, o1, n1, Len(b), n1) /\ Follows(i, b, a, Len(b), n1, Len(b), Len(a))
    BY <2>1, <2>2, <2>3 DEF Follows
  <2>5. 0 \in Nat
    OBVIOUS
  <2>6. Path(Append(front, d), b, a, 0, 0, Len(b), n1)
    BY <2>1, <2>4, <2>5, PathAppend
  <2>7. Path(Append(Append(front, d), i), b, a, 0, 0, Len(b), Len(a))
    BY <2>1, <2>4, <2>5, <2>6, PathAppend
  <2>8. Append(Append(front, d), i) = front \o <<d, i>>
    <3>1. front \in Seq(Ops) /\ d \in Ops /\ i \in Ops
      BY <2>1, <2>4, <2>5, FollowsTyped DEF Path
    <3> QED
      BY <3>1
  <2>9. Reopened(ops, before, after) = front \o <<d, i>>
    BY <1>2 DEF Reopened, last, front, d, i
  <2> QED
    BY <2>7, <2>8, <2>9
<1> QED
  BY <1>1, <1>2

-----------------------------------------------------------------------------
(* What the policy reads *)

Printable == [is : {"hunk"}, start : Int] \cup [is : {"equal", "delete", "insert"}, text : Texts]
             \cup {[is |-> "no newline"]}
Seen      == [kind : {"added", "context", "removed"}, text : Texts, number : Int]
Readings  == [cursor : Int, lines : Seq(Seen)]

At(cursor, lines) == [cursor |-> cursor, lines |-> lines]
Body(kind, text)  == [is |-> kind, text |-> text]

LEMMA ReadInsert ==
  ASSUME NEW c, NEW lines, NEW text
  PROVE  ReadLine(At(c, lines), Body("insert", text))
           = IF StartsWith(text, Plusses) THEN At(c, lines)
             ELSE At(c + 1, Append(lines, DiffLine("added", text, c)))
BY DEF ReadLine, At, Body, LooksLikeHeader

LEMMA ReadDelete ==
  ASSUME NEW c, NEW lines, NEW text
  PROVE  ReadLine(At(c, lines), Body("delete", text))
           = IF StartsWith(text, Dashes) THEN At(c, lines)
             ELSE At(c, Append(lines, DiffLine("removed", text, 0)))
BY DEF ReadLine, At, Body, LooksLikeHeader

LEMMA ReadLineCases ==
  ASSUME NEW c \in Int, NEW lines \in Seq(Seen)
  PROVE  /\ \A start : ReadLine(At(c, lines), [is |-> "hunk", start |-> start]) = At(start, lines)
         /\ ReadLine(At(c, lines), [is |-> "no newline"]) = At(c, lines)
         /\ \A text : ReadLine(At(c, lines), Body("equal", text))
                        = At(c + 1, Append(lines, DiffLine("context", text, c)))
<1>1. \A start : ReadLine(At(c, lines), [is |-> "hunk", start |-> start]) = At(start, lines)
  BY DEF ReadLine, At
<1>2. ReadLine(At(c, lines), [is |-> "no newline"]) = At(c, lines)
  BY DEF ReadLine, At
<1>3. ASSUME NEW text
      PROVE  ReadLine(At(c, lines), Body("equal", text)) = At(c + 1, Append(lines, DiffLine("context", text, c)))
  BY DEF ReadLine, At, Body
<1> QED
  BY <1>1, <1>2, <1>3

LEMMA ReadLineTyped ==
  ASSUME NEW state \in Readings, NEW line \in Printable
  PROVE  ReadLine(state, line) \in Readings
<1> DEFINE c == state.cursor
           lines == state.lines
<1>1. state = At(c, lines) /\ c \in Int /\ c + 1 \in Int /\ lines \in Seq(Seen)
  BY DEF Readings, At
<1> HIDE DEF c, lines
<1>2. ASSUME NEW text \in Texts, NEW n \in Int, NEW kind \in {"added", "context", "removed"}
      PROVE  Append(lines, DiffLine(kind, text, n)) \in Seq(Seen)
  <2>1. DiffLine(kind, text, n) \in Seen
    BY DEF DiffLine, Seen
  <2> QED
    BY <1>1, <2>1, AppendProperties
<1>3. \A n \in Int, ls \in Seq(Seen) : At(n, ls) \in Readings
  BY DEF At, Readings
<1>4. CASE line \in [is : {"hunk"}, start : Int]
  <2>1. line = [is |-> "hunk", start |-> line.start] /\ line.start \in Int
    BY <1>4
  <2>2. ReadLine(state, line) \in Readings
    <3> DEFINE start == line.start
    <3>1. start \in Int /\ line = [is |-> "hunk", start |-> start]
      BY <2>1
    <3> HIDE DEF start
    <3>2. ReadLine(At(c, lines), [is |-> "hunk", start |-> start]) = At(start, lines)
      BY <1>1, ReadLineCases
    <3> QED
      BY <1>1, <1>3, <3>1, <3>2
  <2> QED
    BY <2>2
<1>5. CASE line \in [is : {"equal", "delete", "insert"}, text : Texts]
  <2>1. line = Body(line.is, line.text) /\ line.text \in Texts /\ line.is \in {"equal", "delete", "insert"}
    BY <1>5 DEF Body
  <2> DEFINE text == line.text
  <2> HIDE DEF text
  <2>2. \/ line = Body("equal", text) \/ line = Body("delete", text) \/ line = Body("insert", text)
    BY <2>1 DEF text
  <2>3. /\ ReadLine(At(c, lines), Body("equal", text)) \in Readings
        /\ ReadLine(At(c, lines), Body("delete", text)) \in Readings
        /\ ReadLine(At(c, lines), Body("insert", text)) \in Readings
    <3>1. text \in Texts /\ 0 \in Int
      BY <2>1 DEF text
    <3>2. /\ At(c, lines) \in Readings
          /\ At(c + 1, Append(lines, DiffLine("context", text, c))) \in Readings
          /\ At(c + 1, Append(lines, DiffLine("added", text, c))) \in Readings
          /\ At(c, Append(lines, DiffLine("removed", text, 0))) \in Readings
      BY <1>1, <1>2, <1>3, <3>1
    <3>3. /\ ReadLine(At(c, lines), Body("equal", text))
                        = At(c + 1, Append(lines, DiffLine("context", text, c)))
          /\ ReadLine(At(c, lines), Body("insert", text))
                        = IF StartsWith(text, Plusses) THEN At(c, lines)
                          ELSE At(c + 1, Append(lines, DiffLine("added", text, c)))
          /\ ReadLine(At(c, lines), Body("delete", text))
                        = IF StartsWith(text, Dashes) THEN At(c, lines)
                          ELSE At(c, Append(lines, DiffLine("removed", text, 0)))
      <4>1. ReadLine(At(c, lines), Body("equal", text))
                        = At(c + 1, Append(lines, DiffLine("context", text, c)))
        BY <1>1, ReadLineCases
      <4>2. ReadLine(At(c, lines), Body("insert", text))
                        = IF StartsWith(text, Plusses) THEN At(c, lines)
                          ELSE At(c + 1, Append(lines, DiffLine("added", text, c)))
        BY ReadInsert
      <4>3. ReadLine(At(c, lines), Body("delete", text))
                        = IF StartsWith(text, Dashes) THEN At(c, lines)
                          ELSE At(c, Append(lines, DiffLine("removed", text, 0)))
        BY ReadDelete
      <4> QED
        BY <4>1, <4>2, <4>3
    <3> QED
      BY <3>2, <3>3
  <2> QED
    BY <1>1, <2>2, <2>3
<1>6. CASE line = [is |-> "no newline"]
  BY <1>1, <1>6, ReadLineCases
<1> QED
  BY <1>4, <1>5, <1>6 DEF Printable

LEMMA ReadingLoops ==
  ASSUME NEW body \in Seq(Printable)
  PROVE  \E f : /\ f \in [0..Len(body) -> Readings] /\ f[0] = At(0, <<>>)
                /\ \A n \in 1..Len(body) : f[n] = ReadLine(f[n - 1], body[n])
                /\ Reading(body) = f[Len(body)]
<1> DEFINE L == Len(body)
           base == [cursor |-> 0, lines |-> <<>>]
           step == [x \in (1..L) \X Readings |-> ReadLine(x[2], body[x[1]])]
           Turn(f) == [n \in 0..L |-> IF n = 0 THEN base ELSE ReadLine(f[n - 1], body[n])]
           F == CHOOSE f : f = Turn(f)
<1>1. L \in Nat /\ base \in Readings /\ \A n \in 1..L : body[n] \in Printable
  BY EmptySeq, LenProperties, ElementOfSeq DEF Readings
<1>2. step \in [(1..L) \X Readings -> Readings]
  BY <1>1, ReadLineTyped
<1>3. PICK g : IsLoop(g, L, Readings, base, step)
  <2> HIDE DEF L, base, step
  <2> QED
    BY <1>1, <1>2, LoopExists
<1>4. /\ g \in [0..L -> Readings] /\ g[0] = base
      /\ \A n \in 1..L : g[n] = ReadLine(g[n - 1], body[n])
  <2>1. g \in [0..L -> Readings] /\ g[0] = base
    BY <1>3 DEF IsLoop
  <2>2. ASSUME NEW n \in 1..L PROVE g[n] = ReadLine(g[n - 1], body[n])
    <3>1. n - 1 \in 0..L
      BY <1>1
    <3>2. <<n, g[n - 1]>> \in (1..L) \X Readings
      BY <2>1, <3>1
    <3>3. g[n] = step[<<n, g[n - 1]>>]
      BY <1>3 DEF IsLoop
    <3> QED
      BY <3>2, <3>3
  <2> QED
    BY <2>1, <2>2
<1>5. g = Turn(g)
  BY <1>1, <1>4
<1>6. F = Turn(F)
  BY <1>5
<1>7. Reading(body) = F[L]
  BY DEF Reading
<1> HIDE DEF F
<1>8. \A n \in 0..L : F[n] = g[n]
  <2>1. F[0] = g[0]
    BY <1>1, <1>4, <1>6
  <2>2. ASSUME NEW n \in 1..L, F[n - 1] = g[n - 1] PROVE F[n] = g[n]
    <3>1. F[n] = ReadLine(F[n - 1], body[n])
      BY <1>1, <1>6
    <3>2. g[n] = ReadLine(g[n - 1], body[n])
      BY <1>4
    <3> QED
      BY <2>2, <3>1, <3>2
  <2> HIDE DEF L
  <2>3. L \in Nat /\ Alike(F, g, L)
    BY <1>1, <2>1, <2>2 DEF Alike
  <2> QED
    BY <2>3, LoopsAgree
<1> QED
  BY <1>1, <1>4, <1>7, <1>8 DEF At

LEMMA ReadingAppend ==
  ASSUME NEW body \in Seq(Printable), NEW line \in Printable
  PROVE  /\ Reading(<<>>) = At(0, <<>>)
         /\ Reading(body) \in Readings
         /\ Reading(body \o <<line>>) = ReadLine(Reading(body), line)
<1> DEFINE longer == body \o <<line>>
           L == Len(body)
<1>1. /\ longer \in Seq(Printable) /\ L \in Nat /\ Len(longer) = L + 1
      /\ \A n \in 1..L : longer[n] = body[n]
      /\ longer[L + 1] = line
  <2>1. longer = Append(body, line)
    BY AppendIsConcat
  <2> HIDE DEF longer
  <2> QED
    BY <2>1, AppendProperties, LenProperties
<1> HIDE DEF longer
<1>2. PICK f : /\ f \in [0..L -> Readings] /\ f[0] = At(0, <<>>)
               /\ \A n \in 1..L : f[n] = ReadLine(f[n - 1], body[n])
               /\ Reading(body) = f[L]
  BY ReadingLoops
<1>3. PICK g : /\ g \in [0..L + 1 -> Readings] /\ g[0] = At(0, <<>>)
               /\ \A n \in 1..L + 1 : g[n] = ReadLine(g[n - 1], longer[n])
               /\ Reading(longer) = g[L + 1]
  <2>1. PICK g : /\ g \in [0..Len(longer) -> Readings] /\ g[0] = At(0, <<>>)
                 /\ \A n \in 1..Len(longer) : g[n] = ReadLine(g[n - 1], longer[n])
                 /\ Reading(longer) = g[Len(longer)]
    BY <1>1, ReadingLoops
  <2> QED
    BY <1>1, <2>1
<1>4. f[L] = g[L]
  <2>1. ASSUME NEW n \in 1..L, f[n - 1] = g[n - 1] PROVE f[n] = g[n]
    BY <1>1, <1>2, <1>3, <2>1
  <2>2. f[0] = g[0] /\ L \in Nat
    BY <1>1, <1>2, <1>3
  <2> HIDE DEF L
  <2>4. Alike(f, g, L)
    BY <2>1, <2>2 DEF Alike
  <2>3. \A n \in 0..L : f[n] = g[n]
    BY <2>2, <2>4, LoopsAgree
  <2> QED
    BY <2>2, <2>3
<1>5. Reading(<<>>) = At(0, <<>>)
  <2>1. <<>> \in Seq(Printable) /\ Len(<<>>) = 0
    BY EmptySeq
  <2>2. PICK h : h[0] = At(0, <<>>) /\ Reading(<<>>) = h[Len(<<>>)]
    BY <2>1, ReadingLoops
  <2> QED
    BY <2>1, <2>2
<1>6. Reading(longer) = ReadLine(Reading(body), line)
  BY <1>1, <1>2, <1>3, <1>4
<1> QED
  BY <1>1, <1>2, <1>5, <1>6 DEF longer

\* What is printed of an operation: where its hunk starts, if it is the first
\* of one, its line, and that the line is open.
HunkPart(ops, k) == IF k - 1 \in Shown(ops) THEN <<>> ELSE <<[is |-> "hunk", start |-> NewStart(ops, k)]>>
IsOpen(op, before, after) ==
  \/ op.kind # "insert" /\ before.open /\ op.old = Len(before.lines)
  \/ op.kind = "insert" /\ after.open /\ op.new = Len(after.lines)
OpenPart(op, before, after) == IF IsOpen(op, before, after) THEN <<[is |-> "no newline"]>> ELSE <<>>

LEMMA PrintedParts ==
  ASSUME NEW ops, NEW k, NEW before, NEW after
  PROVE  Printed(ops, k, before, after)
           = IF k \notin Shown(ops) THEN <<>>
             ELSE HunkPart(ops, k) \o (<<Body(ops[k].kind, ops[k].text)>> \o OpenPart(ops[k], before, after))
BY DEF Printed, BodyLine, HunkPart, OpenPart, IsOpen, Body

LEMMA NewStartTyped ==
  ASSUME NEW ops \in Seq(Ops), NEW k \in 1..Len(ops)
  PROVE  NewStart(ops, k) \in Int
<1> DEFINE first == {l \in k..Len(ops) : /\ k..l \subseteq Shown(ops) /\ ops[l].kind # "delete"
                                         /\ \A m \in k..l - 1 : ops[m].kind = "delete"}
<1>1. \A l \in 1..Len(ops) : ops[l].new \in Int /\ ops[l].old - 1 \in Int
  <2> TAKE l \in 1..Len(ops)
  <2>1. ops[l] \in Ops
    BY ElementOfSeq
  <2> QED
    BY <2>1 DEF Ops
<1>2. NewStart(ops, k) = IF first # {} THEN ops[CHOOSE l \in first : TRUE].new ELSE ops[k].old - 1
  BY DEF NewStart
<1>3. first \subseteq 1..Len(ops)
  BY LenProperties
<1>4. first # {} => (CHOOSE l \in first : TRUE) \in 1..Len(ops)
  BY <1>3
<1> HIDE DEF first
<1> QED
  BY <1>1, <1>2, <1>4

LEMMA PrintedTyped ==
  ASSUME NEW ops \in Seq(Ops), NEW k \in 1..Len(ops), NEW before, NEW after
  PROVE  /\ HunkPart(ops, k) \in Seq(Printable) /\ OpenPart(ops[k], before, after) \in Seq(Printable)
         /\ Body(ops[k].kind, ops[k].text) \in Printable
         /\ [is |-> "no newline"] \in Printable /\ [is |-> "hunk", start |-> NewStart(ops, k)] \in Printable
         /\ Printed(ops, k, before, after) \in Seq(Printable)
         /\ k \in Shown(ops) => Len(Printed(ops, k, before, after)) > 0
<1> DEFINE h == HunkPart(ops, k)
           r == Body(ops[k].kind, ops[k].text)
           z == OpenPart(ops[k], before, after)
<1>1. [is |-> "no newline"] \in Printable /\ [is |-> "hunk", start |-> NewStart(ops, k)] \in Printable
  BY NewStartTyped DEF Printable
<1>2. r \in Printable
  <2>1. ops[k] \in Ops
    BY ElementOfSeq
  <2> QED
    BY <2>1 DEF Ops, Printable, Body
<1>3. <<>> \in Seq(Printable) /\ \A x \in Printable : <<x>> \in Seq(Printable) /\ Len(<<x>>) = 1
  OBVIOUS
<1>4. h \in Seq(Printable) /\ z \in Seq(Printable)
  BY <1>1, <1>3 DEF HunkPart, OpenPart
<1> HIDE DEF h, r, z
<1>5. <<r>> \o z \in Seq(Printable) /\ Len(<<r>> \o z) = 1 + Len(z)
  BY <1>2, <1>3, <1>4, ConcatProperties
<1>6. h \o (<<r>> \o z) \in Seq(Printable) /\ Len(h \o (<<r>> \o z)) = Len(h) + (1 + Len(z))
  BY <1>4, <1>5, ConcatProperties
<1>7. Len(h) + (1 + Len(z)) > 0
  BY <1>4, LenProperties
<1>8. Printed(ops, k, before, after) = IF k \notin Shown(ops) THEN <<>> ELSE h \o (<<r>> \o z)
  BY PrintedParts DEF h, r, z
<1> QED
  BY <1>1, <1>2, <1>3, <1>4, <1>6, <1>7, <1>8 DEF h, r, z

LEMMA ConcatsOfPrintable ==
  \A x, y, w \in Seq(Printable) : (x \o y) \o w = x \o (y \o w)
<1> SUFFICES ASSUME NEW x \in Seq(Printable), NEW y \in Seq(Printable), NEW w \in Seq(Printable)
             PROVE  (x \o y) \o w = x \o (y \o w)
  OBVIOUS
<1> QED
  BY ConcatAssociative

LEMMA PrintedAllLoops ==
  ASSUME NEW ops \in Seq(Ops), NEW before, NEW after
  PROVE  \E f : /\ f \in [0..Len(ops) -> Seq(Printable)] /\ f[0] = <<>>
                /\ \A k \in 1..Len(ops) : f[k] = f[k - 1] \o Printed(ops, k, before, after)
                /\ PrintedAll(ops, before, after) = f[Len(ops)]
<1> DEFINE L == Len(ops)
           R == Seq(Printable)
           base == <<>>
           step == [x \in (1..L) \X R |-> x[2] \o Printed(ops, x[1], before, after)]
           Grown(f, k) == f[k - 1] \o Printed(ops, k, before, after)
           Turn(f) == [k \in 0..L |-> IF k = 0 THEN base ELSE Grown(f, k)]
           F == CHOOSE f : f = Turn(f)
<1>1. L \in Nat /\ base \in R
  BY EmptySeq, LenProperties
<1>2. step \in [(1..L) \X R -> R]
  <2>1. \A k \in 1..L, body \in R : body \o Printed(ops, k, before, after) \in R
    BY PrintedTyped, ConcatProperties
  <2> HIDE DEF R, L
  <2> QED
    BY <2>1
<1>3. PICK g : IsLoop(g, L, R, base, step)
  <2> HIDE DEF L, base, step, R
  <2> QED
    BY <1>1, <1>2, LoopExists
<1> HIDE DEF R, base
<1>4. /\ g \in [0..L -> R] /\ g[0] = base
      /\ \A k \in 1..L : g[k] = g[k - 1] \o Printed(ops, k, before, after)
  <2>1. g \in [0..L -> R] /\ g[0] = base
    BY <1>3 DEF IsLoop
  <2>2. ASSUME NEW k \in 1..L PROVE g[k] = g[k - 1] \o Printed(ops, k, before, after)
    <3>1. k - 1 \in 0..L
      BY <1>1
    <3>2. <<k, g[k - 1]>> \in (1..L) \X R
      BY <2>1, <3>1
    <3>3. g[k] = step[<<k, g[k - 1]>>]
      BY <1>3 DEF IsLoop
    <3> QED
      BY <3>2, <3>3
  <2> QED
    BY <2>1, <2>2
<1>5. g = Turn(g)
  <2>1. g[0] = base /\ \A k \in 1..L : g[k] = Grown(g, k)
    BY <1>4
  <2> HIDE DEF Grown
  <2> QED
    BY <1>1, <1>4, <2>1
<1>6. F = Turn(F)
  <2> HIDE DEF Grown
  <2> QED
    BY <1>5
<1>7. PrintedAll(ops, before, after) = F[L]
  BY DEF PrintedAll, base
<1> HIDE DEF F, step
<1>8. \A k \in 0..L : F[k] = g[k]
  <2>1. F[0] = g[0]
    BY <1>1, <1>4, <1>6
  <2>2. ASSUME NEW k \in 1..L, F[k - 1] = g[k - 1] PROVE F[k] = g[k]
    <3>1. F[k] = Grown(F, k)
      <4> HIDE DEF Grown
      <4> QED
        BY <1>1, <1>6
    <3>2. g[k] = Grown(g, k)
      BY <1>4
    <3> QED
      BY <2>2, <3>1, <3>2
  <2> HIDE DEF L
  <2>3. L \in Nat /\ Alike(F, g, L)
    BY <1>1, <2>1, <2>2 DEF Alike
  <2> QED
    BY <2>3, LoopsAgree
<1>9. PrintedAll(ops, before, after) = g[L]
  BY <1>1, <1>7, <1>8
<1> QED
  BY <1>4, <1>9 DEF R, base

\* Reading what is printed of an operation: its line alone, from where the
\* hunk starts if one does.
From(ops, k, cursor) == IF k - 1 \in Shown(ops) THEN cursor ELSE NewStart(ops, k)

LEMMA PrintedRead ==
  ASSUME NEW ops \in Seq(Ops), NEW k \in 1..Len(ops), NEW before, NEW after, NEW body \in Seq(Printable)
  PROVE  Reading(body \o Printed(ops, k, before, after))
           = IF k \notin Shown(ops) THEN Reading(body)
             ELSE ReadLine(At(From(ops, k, Reading(body).cursor), Reading(body).lines),
                           Body(ops[k].kind, ops[k].text))
<1> DEFINE h == HunkPart(ops, k)
           r == Body(ops[k].kind, ops[k].text)
           z == OpenPart(ops[k], before, after)
           nn == [is |-> "no newline"]
           hunk == [is |-> "hunk", start |-> NewStart(ops, k)]
           st == Reading(body)
           c == From(ops, k, st.cursor)
<1>1. /\ h \in Seq(Printable) /\ z \in Seq(Printable) /\ r \in Printable /\ nn \in Printable /\ hunk \in Printable
      /\ <<r>> \in Seq(Printable)
  <2>1. h \in Seq(Printable) /\ z \in Seq(Printable) /\ r \in Printable /\ nn \in Printable /\ hunk \in Printable
    BY PrintedTyped
  <2> HIDE DEF h, z, r, nn, hunk
  <2> QED
    BY <2>1
<1>2. Printed(ops, k, before, after) = IF k \notin Shown(ops) THEN <<>> ELSE h \o (<<r>> \o z)
  BY PrintedParts
<1>3. st \in Readings /\ st.cursor \in Int /\ st.lines \in Seq(Seen) /\ st = At(st.cursor, st.lines)
  <2>1. st \in Readings
    BY <1>1, ReadingAppend
  <2> HIDE DEF st
  <2> QED
    BY <2>1 DEF Readings, At
<1>4. c \in Int
  BY <1>3, NewStartTyped DEF From
<1>5. Reading(body \o h) = At(c, st.lines)
  <2>1. CASE k - 1 \in Shown(ops)
    <3>1. h = <<>> /\ c = st.cursor
      BY <2>1 DEF HunkPart, From
    <3>2. body \o <<>> = body
      BY ConcatEmptySeq
    <3> HIDE DEF h, c, st
    <3> QED
      BY <1>3, <3>1, <3>2 DEF st
  <2>2. CASE k - 1 \notin Shown(ops)
    <3>1. h = <<hunk>> /\ c = NewStart(ops, k)
      BY <2>2 DEF HunkPart, From
    <3>2. Reading(body \o <<hunk>>) = ReadLine(st, hunk)
      BY <1>1, ReadingAppend
    <3>3. ReadLine(At(st.cursor, st.lines), hunk) = At(NewStart(ops, k), st.lines)
      BY <1>3, ReadLineCases
    <3> HIDE DEF h, c, st, hunk
    <3> QED
      BY <1>3, <3>1, <3>2, <3>3
  <2> QED
    BY <2>1, <2>2
<1> HIDE DEF r, c, nn, hunk, st
<1>6. body \o h \in Seq(Printable) /\ (body \o h) \o <<r>> \in Seq(Printable)
  <2>1. body \o h \in Seq(Printable)
    BY <1>1, ConcatProperties
  <2> QED
    BY <1>1, <2>1, ConcatProperties
<1>7. Reading((body \o h) \o <<r>>) = ReadLine(At(c, st.lines), r)
  BY <1>1, <1>5, <1>6, ReadingAppend
<1>8. Reading(((body \o h) \o <<r>>) \o z) = ReadLine(At(c, st.lines), r)
  <2>1. CASE z = <<>>
    <3>1. ((body \o h) \o <<r>>) \o <<>> = (body \o h) \o <<r>>
      BY <1>6, ConcatEmptySeq
    <3> HIDE DEF h, z
    <3> QED
      BY <1>7, <2>1, <3>1
  <2>2. CASE z = <<nn>>
    <3> DEFINE before2 == (body \o h) \o <<r>>
    <3>1. before2 \in Seq(Printable) /\ Reading(before2) = ReadLine(At(c, st.lines), r)
      BY <1>6, <1>7
    <3> HIDE DEF before2
    <3>2. Reading(before2 \o <<nn>>) = ReadLine(Reading(before2), nn) /\ Reading(before2) \in Readings
      BY <1>1, <3>1, ReadingAppend
    <3>3. ReadLine(Reading(before2), nn) = Reading(before2)
      <4> DEFINE s2 == Reading(before2)
      <4>1. s2 \in Readings
        BY <3>2
      <4> HIDE DEF s2
      <4>2. s2.cursor \in Int /\ s2.lines \in Seq(Seen) /\ s2 = At(s2.cursor, s2.lines)
        BY <4>1 DEF Readings, At
      <4>3. ReadLine(At(s2.cursor, s2.lines), nn) = At(s2.cursor, s2.lines)
        BY <4>2, ReadLineCases DEF nn
      <4> QED
        BY <4>2, <4>3 DEF s2
    <3> HIDE DEF z
    <3> QED
      BY <2>2, <3>1, <3>2, <3>3 DEF before2
  <2>3. z = <<>> \/ z = <<nn>>
    BY DEF OpenPart, nn
  <2> QED
    BY <2>1, <2>2, <2>3
<1> HIDE DEF h, z
<1>9. ((body \o h) \o <<r>>) \o z = body \o (h \o (<<r>> \o z))
  <2>1. ((body \o h) \o <<r>>) \o z = (body \o h) \o (<<r>> \o z)
    BY <1>1, <1>6, ConcatAssociative
  <2>2. <<r>> \o z \in Seq(Printable)
    BY <1>1, ConcatProperties
  <2>3. (body \o h) \o (<<r>> \o z) = body \o (h \o (<<r>> \o z))
    <3> DEFINE w == <<r>> \o z
    <3>1. body \in Seq(Printable) /\ h \in Seq(Printable) /\ w \in Seq(Printable)
      BY <1>1, <2>2
    <3> HIDE DEF w
    <3>2. (body \o h) \o w = body \o (h \o w)
      BY <3>1, ConcatsOfPrintable
    <3> QED
      BY <3>2 DEF w
  <2> QED
    BY <2>1, <2>3
<1>10. CASE k \notin Shown(ops)
  <2>1. body \o <<>> = body
    BY ConcatEmptySeq
  <2> QED
    BY <1>2, <1>10, <2>1
<1>11. CASE k \in Shown(ops)
  BY <1>2, <1>8, <1>9, <1>11 DEF c, st, r
<1> QED
  BY <1>10, <1>11

-----------------------------------------------------------------------------
(* Counting lines *)

\* How many of the first n lines are one.
Among(line, lines, n) == Cardinality({k \in 1..n : lines[k] = line})
One(x, line) == IF x = line THEN 1 ELSE 0

LEMMA AmongStep ==
  ASSUME NEW line, NEW lines, NEW n \in Nat
  PROVE  /\ Among(line, lines, 0) = 0 /\ Among(line, lines, n) \in Nat
         /\ Among(line, lines, n + 1) = Among(line, lines, n) + One(lines[n + 1], line)
<1> DEFINE A(m) == {k \in 1..m : lines[k] = line}
<1>1. IsFiniteSet(A(n)) /\ Cardinality(A(n)) \in Nat
  <2>1. IsFiniteSet(1..n)
    BY 1 \in Int, n \in Int, FS_Interval
  <2> QED
    BY <2>1, FS_Subset, FS_CardinalityType
<1>2. A(0) = {}
  OBVIOUS
<1>3. A(n + 1) = A(n) \cup (IF lines[n + 1] = line THEN {n + 1} ELSE {}) /\ n + 1 \notin A(n)
  OBVIOUS
<1>4. Cardinality(A(n + 1)) = Cardinality(A(n)) + One(lines[n + 1], line)
  <2>1. CASE lines[n + 1] = line
    <3>1. A(n + 1) = A(n) \cup {n + 1}
      BY <1>3, <2>1
    <3> HIDE DEF A
    <3>2. Cardinality(A(n) \cup {n + 1}) = Cardinality(A(n)) + 1
      BY <1>1, <1>3, FS_AddElement
    <3> QED
      BY <2>1, <3>1, <3>2 DEF One
  <2>2. CASE lines[n + 1] # line
    <3>1. A(n + 1) = A(n)
      BY <1>3, <2>2
    <3> HIDE DEF A
    <3> QED
      BY <1>1, <2>2, <3>1 DEF One
  <2> QED
    BY <2>1, <2>2
<1>5. Cardinality(A(0)) = 0
  BY <1>2, FS_EmptySet
<1> QED
  BY <1>1, <1>4, <1>5 DEF Among

LEMMA CountKindAppend ==
  ASSUME NEW kind, NEW line, NEW lines \in Seq(Seen), NEW x \in Seen
  PROVE  /\ CountKind(kind, line, lines) \in Nat /\ CountKind(kind, line, <<>>) = 0
         /\ CountKind(kind, line, Append(lines, x))
              = CountKind(kind, line, lines) + IF x.kind = kind THEN One(x.text, line) ELSE 0
<1> DEFINE A(ls) == {k \in DOMAIN ls : ls[k].kind = kind /\ ls[k].text = line}
           more == Append(lines, x)
           L == Len(lines)
<1>1. /\ L \in Nat /\ DOMAIN lines = 1..L /\ DOMAIN more = 1..L + 1
      /\ \A k \in 1..L : more[k] = lines[k]
      /\ more[L + 1] = x
  <2>1. more \in Seq(Seen) /\ Len(more) = L + 1
    BY AppendProperties
  <2> QED
    BY <2>1, AppendProperties, LenProperties
<1> HIDE DEF more
<1>2. IsFiniteSet(A(lines)) /\ Cardinality(A(lines)) \in Nat
  <2>1. IsFiniteSet(1..L)
    <3>1. 1 \in Int /\ L \in Int
      BY <1>1
    <3> HIDE DEF A, L
    <3> QED
      BY <3>1, FS_Interval
  <2>2. A(lines) \subseteq 1..L
    BY <1>1
  <2> QED
    BY <2>1, <2>2, FS_Subset, FS_CardinalityType
<1>3. A(more) = A(lines) \cup (IF x.kind = kind /\ x.text = line THEN {L + 1} ELSE {}) /\ L + 1 \notin A(lines)
  BY <1>1
<1>4. Cardinality(A(more)) = Cardinality(A(lines)) + IF x.kind = kind THEN One(x.text, line) ELSE 0
  <2>1. CASE x.kind = kind /\ x.text = line
    <3>1. A(more) = A(lines) \cup {L + 1}
      BY <1>3, <2>1
    <3> HIDE DEF A
    <3>2. Cardinality(A(lines) \cup {L + 1}) = Cardinality(A(lines)) + 1
      BY <1>2, <1>3, FS_AddElement
    <3> QED
      BY <2>1, <3>1, <3>2 DEF One
  <2>2. CASE ~(x.kind = kind /\ x.text = line)
    <3>1. A(more) = A(lines)
      BY <1>3, <2>2
    <3> HIDE DEF A
    <3> QED
      BY <1>2, <2>2, <3>1 DEF One
  <2> QED
    BY <2>1, <2>2
<1>5. A(<<>>) = {} /\ Cardinality({}) = 0
  BY FS_EmptySet
<1> QED
  BY <1>2, <1>4, <1>5 DEF CountKind, more

-----------------------------------------------------------------------------
(* What the policy is told of each operation *)

Balanced(lines, b, a, o, n) ==
  \A line : ~Headerlike(line) =>
    CountKind("added", line, lines) - CountKind("removed", line, lines) = Among(line, a, n) - Among(line, b, o)
Covered(lines, b, a, o, n) ==
  \A line : ~StartsWith(line, Plusses) =>
    Among(line, a, n) - Among(line, b, o) <= CountKind("added", line, lines)
NoPlusses(a) == \A k \in DOMAIN a : ~StartsWith(a[k], Plusses)

\* A new line is still to come in the hunk that goes on at k.
More(ops, k) == \E l \in k..Len(ops) : k..l \subseteq Shown(ops) /\ ops[l].kind # "delete"

Told(st, ops, k, b, a, o, n) ==
  /\ st \in Readings
  /\ Balanced(st.lines, b, a, o, n) /\ Covered(st.lines, b, a, o, n)
  /\ NoPlusses(a) => /\ Placed(a, st.lines)
                     /\ k \in Shown(ops) /\ More(ops, k + 1) => st.cursor = n + 1

LEMMA ShownFacts ==
  ASSUME NEW ops \in Seq(Ops)
  PROVE  /\ Shown(ops) \subseteq 1..Len(ops)
         /\ \A k \in 1..Len(ops) : ops[k].kind # "equal" => k \in Shown(ops)
         /\ (\A k \in 1..Len(ops) : ops[k].kind = "equal") => Shown(ops) = {}
<1>1. DOMAIN ops = 1..Len(ops) /\ Len(ops) \in Nat /\ Context \in Nat
  BY DiffAssumption, LenProperties
<1>2. \A k \in Nat : k - k \in -Context..Context
  BY <1>1
<1> QED
  BY <1>1, <1>2 DEF Shown

LEMMA FollowsKinds ==
  ASSUME NEW op, NEW b, NEW a, NEW o, NEW n, NEW o2, NEW n2, Follows(op, b, a, o, n, o2, n2)
  PROVE  \/ /\ op.kind = "equal" /\ op.text = b[o2] /\ op.new = n2 /\ o2 = o + 1 /\ n2 = n + 1
            /\ o2 <= Len(b) /\ n2 <= Len(a) /\ b[o2] = a[n2]
         \/ op.kind = "delete" /\ op.text = b[o2] /\ o2 = o + 1 /\ n2 = n /\ o2 <= Len(b)
         \/ op.kind = "insert" /\ op.text = a[n2] /\ op.new = n2 /\ o2 = o /\ n2 = n + 1 /\ n2 <= Len(a)
BY DEF Follows, Equal, Delete, Insert

\* A hunk that has a new line starts at the next one.
LEMMA NewStartRight ==
  ASSUME NEW ops \in Seq(Ops), NEW b, NEW a, NEW O, NEW N, NEW o, NEW n, NEW o2, NEW n2,
         IsPath(ops, b, a, O, N, o, n, o2, n2), NEW k \in 1..Len(ops), More(ops, k)
  PROVE  NewStart(ops, k) = N[k - 1] + 1
<1> DEFINE first == {l \in k..Len(ops) : /\ k..l \subseteq Shown(ops) /\ ops[l].kind # "delete"
                                         /\ \A m \in k..l - 1 : ops[m].kind = "delete"}
<1>0. Len(ops) \in Nat
  BY LenProperties
<1>1. first # {}
  <2>1. PICK l \in k..Len(ops) : k..l \subseteq Shown(ops) /\ ops[l].kind # "delete"
    BY DEF More
  <2> DEFINE T == {m \in k..l : ops[m].kind # "delete"}
  <2>2. T \in SUBSET Nat /\ l \in T
    BY <1>0, <2>1
  <2>3. PICK x \in T : \A y \in T : x <= y
    <3> HIDE DEF T
    <3> QED
      BY <2>2, LeastElement
  <2>4. x \in k..Len(ops) /\ ops[x].kind # "delete" /\ x <= l
    BY <1>0, <2>1, <2>3
  <2>5. k..x \subseteq Shown(ops)
    BY <1>0, <2>1, <2>4
  <2>6. \A m \in k..x - 1 : ops[m].kind = "delete"
    <3> TAKE m \in k..x - 1
    <3>1. m \notin T /\ m \in k..l
      BY <1>0, <2>1, <2>3, <2>4
    <3> QED
      BY <3>1
  <2> QED
    BY <2>4, <2>5, <2>6
<1>2. ASSUME NEW l \in first PROVE ops[l].new = N[k - 1] + 1
  <2>1. /\ l \in k..Len(ops) /\ ops[l].kind # "delete"
        /\ \A m \in k..l - 1 : ops[m].kind = "delete"
    OBVIOUS
  <2>2. /\ N \in [0..Len(ops) -> Nat]
        /\ \A m \in 1..Len(ops) : Follows(ops[m], b, a, O[m - 1], N[m - 1], O[m], N[m])
    BY DEF IsPath
  <2> HIDE DEF first
  <2> DEFINE d == l - k
             S == {m \in 0..d : N[(k - 1) + m] = N[k - 1]}
  <2>3. d \in Nat /\ 0 \in S
    BY <1>0, <2>1
  <2>4. ASSUME NEW m \in 1..d, m - 1 \in S PROVE m \in S
    <3>1. /\ (k - 1) + m \in 1..Len(ops) /\ (k - 1) + m \in k..l - 1
          /\ ((k - 1) + m) - 1 = (k - 1) + (m - 1)
      BY <1>0, <2>1
    <3> DEFINE p == (k - 1) + m
    <3>2. Follows(ops[p], b, a, O[p - 1], N[p - 1], O[p], N[p]) /\ ops[p].kind = "delete"
      BY <2>1, <2>2, <3>1
    <3>3. N[p] = N[p - 1]
      BY <3>2, FollowsKinds
    <3>4. N[(k - 1) + (m - 1)] = N[k - 1]
      BY <2>4
    <3> QED
      BY <3>1, <3>3, <3>4
  <2>5. d \in S
    <3> HIDE DEF S, d
    <3>1. \A m \in 0..d : m \in S
      BY <2>3, <2>4, UpTo
    <3> QED
      BY <2>3, <3>1
  <2>6. N[l - 1] = N[k - 1]
    <3>1. (k - 1) + d = l - 1
      BY <1>0, <2>1
    <3> QED
      BY <2>5, <3>1
  <2>7. Follows(ops[l], b, a, O[l - 1], N[l - 1], O[l], N[l])
    BY <1>0, <2>1, <2>2
  <2>8. ops[l].new = N[l - 1] + 1
    BY <2>1, <2>7, FollowsKinds
  <2> QED
    BY <2>6, <2>8
<1>3. NewStart(ops, k) = IF first # {} THEN ops[CHOOSE l \in first : TRUE].new ELSE ops[k].old - 1
  BY DEF NewStart
<1> HIDE DEF first
<1>4. (CHOOSE l \in first : TRUE) \in first
  BY <1>1
<1> QED
  BY <1>1, <1>2, <1>3, <1>4

\* What an operation on t adds to the counts of what is seen.
CountGrows(kind, lines2, lines, t, unseen) ==
  \A line : CountKind(kind, line, lines2) = CountKind(kind, line, lines) + IF unseen THEN 0 ELSE One(t, line)

LEMMA CountsStep ==
  ASSUME NEW lines \in Seq(Seen), NEW lines2 \in Seq(Seen), NEW b, NEW a, NEW t,
         NEW o \in Nat, NEW n \in Nat, NEW o2 \in Nat, NEW n2 \in Nat,
         Balanced(lines, b, a, o, n), Covered(lines, b, a, o, n),
         \/ /\ o2 = o + 1 /\ n2 = n + 1 /\ b[o2] = t /\ a[n2] = t
            /\ CountGrows("added", lines2, lines, t, TRUE) /\ CountGrows("removed", lines2, lines, t, TRUE)
         \/ /\ o2 = o + 1 /\ n2 = n /\ b[o2] = t /\ CountGrows("added", lines2, lines, t, TRUE)
            /\ CountGrows("removed", lines2, lines, t, StartsWith(t, Dashes))
         \/ /\ o2 = o /\ n2 = n + 1 /\ a[n2] = t /\ CountGrows("removed", lines2, lines, t, TRUE)
            /\ CountGrows("added", lines2, lines, t, StartsWith(t, Plusses))
  PROVE  Balanced(lines2, b, a, o2, n2) /\ Covered(lines2, b, a, o2, n2)
<1> SUFFICES ASSUME NEW line
             PROVE  /\ ~Headerlike(line) =>
                         CountKind("added", line, lines2) - CountKind("removed", line, lines2)
                           = Among(line, a, n2) - Among(line, b, o2)
                    /\ ~StartsWith(line, Plusses) =>
                         Among(line, a, n2) - Among(line, b, o2) <= CountKind("added", line, lines2)
  BY DEF Balanced, Covered
<1> DEFINE add == CountKind("added", line, lines)
           rem == CountKind("removed", line, lines)
           add2 == CountKind("added", line, lines2)
           rem2 == CountKind("removed", line, lines2)
           An == Among(line, a, n)
           Bo == Among(line, b, o)
           An2 == Among(line, a, n2)
           Bo2 == Among(line, b, o2)
           one == One(t, line)
           dashed == StartsWith(t, Dashes)
           plussed == StartsWith(t, Plusses)
           header == Headerlike(line)
           plus == StartsWith(line, Plusses)
<1>1. add \in Nat /\ rem \in Nat /\ An \in Nat /\ Bo \in Nat /\ one \in {0, 1}
  <2>1. \A x \in Seen : add \in Nat /\ rem \in Nat
    BY CountKindAppend
  <2>2. [kind |-> "added", text |-> <<>>, number |-> 0] \in Seen
    BY EmptySeq DEF Seen, Texts
  <2> QED
    BY <2>1, <2>2, AmongStep DEF One
<1>2. (~header => add - rem = An - Bo) /\ (~plus => An - Bo <= add)
  BY DEF Balanced, Covered
<1>3. one = 1 /\ ~header => ~dashed /\ ~plussed
  BY DEF One, Headerlike
<1>4. (one = 1 /\ ~plus => ~plussed) /\ (plus => header)
  BY DEF One, Headerlike
<1>5. \/ An2 = An + one /\ Bo2 = Bo + one /\ add2 = add /\ rem2 = rem
      \/ An2 = An /\ Bo2 = Bo + one /\ add2 = add /\ rem2 = rem + IF dashed THEN 0 ELSE one
      \/ An2 = An + one /\ Bo2 = Bo /\ rem2 = rem /\ add2 = add + IF plussed THEN 0 ELSE one
  <2>1. o2 = o + 1 /\ b[o2] = t => Bo2 = Bo + one
    <3>1. Among(line, b, o + 1) = Among(line, b, o) + One(b[o + 1], line)
      BY AmongStep
    <3> QED
      BY <3>1
  <2>2. n2 = n + 1 /\ a[n2] = t => An2 = An + one
    <3>1. Among(line, a, n + 1) = Among(line, a, n) + One(a[n + 1], line)
      BY AmongStep
    <3> QED
      BY <3>1
  <2>3. /\ CountGrows("added", lines2, lines, t, TRUE) => add2 = add
        /\ CountGrows("removed", lines2, lines, t, TRUE) => rem2 = rem
        /\ CountGrows("added", lines2, lines, t, plussed) => add2 = add + IF plussed THEN 0 ELSE one
        /\ CountGrows("removed", lines2, lines, t, dashed) => rem2 = rem + IF dashed THEN 0 ELSE one
    <3>1. add + 0 = add /\ rem + 0 = rem
      BY <1>1
    <3> QED
      BY <3>1 DEF CountGrows
  <2> HIDE DEF add, rem, add2, rem2, one, dashed, plussed
  <2>4. (o2 = o => Bo2 = Bo) /\ (n2 = n => An2 = An)
    OBVIOUS
  <2> HIDE DEF An, Bo, An2, Bo2
  <2> QED
    BY <2>1, <2>2, <2>3, <2>4 DEF dashed, plussed
<1> HIDE DEF add, rem, add2, rem2, An, Bo, An2, Bo2, one, dashed, plussed, header, plus
<1>6. (~header => add2 - rem2 = An2 - Bo2) /\ (~plus => An2 - Bo2 <= add2)
  <2>1. CASE An2 = An + one /\ Bo2 = Bo + one /\ add2 = add /\ rem2 = rem
    BY <1>1, <1>2, <2>1
  <2>2. CASE An2 = An /\ Bo2 = Bo + one /\ add2 = add /\ rem2 = rem + IF dashed THEN 0 ELSE one
    <3>1. CASE dashed
      BY <1>1, <1>2, <1>3, <2>2, <3>1
    <3>2. CASE ~dashed
      BY <1>1, <1>2, <2>2, <3>2
    <3> QED
      BY <3>1, <3>2
  <2>3. CASE An2 = An + one /\ Bo2 = Bo /\ rem2 = rem /\ add2 = add + IF plussed THEN 0 ELSE one
    <3>1. CASE plussed
      BY <1>1, <1>2, <1>3, <1>4, <2>3, <3>1
    <3>2. CASE ~plussed
      BY <1>1, <1>2, <2>3, <3>2
    <3> QED
      BY <3>1, <3>2
  <2> QED
    BY <1>5, <2>1, <2>2, <2>3
<1> QED
  BY <1>6 DEF add2, rem2, An2, Bo2, header, plus

\* What is appended counts for its own kind.
LEMMA CountedAppend ==
  ASSUME NEW lines \in Seq(Seen), NEW t \in Texts, NEW number \in Int, NEW kind \in {"added", "context", "removed"}
  PROVE  LET longer == Append(lines, DiffLine(kind, t, number))
         IN  /\ longer \in Seq(Seen)
             /\ \A other \in {"added", "removed"} :
                  CountGrows(other, longer, lines, t, other # kind) /\ CountGrows(other, lines, lines, t, TRUE)
<1> DEFINE x == DiffLine(kind, t, number)
           longer == Append(lines, x)
<1>1. x \in Seen /\ x.kind = kind /\ x.text = t
  BY DEF DiffLine, Seen
<1> HIDE DEF x
<1>2. longer \in Seq(Seen)
  BY <1>1, AppendProperties
<1>3. ASSUME NEW other \in {"added", "removed"}, NEW line
      PROVE  /\ CountKind(other, line, longer)
                  = CountKind(other, line, lines) + IF other # kind THEN 0 ELSE One(t, line)
             /\ CountKind(other, line, lines) = CountKind(other, line, lines) + IF TRUE THEN 0 ELSE One(t, line)
  <2>1. /\ CountKind(other, line, lines) \in Nat
        /\ CountKind(other, line, longer)
              = CountKind(other, line, lines) + IF x.kind = other THEN One(x.text, line) ELSE 0
    BY <1>1, CountKindAppend
  <2> QED
    BY <1>1, <2>1
<1> HIDE DEF longer
<1> QED
  BY <1>2, <1>3 DEF CountGrows, longer, x

LEMMA PlacedAppend ==
  ASSUME NEW a, NEW lines \in Seq(Seen), NEW x \in Seen, Placed(a, lines),
         x.kind # "removed" => x.number \in DOMAIN a /\ a[x.number] = x.text
  PROVE  Placed(a, Append(lines, x))
<1>1. /\ DOMAIN lines = 1..Len(lines) /\ Len(lines) \in Nat
      /\ DOMAIN Append(lines, x) = 1..Len(lines) + 1
      /\ \A k \in 1..Len(lines) : Append(lines, x)[k] = lines[k]
      /\ Append(lines, x)[Len(lines) + 1] = x
  <2>1. Append(lines, x) \in Seq(Seen) /\ Len(Append(lines, x)) = Len(lines) + 1
    BY AppendProperties
  <2> QED
    BY <2>1, AppendProperties, LenProperties
<1> DEFINE longer == Append(lines, x)
<1> HIDE DEF longer
<1> SUFFICES ASSUME NEW k \in DOMAIN longer, longer[k].kind # "removed"
             PROVE  longer[k].number \in DOMAIN a /\ a[longer[k].number] = longer[k].text
  BY DEF Placed, longer
<1>2. CASE k \in 1..Len(lines)
  BY <1>1, <1>2 DEF Placed, longer
<1>3. CASE k = Len(lines) + 1
  BY <1>1, <1>3 DEF longer
<1> QED
  BY <1>1, <1>2, <1>3 DEF longer

LEMMA ToldStep ==
  ASSUME NEW ops \in Seq(Ops), NEW b \in Seq(Texts), NEW a \in Seq(Texts),
         NEW O, NEW N, NEW o0, NEW n0, NEW oE, NEW nE, IsPath(ops, b, a, O, N, o0, n0, oE, nE),
         NEW k \in 1..Len(ops), NEW st, Told(st, ops, k - 1, b, a, O[k - 1], N[k - 1])
  PROVE  Told(IF k \notin Shown(ops) THEN st
              ELSE ReadLine(At(From(ops, k, st.cursor), st.lines), Body(ops[k].kind, ops[k].text)),
              ops, k, b, a, O[k], N[k])
<1> DEFINE op == ops[k]
           t == ops[k].text
           o == O[k - 1]
           n == N[k - 1]
           o2 == O[k]
           n2 == N[k]
           lines == st.lines
           c == From(ops, k, st.cursor)
           st2 == IF k \notin Shown(ops) THEN st ELSE ReadLine(At(c, lines), Body(op.kind, t))
           Ready(c2, lines2) ==
             /\ lines2 \in Seq(Seen) /\ Balanced(lines2, b, a, o2, n2) /\ Covered(lines2, b, a, o2, n2)
             /\ NoPlusses(a) => Placed(a, lines2) /\ (k \in Shown(ops) /\ More(ops, k + 1) => c2 = n2 + 1)
<1> SUFFICES Told(st2, ops, k, b, a, o2, n2)
  OBVIOUS
<1>1. /\ o \in Nat /\ n \in Nat /\ o2 \in Nat /\ n2 \in Nat /\ Follows(op, b, a, o, n, o2, n2)
      /\ Len(ops) \in Nat /\ Len(a) \in Nat /\ DOMAIN a = 1..Len(a) /\ Len(b) \in Nat
  <2>1. /\ O \in [0..Len(ops) -> Nat] /\ N \in [0..Len(ops) -> Nat]
        /\ Follows(op, b, a, o, n, o2, n2)
    BY DEF IsPath
  <2>2. k - 1 \in 0..Len(ops) /\ k \in 0..Len(ops)
    OBVIOUS
  <2> QED
    BY <2>1, <2>2, LenProperties
<1>2. /\ st \in Readings /\ st.cursor \in Int /\ lines \in Seq(Seen)
      /\ Balanced(lines, b, a, o, n) /\ Covered(lines, b, a, o, n)
  BY DEF Told, Readings
<1>3. c \in Int /\ t \in Texts
  <2>1. op \in Ops
    BY ElementOfSeq
  <2> QED
    BY <1>2, <2>1, NewStartTyped DEF From, Ops
<1>4. ASSUME NoPlusses(a), k \in Shown(ops), More(ops, k) PROVE c = n + 1
  <2>1. CASE k - 1 \in Shown(ops)
    <3>1. (k - 1) + 1 = k
      OBVIOUS
    <3> QED
      BY <1>4, <2>1, <3>1 DEF Told, From
  <2>2. CASE k - 1 \notin Shown(ops)
    BY <1>4, <2>2, NewStartRight DEF From
  <2> QED
    BY <2>1, <2>2
<1>5. ASSUME k \in Shown(ops), op.kind # "delete" PROVE More(ops, k)
  <2>1. k \in k..Len(ops) /\ k..k \subseteq Shown(ops)
    BY <1>1, <1>5
  <2> QED
    BY <1>5, <2>1 DEF More
<1>6. ASSUME k \in Shown(ops), More(ops, k + 1) PROVE More(ops, k)
  <2>1. PICK l \in k + 1..Len(ops) : k + 1..l \subseteq Shown(ops) /\ ops[l].kind # "delete"
    BY <1>6 DEF More
  <2>2. l \in k..Len(ops) /\ k..l \subseteq Shown(ops)
    BY <1>1, <1>6, <2>1
  <2> QED
    BY <2>1, <2>2 DEF More
<1>7. \/ /\ op.kind = "equal" /\ t = b[o2] /\ op.new = n2 /\ o2 = o + 1 /\ n2 = n + 1
         /\ o2 <= Len(b) /\ n2 <= Len(a) /\ b[o2] = a[n2]
      \/ op.kind = "delete" /\ t = b[o2] /\ o2 = o + 1 /\ n2 = n /\ o2 <= Len(b)
      \/ op.kind = "insert" /\ t = a[n2] /\ op.new = n2 /\ o2 = o /\ n2 = n + 1 /\ n2 <= Len(a)
  BY <1>1, FollowsKinds
<1>8. st2 \in Readings
  <2>1. Body(op.kind, t) \in Printable /\ At(c, lines) \in Readings
    BY <1>2, <1>3, PrintedTyped DEF At, Readings
  <2> QED
    BY <1>2, <2>1, ReadLineTyped
<1> HIDE DEF c, lines, t, op, o, n, o2, n2
\* What is known of the lines kept is known of the reading.
<1>9. ASSUME NEW c2, NEW lines2, st2 = At(c2, lines2), Ready(c2, lines2)
      PROVE  Told(st2, ops, k, b, a, o2, n2)
  <2>1. st2.cursor = c2 /\ st2.lines = lines2
    BY <1>9 DEF At
  <2> HIDE DEF st2
  <2> QED
    BY <1>8, <1>9, <2>1 DEF Told
<1>10. NoPlusses(a) => Placed(a, lines)
  BY DEF Told, lines
<1>11. CASE k \notin Shown(ops)
  <2>1. op.kind = "equal"
    BY <1>11, ShownFacts DEF op
  <2>2. t = b[o2] /\ o2 = o + 1 /\ n2 = n + 1 /\ b[o2] = a[n2]
    BY <1>7, <2>1
  <2>3. CountGrows("added", lines, lines, t, TRUE) /\ CountGrows("removed", lines, lines, t, TRUE)
    BY <1>2, <1>3, CountedAppend
  <2>4. Balanced(lines, b, a, o2, n2) /\ Covered(lines, b, a, o2, n2)
    BY <1>1, <1>2, <2>2, <2>3, CountsStep
  <2>5. st2 = At(st.cursor, lines)
    BY <1>2, <1>11 DEF Readings, At, lines
  <2>6. Ready(st.cursor, lines)
    BY <1>2, <1>10, <1>11, <2>4
  <2> HIDE DEF st2, Ready
  <2> QED
    BY <1>9, <2>5, <2>6
<1>12. CASE k \in Shown(ops) /\ op.kind = "equal"
  <2> DEFINE x == DiffLine("context", t, c)
             lines2 == Append(lines, x)
  <2>1. t = b[o2] /\ o2 = o + 1 /\ n2 = n + 1 /\ n2 <= Len(a) /\ b[o2] = a[n2]
    BY <1>7, <1>12
  <2>2. /\ lines2 \in Seq(Seen)
        /\ CountGrows("added", lines2, lines, t, TRUE) /\ CountGrows("removed", lines2, lines, t, TRUE)
    <3>1. /\ lines2 \in Seq(Seen) /\ CountGrows("added", lines2, lines, t, "added" # "context")
          /\ CountGrows("removed", lines2, lines, t, "removed" # "context")
      BY <1>2, <1>3, CountedAppend
    <3>2. ("added" # "context") = TRUE /\ ("removed" # "context") = TRUE
      OBVIOUS
    <3> HIDE DEF lines2
    <3> QED
      BY <3>1, <3>2
  <2>3. st2 = At(c + 1, lines2)
    <3>1. ReadLine(At(c, lines), Body("equal", t)) = At(c + 1, lines2)
      BY <1>2, <1>3, ReadLineCases
    <3> HIDE DEF lines2
    <3> QED
      BY <1>12, <3>1
  <2>4. x \in Seen /\ x.number = c /\ x.text = t
    BY <1>3 DEF DiffLine, Seen
  <2>5. Balanced(lines2, b, a, o2, n2) /\ Covered(lines2, b, a, o2, n2)
    <3> HIDE DEF lines2
    <3> QED
      BY <1>1, <1>2, <2>1, <2>2, CountsStep
  <2>6. ASSUME NoPlusses(a) PROVE Placed(a, lines2) /\ c + 1 = n2 + 1
    <3>1. c = n2
      BY <1>4, <1>5, <1>12, <2>1, <2>6
    <3>2. x.number \in DOMAIN a /\ a[x.number] = x.text
      BY <1>1, <2>1, <2>4, <3>1
    <3> HIDE DEF x
    <3>3. Placed(a, lines2)
      BY <1>2, <1>10, <2>4, <2>6, <3>2, PlacedAppend
    <3> QED
      BY <3>1, <3>3
  <2> HIDE DEF lines2
  <2>9. Ready(c + 1, lines2)
    BY <2>2, <2>5, <2>6
  <2> HIDE DEF st2, Ready
  <2> QED
    BY <1>9, <2>3, <2>9
<1>13. CASE k \in Shown(ops) /\ op.kind = "delete" /\ StartsWith(t, Dashes)
  <2>1. t = b[o2] /\ o2 = o + 1 /\ n2 = n
    BY <1>7, <1>13
  <2>2. CountGrows("added", lines, lines, t, TRUE) /\ CountGrows("removed", lines, lines, t, StartsWith(t, Dashes))
    <3>1. CountGrows("added", lines, lines, t, TRUE) /\ CountGrows("removed", lines, lines, t, TRUE)
      BY <1>2, <1>3, CountedAppend
    <3> QED
      BY <1>13, <3>1 DEF CountGrows
  <2>3. st2 = At(c, lines)
    BY <1>13, ReadDelete
  <2>4. Balanced(lines, b, a, o2, n2) /\ Covered(lines, b, a, o2, n2)
    BY <1>1, <1>2, <2>1, <2>2, CountsStep
  <2>5. NoPlusses(a) /\ More(ops, k + 1) => c = n2 + 1
    BY <1>4, <1>6, <1>13, <2>1
  <2>9. Ready(c, lines)
    BY <1>2, <1>10, <2>4, <2>5
  <2> HIDE DEF st2, Ready
  <2> QED
    BY <1>9, <2>3, <2>9
<1>14. CASE k \in Shown(ops) /\ op.kind = "delete" /\ ~StartsWith(t, Dashes)
  <2> DEFINE x == DiffLine("removed", t, 0)
             lines2 == Append(lines, x)
  <2>1. t = b[o2] /\ o2 = o + 1 /\ n2 = n
    BY <1>7, <1>14
  <2>2. /\ lines2 \in Seq(Seen)
        /\ CountGrows("added", lines2, lines, t, TRUE) /\ CountGrows("removed", lines2, lines, t, StartsWith(t, Dashes))
    <3>1. /\ lines2 \in Seq(Seen) /\ CountGrows("added", lines2, lines, t, "added" # "removed")
          /\ CountGrows("removed", lines2, lines, t, "removed" # "removed")
      BY <1>2, <1>3, 0 \in Int, CountedAppend
    <3>2. ("added" # "removed") = TRUE
      OBVIOUS
    <3> HIDE DEF lines2
    <3> QED
      BY <1>14, <3>1, <3>2 DEF CountGrows
  <2>3. st2 = At(c, lines2)
    BY <1>14, ReadDelete
  <2>4. x \in Seen /\ x.kind = "removed"
    BY <1>3 DEF DiffLine, Seen
  <2>5. Balanced(lines2, b, a, o2, n2) /\ Covered(lines2, b, a, o2, n2)
    <3> HIDE DEF lines2
    <3> QED
      BY <1>1, <1>2, <2>1, <2>2, CountsStep
  <2>6. NoPlusses(a) /\ More(ops, k + 1) => c = n2 + 1
    BY <1>4, <1>6, <1>14, <2>1
  <2>7. NoPlusses(a) => Placed(a, lines2)
    <3> HIDE DEF x
    <3> QED
      BY <1>2, <1>10, <2>4, PlacedAppend
  <2> HIDE DEF lines2
  <2>9. Ready(c, lines2)
    BY <2>2, <2>5, <2>6, <2>7
  <2> HIDE DEF st2, Ready
  <2> QED
    BY <1>9, <2>3, <2>9
<1>15. CASE k \in Shown(ops) /\ op.kind = "insert" /\ StartsWith(t, Plusses)
  <2>1. t = a[n2] /\ o2 = o /\ n2 = n + 1 /\ n2 <= Len(a)
    BY <1>7, <1>15
  <2>2. CountGrows("removed", lines, lines, t, TRUE) /\ CountGrows("added", lines, lines, t, StartsWith(t, Plusses))
    <3>1. CountGrows("added", lines, lines, t, TRUE) /\ CountGrows("removed", lines, lines, t, TRUE)
      BY <1>2, <1>3, CountedAppend
    <3> QED
      BY <1>15, <3>1 DEF CountGrows
  <2>3. st2 = At(c, lines)
    BY <1>15, ReadInsert
  <2>4. Balanced(lines, b, a, o2, n2) /\ Covered(lines, b, a, o2, n2)
    BY <1>1, <1>2, <2>1, <2>2, CountsStep
  <2>5. ~NoPlusses(a)
    BY <1>1, <1>15, <2>1 DEF NoPlusses
  <2>9. Ready(c, lines)
    BY <1>2, <2>4, <2>5
  <2> HIDE DEF st2, Ready
  <2> QED
    BY <1>9, <2>3, <2>9
<1>16. CASE k \in Shown(ops) /\ op.kind = "insert" /\ ~StartsWith(t, Plusses)
  <2> DEFINE x == DiffLine("added", t, c)
             lines2 == Append(lines, x)
  <2>1. t = a[n2] /\ o2 = o /\ n2 = n + 1 /\ n2 <= Len(a)
    BY <1>7, <1>16
  <2>2. /\ lines2 \in Seq(Seen)
        /\ CountGrows("removed", lines2, lines, t, TRUE) /\ CountGrows("added", lines2, lines, t, StartsWith(t, Plusses))
    <3>1. /\ lines2 \in Seq(Seen) /\ CountGrows("removed", lines2, lines, t, "removed" # "added")
          /\ CountGrows("added", lines2, lines, t, "added" # "added")
      BY <1>2, <1>3, CountedAppend
    <3>2. ("removed" # "added") = TRUE
      OBVIOUS
    <3> HIDE DEF lines2
    <3> QED
      BY <1>16, <3>1, <3>2 DEF CountGrows
  <2>3. st2 = At(c + 1, lines2)
    BY <1>16, ReadInsert
  <2>4. x \in Seen /\ x.number = c /\ x.text = t
    BY <1>3 DEF DiffLine, Seen
  <2>5. Balanced(lines2, b, a, o2, n2) /\ Covered(lines2, b, a, o2, n2)
    <3> HIDE DEF lines2
    <3> QED
      BY <1>1, <1>2, <2>1, <2>2, CountsStep
  <2>6. ASSUME NoPlusses(a) PROVE Placed(a, lines2) /\ c + 1 = n2 + 1
    <3>1. c = n2
      BY <1>4, <1>5, <1>16, <2>1, <2>6
    <3>2. x.number \in DOMAIN a /\ a[x.number] = x.text
      BY <1>1, <2>1, <2>4, <3>1
    <3> HIDE DEF x
    <3>3. Placed(a, lines2)
      BY <1>2, <1>10, <2>4, <2>6, <3>2, PlacedAppend
    <3> QED
      BY <3>1, <3>3
  <2> HIDE DEF lines2
  <2>9. Ready(c + 1, lines2)
    BY <2>2, <2>5, <2>6
  <2> HIDE DEF st2, Ready
  <2> QED
    BY <1>9, <2>3, <2>9
<1>17. op.kind \in {"equal", "delete", "insert"}
  BY <1>7
<1> HIDE DEF st2
<1> QED
  BY <1>11, <1>12, <1>13, <1>14, <1>15, <1>16, <1>17

LEMMA CountAmong ==
  ASSUME NEW lines \in Seq(Texts), NEW line
  PROVE  Count(line, lines) = Among(line, lines, Len(lines))
<1>1. DOMAIN lines = 1..Len(lines)
  BY LenProperties
<1> QED
  BY <1>1 DEF Count, Positions, Among

\* What the policy is told of a path from one text to another.
LEMMA PrintedTold ==
  ASSUME NEW b \in Seq(Texts), NEW a \in Seq(Texts), NEW ops, NEW before, NEW after,
         Path(ops, b, a, 0, 0, Len(b), Len(a))
  PROVE  LET body == PrintedAll(ops, before, after)
         IN  /\ body \in Seq(Printable)
             /\ Told(Reading(body), ops, Len(ops), b, a, Len(b), Len(a))
             /\ body = <<>> => Shown(ops) = {}
<1> DEFINE L == Len(ops)
<1>1. ops \in Seq(Ops) /\ L \in Nat
  BY LenProperties DEF Path
<1>2. PICK O, N : IsPath(ops, b, a, O, N, 0, 0, Len(b), Len(a))
  BY DEF Path
<1>3. PICK f : /\ f \in [0..L -> Seq(Printable)] /\ f[0] = <<>>
               /\ \A k \in 1..L : f[k] = f[k - 1] \o Printed(ops, k, before, after)
               /\ PrintedAll(ops, before, after) = f[L]
  <2> SUFFICES \E g : /\ g \in [0..Len(ops) -> Seq(Printable)] /\ g[0] = <<>>
                      /\ \A k \in 1..Len(ops) : g[k] = g[k - 1] \o Printed(ops, k, before, after)
                      /\ PrintedAll(ops, before, after) = g[Len(ops)]
    OBVIOUS
  <2>1. ops \in Seq(Ops)
    BY <1>1
  <2> HIDE DEF L
  <2> QED
    BY <2>1, PrintedAllLoops
<1>4. O[0] = 0 /\ N[0] = 0 /\ O[L] = Len(b) /\ N[L] = Len(a)
  BY <1>2 DEF IsPath
<1> DEFINE Done(k) == /\ Told(Reading(f[k]), ops, k, b, a, O[k], N[k])
                      /\ Len(f[k]) = 0 => \A m \in 1..k : m \notin Shown(ops)
           S == {k \in 0..L : Done(k)}
<1>5. 0 \in S
  <2>1. Reading(<<>>) = At(0, <<>>) /\ At(0, <<>>) \in Readings
    <3>1. [is |-> "no newline"] \in Printable /\ <<>> \in Seq(Printable) /\ <<>> \in Seq(Seen)
      BY EmptySeq DEF Printable
    <3> QED
      BY <3>1, ReadingAppend DEF At, Readings
  <2>2. ASSUME NEW line
        PROVE  /\ CountKind("added", line, <<>>) = 0 /\ CountKind("removed", line, <<>>) = 0
               /\ Among(line, a, 0) = 0 /\ Among(line, b, 0) = 0
    <3>1. [kind |-> "added", text |-> <<>>, number |-> 0] \in Seen /\ <<>> \in Seq(Seen)
      BY EmptySeq DEF Seen, Texts
    <3> QED
      BY <3>1, AmongStep, CountKindAppend
  <2>3. Balanced(<<>>, b, a, 0, 0) /\ Covered(<<>>, b, a, 0, 0)
    BY <2>2 DEF Balanced, Covered
  <2>4. Placed(a, <<>>)
    BY DEF Placed
  <2>5. 0 \notin Shown(ops)
    BY <1>1, ShownFacts
  <2>6. At(0, <<>>).lines = <<>>
    BY DEF At
  <2>7. Told(At(0, <<>>), ops, 0, b, a, 0, 0)
    BY <2>1, <2>3, <2>4, <2>5, <2>6 DEF Told
  <2>8. Done(0)
    BY <1>3, <1>4, <2>1, <2>7
  <2> QED
    BY <1>1, <2>8
<1>6. ASSUME NEW k \in 1..L, k - 1 \in S PROVE k \in S
  <2> DEFINE body == f[k - 1]
             printed == Printed(ops, k, before, after)
  <2>1. body \in Seq(Printable) /\ f[k] = body \o printed /\ Done(k - 1)
    BY <1>1, <1>3, <1>6
  <2>2. Told(Reading(body), ops, k - 1, b, a, O[k - 1], N[k - 1])
    BY <2>1
  <2>3. printed \in Seq(Printable) /\ (k \in Shown(ops) => Len(printed) > 0)
    BY <1>1, PrintedTyped
  <2>4. Reading(body \o printed)
           = IF k \notin Shown(ops) THEN Reading(body)
             ELSE ReadLine(At(From(ops, k, Reading(body).cursor), Reading(body).lines),
                           Body(ops[k].kind, ops[k].text))
    BY <1>1, <2>1, PrintedRead
  <2>5. Told(IF k \notin Shown(ops) THEN Reading(body)
             ELSE ReadLine(At(From(ops, k, Reading(body).cursor), Reading(body).lines),
                           Body(ops[k].kind, ops[k].text)),
             ops, k, b, a, O[k], N[k])
    BY <1>1, <1>2, <2>2, ToldStep
  <2>6. Told(Reading(body \o printed), ops, k, b, a, O[k], N[k])
    BY <2>4, <2>5
  <2>7. Len(body \o printed) = Len(body) + Len(printed) /\ Len(body) \in Nat /\ Len(printed) \in Nat
    BY <2>1, <2>3, ConcatProperties, LenProperties
  <2>8. Len(body \o printed) = 0 => \A m \in 1..k : m \notin Shown(ops)
    <3> SUFFICES ASSUME Len(body \o printed) = 0, NEW m \in 1..k PROVE m \notin Shown(ops)
      OBVIOUS
    <3>1. Len(body) = 0 /\ Len(printed) = 0
      BY <2>7
    <3>2. k \notin Shown(ops)
      BY <2>3, <3>1
    <3>3. \A p \in 1..k - 1 : p \notin Shown(ops)
      BY <2>1, <3>1
    <3> QED
      BY <3>2, <3>3
  <2> HIDE DEF body, printed
  <2>9. Done(k)
    BY <2>1, <2>6, <2>8
  <2> QED
    BY <2>9
<1>7. Done(L)
  <2> HIDE DEF Done
  <2>1. L \in S
    <3> HIDE DEF S, L
    <3>1. \A k \in 0..L : k \in S
      BY <1>1, <1>5, <1>6, UpTo
    <3> QED
      BY <1>1, <3>1
  <2> QED
    BY <2>1
<1>8. f[L] \in Seq(Printable)
  <2> HIDE DEF L
  <2>1. L \in 0..L /\ f \in [0..L -> Seq(Printable)]
    BY <1>1, <1>3
  <2> QED
    BY <2>1
<1>9. ASSUME f[L] = <<>> PROVE Shown(ops) = {}
  <2>1. Len(f[L]) = 0
    BY <1>9, EmptySeq
  <2>2. \A m \in 1..L : m \notin Shown(ops)
    BY <1>7, <2>1
  <2> QED
    BY <1>1, <2>2, ShownFacts
<1>10. Told(Reading(f[L]), ops, L, b, a, Len(b), Len(a))
  BY <1>4, <1>7
<1> HIDE DEF Done, S
<1> QED
  BY <1>3, <1>8, <1>9, <1>10

\* A path on which nothing changes is between the same lines.
LEMMA UnchangedPath ==
  ASSUME NEW b \in Seq(Texts), NEW a \in Seq(Texts), NEW ops,
         Path(ops, b, a, 0, 0, Len(b), Len(a)), \A k \in 1..Len(ops) : ops[k].kind = "equal"
  PROVE  a = b /\ Len(ops) = Len(b)
<1> DEFINE L == Len(ops)
<1>1. ops \in Seq(Ops) /\ L \in Nat
  BY LenProperties DEF Path
<1>2. PICK O, N : IsPath(ops, b, a, O, N, 0, 0, Len(b), Len(a))
  BY DEF Path
<1>3. /\ O \in [0..L -> Nat] /\ N \in [0..L -> Nat]
      /\ O[0] = 0 /\ N[0] = 0 /\ O[L] = Len(b) /\ N[L] = Len(a)
      /\ \A k \in 1..L : Follows(ops[k], b, a, O[k - 1], N[k - 1], O[k], N[k])
  BY <1>2 DEF IsPath
<1>4. ASSUME NEW k \in 1..L
      PROVE  O[k] = O[k - 1] + 1 /\ N[k] = N[k - 1] + 1 /\ b[O[k]] = a[N[k]]
  <2>1. Follows(ops[k], b, a, O[k - 1], N[k - 1], O[k], N[k]) /\ ops[k].kind = "equal"
    BY <1>3
  <2> QED
    BY <2>1, FollowsKinds
<1> DEFINE S == {k \in 0..L : O[k] = k /\ N[k] = k}
<1>5. 0 \in S
  BY <1>1, <1>3
<1>6. ASSUME NEW k \in 1..L, k - 1 \in S PROVE k \in S
  BY <1>4, <1>6
<1>7. \A k \in 0..L : O[k] = k /\ N[k] = k
  <2>1. \A k \in 0..L : k \in S
    <3> HIDE DEF S, L
    <3> QED
      BY <1>1, <1>5, <1>6, UpTo
  <2> QED
    BY <2>1
<1>8. Len(b) = L /\ Len(a) = L
  BY <1>1, <1>3, <1>7
<1>9. \A k \in 1..L : a[k] = b[k]
  <2> TAKE k \in 1..L
  <2>1. k - 1 \in 0..L /\ k \in 0..L
    BY <1>1
  <2> QED
    BY <1>4, <1>7, <2>1
<1> QED
  BY <1>8, <1>9, SeqEqual

LEMMA LastOf ==
  ASSUME NEW S, NEW s \in Seq(S), s # <<>>
  PROVE  s[Len(s)] \in S
<1>1. Len(s) \in Nat /\ Len(s) # 0
  BY EmptySeq, LenProperties
<1>2. Len(s) \in 1..Len(s)
  BY <1>1
<1> QED
  BY <1>2, ElementOfSeq

\* What the policy reads of a file: the lines that came and went, where the new
\* ones are, and whether it changed at all.
LEMMA FormattedIsRead ==
  ASSUME NEW old \in Texts, NEW new \in Texts
  PROVE  LET b == ToLines(old).lines
             a == ToLines(new).lines
             parsed == ParseFile(FormatFile(old, new))
         IN  /\ Balanced(parsed, b, a, Len(b), Len(a)) /\ Covered(parsed, b, a, Len(b), Len(a))
             /\ parsed \in Seq(Seen)
             /\ NoPlusses(a) => Placed(a, parsed)
             /\ FormatFile(old, new) = <<>> => old = new
<1> DEFINE before == ToLines(old)
           after == ToLines(new)
           b == before.lines
           a == after.lines
           lines == DiffLines(b, a)
           ops == Reopened(lines, before, after)
           body == PrintedAll(ops, before, after)
<1>1. b \in Seq(Texts) /\ a \in Seq(Texts) /\ before.open \in BOOLEAN /\ after.open \in BOOLEAN
  BY ToLinesFacts
<1>2. (before.open => b # <<>>) /\ (after.open => a # <<>>)
  BY ToLinesFacts
<1>3. before.open = after.open /\ a = b => old = new
  BY ToLinesInjective
<1>4. FormatFile(old, new) = body
  BY DEF FormatFile
<1> HIDE DEF before, after
<1>5. Path(lines, b, a, 0, 0, Len(b), Len(a))
  BY <1>1, DiffLinesPath
<1>6. Path(ops, b, a, 0, 0, Len(b), Len(a))
  BY <1>1, <1>5, ReopenedPath
<1>7. /\ body \in Seq(Printable) /\ Told(Reading(body), ops, Len(ops), b, a, Len(b), Len(a))
      /\ body = <<>> => Shown(ops) = {}
  BY <1>1, <1>6, PrintedTold
<1>8. ASSUME body = <<>> PROVE old = new
  <2>0. ops \in Seq(Ops) /\ lines \in Seq(Ops)
    BY <1>5, <1>6 DEF Path
  <2>1. \A k \in 1..Len(ops) : ops[k].kind = "equal"
    BY <1>7, <1>8, <2>0, ShownFacts
  <2>2. a = b /\ Len(ops) = Len(b)
    BY <1>1, <1>6, <2>1, UnchangedPath
  <2>3. before.open = after.open
    <3> SUFFICES ASSUME before.open # after.open PROVE FALSE
      OBVIOUS
    <3>1. b # <<>> /\ Len(b) > 0
      <4>1. b # <<>>
        BY <1>1, <1>2, <2>2
      <4> QED
        BY <1>1, <4>1, EmptySeq
    <3>2. CASE ops = lines
      <4> DEFINE last == lines[Len(lines)]
      <4>1. lines # <<>> /\ last.kind = "equal"
        <5>1. Len(lines) > 0
          BY <2>2, <3>1, <3>2
        <5>2. lines # <<>> /\ Len(lines) \in 1..Len(lines)
          BY <2>0, <5>1, EmptySeq, LenProperties
        <5> QED
          BY <2>1, <3>2, <5>2
      <4> DEFINE front == SubSeq(lines, 1, Len(lines) - 1)
                 d == Delete(last.text, last.old)
                 i == Insert(last.text, last.new)
      <4>2. ops = front \o <<d, i>>
        BY <4>1 DEF Reopened
      <4>3. front \in Seq(Ops) /\ Len(front) = Len(lines) - 1
        <5>1. /\ Len(lines) \in Nat /\ Len(lines) > 0
              /\ \A k \in 1..Len(lines) - 1 : lines[k] \in Ops
          BY <2>0, <4>1, EmptySeq, ElementOfSeq, LenProperties
        <5> QED
          BY <5>1, SubSeqProperties
      <4>4. d \in Ops /\ i \in Ops
        <5>1. lines \in Seq(Ops) /\ lines # <<>>
          BY <2>0, <4>1
        <5>2. last \in Ops
          <6> HIDE DEF lines
          <6> QED
            BY <5>1, LastOf
        <5> QED
          BY <5>2 DEF Ops, Delete, Insert
      <4> HIDE DEF front, d, i, lines, ops
      <4>5. Len(front \o <<d, i>>) = Len(front) + 2
        BY <4>3, <4>4
      <4> QED
        BY <2>0, <3>2, <4>2, <4>3, <4>5, LenProperties
    <3>3. CASE ops # lines
      <4> DEFINE last == lines[Len(lines)]
                 front == SubSeq(lines, 1, Len(lines) - 1)
                 d == Delete(last.text, last.old)
                 i == Insert(last.text, last.new)
      <4>1. ops = front \o <<d, i>> /\ lines # <<>>
        BY <3>3 DEF Reopened
      <4>2. front \in Seq(Ops) /\ Len(front) \in Nat
        <5>1. \A k \in 1..Len(lines) - 1 : lines[k] \in Ops
          BY <2>0, ElementOfSeq, LenProperties
        <5>2. Len(lines) - 1 \in Int /\ 1 \in Int
          BY <2>0, LenProperties
        <5>3. front \in Seq(Ops)
          BY <5>1, <5>2, SubSeqProperties
        <5> QED
          BY <5>3, LenProperties
      <4>3. d \in Ops /\ i \in Ops /\ i.kind = "insert"
        <5>1. lines \in Seq(Ops) /\ lines # <<>>
          BY <2>0, <4>1
        <5>2. last \in Ops
          <6> HIDE DEF lines
          <6> QED
            BY <5>1, LastOf
        <5> QED
          BY <5>2 DEF Ops, Delete, Insert
      <4> HIDE DEF front, d, i, lines, ops
      <4>4. Len(ops) = Len(front) + 2 /\ ops[Len(front) + 2] = i
        BY <4>1, <4>2, <4>3
      <4> QED
        BY <2>1, <4>2, <4>3, <4>4
    <3> QED
      BY <3>2, <3>3
  <2> QED
    BY <1>3, <2>2, <2>3
<1>9. /\ Balanced(ParseFile(body), b, a, Len(b), Len(a)) /\ Covered(ParseFile(body), b, a, Len(b), Len(a))
      /\ ParseFile(body) \in Seq(Seen)
      /\ NoPlusses(a) => Placed(a, ParseFile(body))
  <2> DEFINE st == Reading(body)
  <2> HIDE DEF body
  <2> QED
    BY <1>7 DEF Told, Readings, ParseFile
<1> HIDE DEF body, ops, lines
<1>10. ParseFile(FormatFile(old, new)) = ParseFile(body)
  BY <1>4
<1>11. FormatFile(old, new) = <<>> => old = new
  BY <1>4, <1>8
<1>12. b = ToLines(old).lines /\ a = ToLines(new).lines
  BY DEF before, after
<1> HIDE DEF a, b
<1> QED
  BY <1>9, <1>10, <1>11, <1>12, Zenon

-----------------------------------------------------------------------------
(* The verdict *)

LEMMA CountTyped ==
  ASSUME NEW lines \in Seq(Texts), NEW line
  PROVE  Count(line, lines) \in Nat
<1>1. DOMAIN lines = 1..Len(lines) /\ Len(lines) \in Nat
  BY LenProperties
<1>2. IsFiniteSet(1..Len(lines))
  BY <1>1, FS_Interval
<1>3. Positions(line, lines) \subseteq 1..Len(lines)
  BY <1>1 DEF Positions
<1>4. IsFiniteSet(Positions(line, lines))
  BY <1>2, <1>3, FS_Subset
<1> QED
  BY <1>4, FS_CardinalityType DEF Count

LEMMA NoneAdded ==
  ASSUME NEW lines \in Seq(Seen), NEW line,
         \A k \in Additions(lines) : lines[k].text # line
  PROVE  CountKind("added", line, lines) = 0
<1>1. {k \in DOMAIN lines : lines[k].kind = "added" /\ lines[k].text = line} = {}
  BY DEF Additions
<1> QED
  BY <1>1, FS_EmptySet DEF CountKind

\* What the policy has inspected of a file, when it rejects nothing.
LEMMA InspectedFile ==
  ASSUME NEW x \in Texts, NEW y \in Texts,
         ~Adds(ParseFile(FormatFile(x, y)), Refused)
  PROVE  LET old == ToLines(x).lines
             new == ToLines(y).lines
             parsed == ParseFile(FormatFile(x, y))
         IN  /\ Inspected(old, new, parsed)
             /\ (\A k \in DOMAIN new : ~StartsWith(new[k], Plusses)) => Placed(new, parsed)
             /\ \A k \in DOMAIN new : Has(new[k], Refused) /\ ~StartsWith(new[k], Plusses)
                  => Count(new[k], new) <= Count(new[k], old)
<1> DEFINE old == ToLines(x).lines
           new == ToLines(y).lines
           parsed == ParseFile(FormatFile(x, y))
<1>1. old \in Seq(Texts) /\ new \in Seq(Texts)
  BY ToLinesFacts
<1>2. /\ Balanced(parsed, old, new, Len(old), Len(new)) /\ Covered(parsed, old, new, Len(old), Len(new))
      /\ parsed \in Seq(Seen) /\ (NoPlusses(new) => Placed(new, parsed))
  BY FormattedIsRead
<1>3. ~Adds(parsed, Refused)
  OBVIOUS
<1> HIDE DEF old, new, parsed
<1>4. ASSUME NEW line PROVE /\ Count(line, old) \in Nat /\ Count(line, new) \in Nat
                            /\ Count(line, old) = Among(line, old, Len(old))
                            /\ Count(line, new) = Among(line, new, Len(new))
  BY <1>1, CountTyped, CountAmong
<1>5. Inspected(old, new, parsed)
  <2> SUFFICES ASSUME NEW line, ~Headerlike(line)
               PROVE  Count(line, new) - Count(line, old)
                        = CountKind("added", line, parsed) - CountKind("removed", line, parsed)
    BY DEF Inspected
  <2>1. CountKind("added", line, parsed) - CountKind("removed", line, parsed)
          = Among(line, new, Len(new)) - Among(line, old, Len(old))
    BY <1>2 DEF Balanced
  <2> QED
    BY <1>4, <2>1
<1>6. (\A k \in DOMAIN new : ~StartsWith(new[k], Plusses)) => Placed(new, parsed)
  BY <1>2 DEF NoPlusses
<1>7. ASSUME NEW k \in DOMAIN new, Has(new[k], Refused), ~StartsWith(new[k], Plusses)
      PROVE  Count(new[k], new) <= Count(new[k], old)
  <2>1. CountKind("added", new[k], parsed) = 0
    <3>1. \A l \in Additions(parsed) : parsed[l].text # new[k]
      BY <1>3, <1>7 DEF Adds
    <3> QED
      BY <1>2, <3>1, NoneAdded
  <2>2. Among(new[k], new, Len(new)) - Among(new[k], old, Len(old)) <= CountKind("added", new[k], parsed)
    BY <1>2, <1>7 DEF Covered
  <2>3. /\ Count(new[k], old) \in Nat /\ Count(new[k], new) \in Nat
        /\ Count(new[k], old) = Among(new[k], old, Len(old))
        /\ Count(new[k], new) = Among(new[k], new, Len(new))
    BY <1>4
  <2> DEFINE line == new[k]
  <2> HIDE DEF line
  <2> QED
    BY <2>1, <2>2, <2>3
<1> QED
  BY <1>5, <1>6, <1>7 DEF old, new, parsed

\* The diff describes exactly the files that changed.
Describes(diff, D, before, after) ==
  LET changed == {p \in D : after[p] # before[p]}
  IN  /\ DOMAIN diff = changed /\ DOMAIN ParseUnifiedDiff(diff) = changed
      /\ \A p \in changed : ParseUnifiedDiff(diff)[p] = ParseFile(FormatFile(before[p], after[p]))

LEMMA ChangedIsDescribed ==
  ASSUME NEW D, NEW before \in [D -> Texts], NEW after \in [D -> Texts]
  PROVE  Describes(FormatUnifiedDiff(before, after), D, before, after)
<1> DEFINE diff == FormatUnifiedDiff(before, after)
           changed == {p \in D : after[p] # before[p]}
           bodies == [p \in {p \in DOMAIN after : before[p] # after[p]} |-> FormatFile(before[p], after[p])]
<1>1. DOMAIN bodies = changed /\ \A p \in changed : bodies[p] = FormatFile(before[p], after[p])
  OBVIOUS
<1>2. \A p \in changed : FormatFile(before[p], after[p]) # <<>>
  <2> SUFFICES ASSUME NEW p \in changed PROVE FormatFile(before[p], after[p]) # <<>>
    OBVIOUS
  <2>1. before[p] \in Texts /\ after[p] \in Texts /\ before[p] # after[p]
    OBVIOUS
  <2> HIDE DEF changed
  <2>2. FormatFile(before[p], after[p]) = <<>> => before[p] = after[p]
    BY <2>1, FormattedIsRead
  <2> QED
    BY <2>1, <2>2
<1>3. diff = [p \in {p \in DOMAIN bodies : bodies[p] # <<>>} |-> bodies[p]]
  BY DEF FormatUnifiedDiff
<1> HIDE DEF bodies, changed, diff
<1>4. {p \in DOMAIN bodies : bodies[p] # <<>>} = changed
  BY <1>1, <1>2
<1>5. DOMAIN diff = changed /\ \A p \in changed : diff[p] = FormatFile(before[p], after[p])
  BY <1>1, <1>3, <1>4
<1>6. /\ DOMAIN ParseUnifiedDiff(diff) = changed
      /\ \A p \in changed : ParseUnifiedDiff(diff)[p] = ParseFile(diff[p])
  BY <1>5 DEF ParseUnifiedDiff
<1> QED
  BY <1>5, <1>6 DEF changed, diff, Describes

\* AllowedWasInspected of the diff that generate makes of two texts.
LEMMA AllowedIsInspected ==
  ASSUME NEW D, NEW before \in [D -> Texts], NEW after \in [D -> Texts], NEW radius,
         Verdict(ParseUnifiedDiff(FormatUnifiedDiff(before, after)), radius) = "allow"
  PROVE  LET changed == {p \in D : after[p] # before[p]}
             parsed == ParseUnifiedDiff(FormatUnifiedDiff(before, after))
         IN  /\ DOMAIN parsed = changed /\ changed \subseteq radius \ CiPaths
             /\ \A p \in changed :
                  LET old == ToLines(before[p]).lines
                      new == ToLines(after[p]).lines
                  IN  /\ Inspected(old, new, parsed[p])
                      /\ (\A k \in DOMAIN new : ~StartsWith(new[k], Plusses)) => Placed(new, parsed[p])
                      /\ \A k \in DOMAIN new : Has(new[k], Refused) /\ ~StartsWith(new[k], Plusses)
                           => Count(new[k], new) <= Count(new[k], old)
<1> DEFINE changed == {p \in D : after[p] # before[p]}
           parsed == ParseUnifiedDiff(FormatUnifiedDiff(before, after))
<1>1. /\ DOMAIN parsed = changed
      /\ \A p \in changed : parsed[p] = ParseFile(FormatFile(before[p], after[p]))
  <2>1. Describes(FormatUnifiedDiff(before, after), D, before, after)
    BY ChangedIsDescribed
  <2> QED
    BY <2>1 DEF Describes
<1>2. \A p \in changed : before[p] \in Texts /\ after[p] \in Texts
  OBVIOUS
<1>3. ~Rejects(parsed, radius)
  BY DEF Verdict
<1> HIDE DEF changed, parsed
<1>4. changed \subseteq radius \ CiPaths /\ \A p \in changed : ~Adds(parsed[p], Refused)
  BY <1>1, <1>3 DEF Rejects
<1>5. \A p \in changed : ~Adds(ParseFile(FormatFile(before[p], after[p])), Refused)
  BY <1>1, <1>4
<1>6. ASSUME NEW p \in changed
      PROVE  LET old == ToLines(before[p]).lines
                 new == ToLines(after[p]).lines
             IN  /\ Inspected(old, new, parsed[p])
                 /\ (\A k \in DOMAIN new : ~StartsWith(new[k], Plusses)) => Placed(new, parsed[p])
                 /\ \A k \in DOMAIN new : Has(new[k], Refused) /\ ~StartsWith(new[k], Plusses)
                      => Count(new[k], new) <= Count(new[k], old)
  <2>1. parsed[p] = ParseFile(FormatFile(before[p], after[p]))
    BY <1>1
  <2>2. before[p] \in Texts /\ after[p] \in Texts /\ ~Adds(ParseFile(FormatFile(before[p], after[p])), Refused)
    BY <1>2, <1>5
  <2> QED
    BY <2>1, <2>2, InspectedFile
<1> QED
  BY <1>1, <1>4, <1>6 DEF changed, parsed

-----------------------------------------------------------------------------
(* The generation *)

LEMMA DecodedTyped ==
  ASSUME NEW text \in Texts
  PROVE  Decoded(text) \in Texts
<1>1. Len(text) \in Nat /\ DOMAIN text = 1..Len(text) /\ \A k \in 1..Len(text) : text[k] \in Tokens
  BY LenProperties, ElementOfSeq DEF Texts
<1>2. Decoded(text) \in [1..Len(text) -> Tokens]
  BY <1>1, AgentAssumption DEF Decoded
<1> QED
  BY <1>1, <1>2, IsASeq DEF Texts

LEMMA BytesTyped ==
  ASSUME NEW text \in Texts
  PROVE  Bytes(text) \in Nat
<1> DEFINE replaced == {k \in DOMAIN text : text[k] = Replacement}
<1>1. Len(text) \in Nat /\ DOMAIN text = 1..Len(text)
  BY LenProperties DEF Texts
<1>2. IsFiniteSet(1..Len(text)) /\ replaced \subseteq 1..Len(text)
  BY <1>1, FS_Interval
<1> HIDE DEF replaced
<1>3. Cardinality(replaced) \in Nat
  BY <1>2, FS_Subset, FS_CardinalityType
<1> DEFINE n == Cardinality(replaced)
<1>4. n \in Nat /\ Bytes(text) = Len(text) + 2 * n
  BY <1>3 DEF Bytes, replaced
<1> HIDE DEF n
<1> QED
  BY <1>1, <1>4

\* What fits is of what was offered.
LEMMA FittingWithin ==
  ASSUME NEW paths, Len(paths) \in Nat, NEW among, NEW size, NEW read, \A p \in among : read[p] \in Nat,
         NEW maxBytes, NEW maxFiles
  PROVE  Fitting(paths, among, size, read, maxBytes, maxFiles) \subseteq among
<1> DEFINE L == Len(paths)
           R == [paths : SUBSET among, used : Nat]
           base == [paths |-> {}, used |-> 0]
           NextTaken(taken, p) == IF p \notin among THEN taken ELSE Include(taken, p, size, read, maxBytes, maxFiles)
           step == [x \in (1..L) \X R |-> NextTaken(x[2], paths[x[1]])]
           Body1(f) == [n \in 0..L |-> IF n = 0 THEN base
                                       ELSE IF paths[n] \notin among THEN f[n - 1]
                                       ELSE Include(f[n - 1], paths[n], size, read, maxBytes, maxFiles)]
           F == CHOOSE f : f = Body1(f)
<1>1. L \in Nat /\ base \in R
  OBVIOUS
<1>2. ASSUME NEW taken \in R, NEW p PROVE NextTaken(taken, p) \in R
  <2>1. CASE p \notin among
    BY <2>1
  <2>2. CASE p \in among
    <3>1. read[p] \in Nat /\ taken.used \in Nat /\ taken.paths \subseteq among
      BY <2>2
    <3> DEFINE used == taken.used + read[p]
    <3>2. used \in Nat
      BY <3>1
    <3>3. Include(taken, p, size, read, maxBytes, maxFiles) \in {taken, [paths |-> taken.paths \cup {p}, used |-> used]}
      BY DEF Include
    <3> HIDE DEF used
    <3> QED
      BY <2>2, <3>1, <3>2, <3>3
  <2> QED
    BY <2>1, <2>2
<1>3. step \in [(1..L) \X R -> R]
  <2> HIDE DEF R, NextTaken, L
  <2> QED
    BY <1>2
<1>4. PICK g : IsLoop(g, L, R, base, step)
  <2> HIDE DEF L, R, base, step
  <2> QED
    BY <1>1, <1>3, LoopExists
<1>5. /\ g \in [0..L -> R] /\ g[0] = base
      /\ \A n \in 1..L : g[n] = NextTaken(g[n - 1], paths[n])
  <2>1. g \in [0..L -> R] /\ g[0] = base
    BY <1>4 DEF IsLoop
  <2>2. ASSUME NEW n \in 1..L PROVE g[n] = NextTaken(g[n - 1], paths[n])
    <3>1. n - 1 \in 0..L
      BY <1>1
    <3>2. <<n, g[n - 1]>> \in (1..L) \X R
      BY <2>1, <3>1
    <3>3. g[n] = step[<<n, g[n - 1]>>]
      BY <1>4 DEF IsLoop
    <3> HIDE DEF NextTaken, R
    <3> QED
      BY <3>2, <3>3
  <2> QED
    BY <2>1, <2>2
<1> HIDE DEF R, base
<1>6. g = Body1(g)
  BY <1>1, <1>5
<1>7. F = Body1(F)
  <2> HIDE DEF Body1
  <2> QED
    BY <1>6
<1>8. Fitting(paths, among, size, read, maxBytes, maxFiles) = F[L].paths
  BY DEF Fitting, base
<1>9. \A n \in 0..L : F[n] = g[n]
  <2> HIDE DEF F
  <2>1. F[0] = g[0]
    BY <1>1, <1>5, <1>7
  <2>2. ASSUME NEW n \in 1..L, F[n - 1] = g[n - 1] PROVE F[n] = g[n]
    BY <1>1, <1>5, <1>7, <2>2
  <2> HIDE DEF L
  <2>3. L \in Nat /\ Alike(F, g, L)
    BY <1>1, <2>1, <2>2 DEF Alike
  <2> QED
    BY <2>3, LoopsAgree
<1>10. g[L] \in R /\ F[L] = g[L]
  BY <1>1, <1>5, <1>9
<1> HIDE DEF F, L
<1> QED
  BY <1>8, <1>10 DEF R

LEMMA ReplacedTyped ==
  ASSUME NEW edit, NEW text \in Texts, edit.find \in Texts, edit.replace \in Texts,
         Cardinality(Occurrences(edit.find, text)) = 1
  PROVE  Replaced(edit, text) \in Texts
<1> DEFINE find == edit.find
           replace == edit.replace
           at == CHOOSE at \in Occurrences(find, text) : TRUE
<1>1. /\ Len(text) \in Nat /\ Len(find) \in Nat
      /\ \A k \in 1..Len(text) : text[k] \in Tokens
  BY LenProperties, ElementOfSeq DEF Texts
<1>2. Occurrences(find, text) # {}
  BY FS_EmptySet
<1>3. at \in Occurrences(find, text)
  BY <1>2
<1>4. Replaced(edit, text) = SubSeq(text, 1, at - 1) \o replace \o SubSeq(text, at + Len(find), Len(text))
  BY DEF Replaced
<1>5. find \in Texts /\ replace \in Texts
  OBVIOUS
<1> HIDE DEF at, find, replace
<1>6. at \in Int /\ 1 <= at /\ at <= Len(text) - Len(find) + 1
  BY <1>1, <1>3 DEF Occurrences
<1>7. SubSeq(text, 1, at - 1) \in Texts
  <2>1. at - 1 \in Int /\ \A k \in 1..at - 1 : text[k] \in Tokens
    BY <1>1, <1>6
  <2> QED
    BY <2>1, SubSeqProperties DEF Texts
<1>8. SubSeq(text, at + Len(find), Len(text)) \in Texts
  <2>1. at + Len(find) \in Int /\ Len(text) \in Int /\ \A k \in at + Len(find)..Len(text) : text[k] \in Tokens
    BY <1>1, <1>6
  <2> QED
    BY <2>1, SubSeqProperties DEF Texts
<1> DEFINE x == SubSeq(text, 1, at - 1)
           y == SubSeq(text, at + Len(find), Len(text))
<1> HIDE DEF x, y
<1>9. (x \o replace) \in Texts
  BY <1>5, <1>7, ConcatProperties DEF x, Texts
<1>10. (x \o replace) \o y \in Texts
  BY <1>8, <1>9, ConcatProperties DEF y, Texts
<1> QED
  BY <1>4, <1>10 DEF x, y

\* The copies of the texts that differ in what may be touched alone.
Copies(D, text, radius) == {w \in [D -> Texts] : \A p \in D \ radius : w[p] = text[p]}

LEMMA EditedWithin ==
  ASSUME NEW D, NEW text \in [D -> Texts], NEW radius \in SUBSET D, NEW shown,
         NEW copies \in SUBSET Copies(D, text, radius),
         NEW edit, edit.find \in Texts, edit.replace \in Texts
  PROVE  Edited(copies, edit, shown, radius) \in SUBSET Copies(D, text, radius)
<1> SUFFICES ASSUME NEW w \in copies, Applicable(edit, w, shown, radius)
             PROVE  [w EXCEPT ![edit.path] = Replaced(edit, w[edit.path])] \in Copies(D, text, radius)
  BY DEF Edited
<1> DEFINE q == edit.path
<1>1. w \in [D -> Texts] /\ \A p \in D \ radius : w[p] = text[p]
  BY DEF Copies
<1>2. q \in radius /\ q \in D /\ Cardinality(Occurrences(edit.find, w[q])) = 1
  BY DEF Applicable
<1>3. Replaced(edit, w[q]) \in Texts
  BY <1>1, <1>2, ReplacedTyped
<1> DEFINE new == Replaced(edit, w[q])
<1> HIDE DEF new, q
<1>4. [w EXCEPT ![q] = new] \in Copies(D, text, radius)
  BY <1>1, <1>2, <1>3 DEF Copies, new
<1> QED
  BY <1>4 DEF new, q

\* An edit plan changes nothing outside the radius.
LEMMA AppliedWithin ==
  ASSUME NEW plan, Len(plan) \in Nat,
         \A k \in 1..Len(plan) : plan[k].find \in Texts /\ plan[k].replace \in Texts,
         NEW D, NEW text \in [D -> Texts], NEW radius \in SUBSET D, NEW shown
  PROVE  Applied(plan, text, shown, radius) \subseteq Copies(D, text, radius)
<1> DEFINE L == Len(plan)
           R == SUBSET Copies(D, text, radius)
           base == {text}
           step == [x \in (1..L) \X R |-> Edited(x[2], plan[x[1]], shown, radius)]
           Body1(f) == [n \in 0..L |-> IF n = 0 THEN base ELSE Edited(f[n - 1], plan[n], shown, radius)]
           F == CHOOSE f : f = Body1(f)
<1>1. L \in Nat /\ base \in R
  BY DEF Copies
<1>2. ASSUME NEW n \in 1..L, NEW copies \in R PROVE Edited(copies, plan[n], shown, radius) \in R
  BY EditedWithin
<1>3. step \in [(1..L) \X R -> R]
  <2> HIDE DEF R, L
  <2> QED
    BY <1>2
<1>4. PICK g : IsLoop(g, L, R, base, step)
  <2> HIDE DEF L, R, base, step
  <2> QED
    BY <1>1, <1>3, LoopExists
<1>5. /\ g \in [0..L -> R] /\ g[0] = base
      /\ \A n \in 1..L : g[n] = Edited(g[n - 1], plan[n], shown, radius)
  <2>1. g \in [0..L -> R] /\ g[0] = base
    BY <1>4 DEF IsLoop
  <2>2. ASSUME NEW n \in 1..L PROVE g[n] = Edited(g[n - 1], plan[n], shown, radius)
    <3>1. n - 1 \in 0..L
      BY <1>1
    <3> HIDE DEF R
    <3>2. <<n, g[n - 1]>> \in (1..L) \X R
      BY <2>1, <3>1
    <3>3. g[n] = step[<<n, g[n - 1]>>]
      BY <1>4 DEF IsLoop
    <3> QED
      BY <3>2, <3>3
  <2> QED
    BY <2>1, <2>2
<1> HIDE DEF R
<1>6. g = Body1(g)
  BY <1>1, <1>5
<1>7. F = Body1(F)
  <2> HIDE DEF Body1
  <2> QED
    BY <1>6
<1>8. Applied(plan, text, shown, radius) = F[L]
  BY DEF Applied
<1>9. \A n \in 0..L : F[n] = g[n]
  <2> HIDE DEF F, base
  <2>1. F[0] = g[0]
    BY <1>1, <1>5, <1>7
  <2>2. ASSUME NEW n \in 1..L, F[n - 1] = g[n - 1] PROVE F[n] = g[n]
    BY <1>1, <1>5, <1>7, <2>2
  <2> HIDE DEF L, Body1, step
  <2>3. L \in Nat /\ Alike(F, g, L)
    BY <1>1, <2>1, <2>2 DEF Alike
  <2> QED
    BY <2>3, LoopsAgree
<1>10. g[L] \in R /\ F[L] = g[L]
  BY <1>1, <1>5, <1>9
<1> HIDE DEF F, L
<1> QED
  BY <1>8, <1>10 DEF R

LEMMA RadiusWithin ==
  ASSUME NEW paths, NEW text
  PROVE  BlastRadius(paths, text) \subseteq paths \ NeverIncluded
BY DEF BlastRadius

LEMMA SourcesWithin ==
  ASSUME NEW at \in Trees
  PROVE  Sources(at) \subseteq DOMAIN at
<1> DEFINE among == {p \in DOMAIN at : ~Has(at[p], {Binary})}
           size == [p \in DOMAIN at |-> Len(at[p])]
           read == [p \in DOMAIN at |-> Bytes(Decoded(at[p]))]
<1>1. \A p \in among : read[p] \in Nat
  <2>1. \A p \in DOMAIN at : Bytes(Decoded(at[p])) \in Nat
    BY AgentAssumption, DecodedTyped, BytesTyped DEF Texts
  <2> QED
    BY <2>1
<1>2. Len(Selected) \in Nat
  BY AgentAssumption
<1>3. Sources(at) = Fitting(Selected, among, size, read, MaxTotalBytes, Len(Selected))
  BY DEF Sources
<1>4. among \subseteq DOMAIN at
  OBVIOUS
<1> HIDE DEF among, size, read
<1>5. Fitting(Selected, among, size, read, MaxTotalBytes, Len(Selected)) \subseteq among
  BY <1>1, <1>2, FittingWithin
<1> QED
  BY <1>3, <1>4, <1>5

\* A migration: what it was made from, what it may touch, what it is, and what
\* is made of that.
Generation(at, g) ==
  /\ g.kind = "generated"
  /\ DOMAIN g.before \subseteq DOMAIN at \cap SafePaths
  /\ g.radius \subseteq DOMAIN g.before \ NeverIncluded
  /\ g.before \in [DOMAIN g.before -> Texts]
  /\ g.after \in Copies(DOMAIN g.before, g.before, g.radius)
  /\ g.diff = FormatUnifiedDiff(g.before, g.after)
  /\ g.verdict = Verdict(ParseUnifiedDiff(g.diff), g.radius)

LEMMA OutcomeIs ==
  ASSUME NEW at \in Trees, NEW proposal \in Proposals
  PROVE  \/ Outcome(at, proposal) \in {Ended("failed"), Ended("no edits")}
         \/ Generation(at, Outcome(at, proposal))
<1> DEFINE sources == Sources(at) \cap SafePaths
           text == [p \in sources |-> Decoded(at[p])]
           radius == BlastRadius(sources, text)
           size == [p \in sources |-> Bytes(text[p])]
           shown == Fitting(Selected, radius, size, size, MaxPromptBytes, MaxFiles)
           copies == Applied(proposal, text, shown, radius)
           after == CHOOSE w \in copies : TRUE
           diff == FormatUnifiedDiff(text, after)
           verdict == Verdict(ParseUnifiedDiff(diff), radius)
           made == [kind |-> "generated", radius |-> radius, before |-> text, after |-> after,
                    diff |-> diff, verdict |-> verdict]
<1>1. sources \subseteq DOMAIN at \cap SafePaths
  BY SourcesWithin
<1>2. text \in [sources -> Texts] /\ DOMAIN text = sources
  <2>1. \A p \in sources : Decoded(at[p]) \in Texts
    BY <1>1, AgentAssumption, DecodedTyped DEF Texts
  <2> HIDE DEF sources
  <2> QED
    BY <2>1
<1>3. radius \subseteq sources \ NeverIncluded
  BY RadiusWithin
<1>4. \/ Outcome(at, proposal) \in {Ended("failed"), Ended("no edits")}
      \/ copies # {} /\ Outcome(at, proposal) = made
  BY Zenon DEF Outcome
<1> HIDE DEF sources, text, radius, shown
<1>5. copies \subseteq Copies(sources, text, radius)
  <2>1. /\ Len(proposal) \in Nat
        /\ \A k \in 1..Len(proposal) : proposal[k].find \in Texts /\ proposal[k].replace \in Texts
    BY AgentAssumption DEF Texts
  <2>2. radius \in SUBSET sources
    BY <1>3
  <2> QED
    BY <1>2, <2>1, <2>2, AppliedWithin
<1>6. copies # {} => after \in copies
  OBVIOUS
<1> HIDE DEF copies, after, diff
<1>7. ASSUME copies # {} PROVE Generation(at, made)
  <2>1. after \in Copies(sources, text, radius)
    BY <1>5, <1>6, <1>7
  <2>2. /\ made.kind = "generated" /\ made.radius = radius /\ made.before = text /\ made.after = after
        /\ made.diff = diff /\ made.verdict = verdict
    OBVIOUS
  <2>3. diff = FormatUnifiedDiff(text, after)
    BY DEF diff
  <2>4. verdict = Verdict(ParseUnifiedDiff(diff), radius)
    OBVIOUS
  <2> HIDE DEF made, verdict
  <2> QED
    BY <1>1, <1>2, <1>3, <2>1, <2>2, <2>3, <2>4 DEF Generation
<1> QED
  BY <1>4, <1>7

-----------------------------------------------------------------------------
(* The agent *)

AgentSpec == AgentInit /\ [][AgentNext]_agentVars

\* The generation has ended without a migration, or is one of the tree.
AgentIInv ==
  /\ tree \in Trees
  /\ \/ \E kind \in {"none", "failed", "no edits"} : generation = Ended(kind)
     \/ Generation(tree, generation)

LEMMA VerdictTyped ==
  ASSUME NEW parsed, NEW radius
  PROVE  Verdict(parsed, radius) \in {"allow", "escalate", "reject"}
BY DEF Verdict

LEMMA DescribedWithin ==
  ASSUME NEW D, NEW before \in [D -> Texts], NEW radius, NEW after \in Copies(D, before, radius)
  PROVE  DOMAIN FormatUnifiedDiff(before, after) \subseteq radius
<1> DEFINE diff == FormatUnifiedDiff(before, after)
           changed == {p \in D : after[p] # before[p]}
<1>1. after \in [D -> Texts] /\ changed \subseteq radius
  BY DEF Copies
<1>2. DOMAIN diff = changed
  <2>1. Describes(diff, D, before, after)
    BY <1>1, ChangedIsDescribed
  <2> QED
    BY <2>1 DEF Describes
<1> QED
  BY <1>1, <1>2

LEMMA GenerationDescribed ==
  ASSUME NEW at, NEW g, Generation(at, g)
  PROVE  DOMAIN g.diff \subseteq g.radius
<1> DEFINE D == DOMAIN g.before
           before == g.before
           after == g.after
           radius == g.radius
<1>1. /\ before \in [D -> Texts] /\ after \in Copies(D, before, radius)
      /\ g.diff = FormatUnifiedDiff(before, after)
  BY DEF Generation
<1> HIDE DEF D, before, after, radius
<1>2. DOMAIN FormatUnifiedDiff(before, after) \subseteq radius
  BY <1>1, DescribedWithin
<1> QED
  BY <1>1, <1>2 DEF radius

LEMMA AgentIInvTyped ==
  ASSUME AgentIInv
  PROVE  AgentTypeOK
<1>1. CASE \E kind \in {"none", "failed", "no edits"} : generation = Ended(kind)
  BY <1>1 DEF AgentIInv, AgentTypeOK
<1>2. CASE Generation(tree, generation)
  <2> DEFINE g == generation
             D == DOMAIN g.before
             before == g.before
             after == g.after
  <2>1. /\ g.kind = "generated" /\ D \subseteq DOMAIN tree \cap SafePaths /\ g.radius \subseteq D \ NeverIncluded
        /\ before \in [D -> Texts] /\ after \in [D -> Texts]
        /\ \A p \in D \ g.radius : after[p] = before[p]
    BY <1>2 DEF Generation, Copies
  <2>2. g.diff = FormatUnifiedDiff(before, after)
    BY <1>2 DEF Generation
  <2>3. g.verdict \in {"allow", "escalate", "reject"}
    BY <1>2, VerdictTyped DEF Generation
  <2>5. DOMAIN g.diff \subseteq g.radius
    BY <1>2, GenerationDescribed
  <2> QED
    BY <2>1, <2>3, <2>5 DEF AgentTypeOK, AgentIInv, Texts
<1> QED
  BY <1>1, <1>2 DEF AgentIInv

LEMMA AgentIInvInspected ==
  ASSUME AgentIInv
  PROVE  AllowedWasInspected
<1> SUFFICES ASSUME generation.verdict = "allow" PROVE AllowedWasInspected
  BY DEF AllowedWasInspected
<1> DEFINE g == generation
           D == DOMAIN g.before
           before == g.before
           after == g.after
           radius == g.radius
           diff == g.diff
<1>1. Generation(tree, generation)
  <2>1. \A kind : Ended(kind).verdict = "none"
    BY DEF Ended
  <2>2. ~\E kind \in {"none", "failed", "no edits"} : generation = Ended(kind)
    BY <2>1
  <2> QED
    BY <2>2 DEF AgentIInv
<1>2. /\ before \in [D -> Texts] /\ after \in [D -> Texts]
      /\ diff = FormatUnifiedDiff(before, after) /\ Verdict(ParseUnifiedDiff(diff), radius) = "allow"
  BY <1>1 DEF Generation, Copies
<1>3. DOMAIN after = D
  BY <1>2
<1> HIDE DEF D, before, after, radius, diff
<1>4. LET changed == {p \in D : after[p] # before[p]}
          parsed == ParseUnifiedDiff(FormatUnifiedDiff(before, after))
      IN  /\ DOMAIN parsed = changed /\ changed \subseteq radius \ CiPaths
          /\ \A p \in changed :
               LET old == ToLines(before[p]).lines
                   new == ToLines(after[p]).lines
               IN  /\ Inspected(old, new, parsed[p])
                   /\ (\A k \in DOMAIN new : ~StartsWith(new[k], Plusses)) => Placed(new, parsed[p])
                   /\ \A k \in DOMAIN new : Has(new[k], Refused) /\ ~StartsWith(new[k], Plusses)
                        => Count(new[k], new) <= Count(new[k], old)
  BY <1>2, AllowedIsInspected
<1>5. LET changed == {p \in DOMAIN after : after[p] # before[p]}
          parsed == ParseUnifiedDiff(diff)
      IN  /\ DOMAIN parsed = changed /\ changed \subseteq radius \ CiPaths
          /\ \A p \in changed :
               LET old == ToLines(before[p]).lines
                   new == ToLines(after[p]).lines
               IN  /\ Inspected(old, new, parsed[p])
                   /\ (\A k \in DOMAIN new : ~StartsWith(new[k], Plusses)) => Placed(new, parsed[p])
                   /\ \A k \in DOMAIN new : Has(new[k], Refused) /\ ~StartsWith(new[k], Plusses)
                        => Count(new[k], new) <= Count(new[k], old)
  BY <1>2, <1>3, <1>4, Zenon
<1> QED
  BY <1>5, Zenon DEF AllowedWasInspected, before, after, radius, diff

LEMMA AgentIInvInit == AgentInit => AgentIInv
BY DEF AgentInit, AgentIInv

LEMMA AgentIInvStep == AgentIInv /\ [AgentNext]_agentVars => AgentIInv'
<1> SUFFICES ASSUME AgentIInv, [AgentNext]_agentVars PROVE AgentIInv'
  OBVIOUS
<1>1. ASSUME NEW proposal \in Proposals, Generate(proposal) PROVE AgentIInv'
  <2>1. tree \in Trees /\ tree' = tree /\ generation' = Outcome(tree, proposal)
    BY <1>1 DEF AgentIInv, Generate
  <2>2. \/ Outcome(tree, proposal) \in {Ended("failed"), Ended("no edits")}
        \/ Generation(tree, Outcome(tree, proposal))
    BY <2>1, OutcomeIs
  <2> QED
    BY <2>1, <2>2 DEF AgentIInv
<1>2. CASE UNCHANGED agentVars
  BY <1>2 DEF AgentIInv, agentVars
<1> QED
  BY <1>1, <1>2 DEF AgentNext

\* A generation that ended without a migration has made nothing, and a migration
\* rewrites only files that were read, may be shown and may be touched: loadSources
\* and generate write no other, whatever is proposed.
THEOREM AgentTypeCorrect == AgentSpec => []AgentTypeOK
<1>1. AgentInit => AgentIInv
  BY AgentIInvInit
<1>2. AgentIInv /\ [AgentNext]_agentVars => AgentIInv'
  BY AgentIInvStep
<1>3. AgentIInv => AgentTypeOK
  BY AgentIInvTyped
<1> QED
  BY <1>1, <1>2, <1>3, PTL DEF AgentSpec

\* Of a migration that evaluateDiff allows, the policy has inspected every file
\* and every line it changes, whatever the texts: formatUnifiedDiff leaves out no
\* change and parseUnifiedDiff reads back all but the lines that look like headers.
THEOREM AllowedInspected == AgentSpec => []AllowedWasInspected
<1>1. AgentInit => AgentIInv
  BY AgentIInvInit
<1>2. AgentIInv /\ [AgentNext]_agentVars => AgentIInv'
  BY AgentIInvStep
<1>3. AgentIInv => AllowedWasInspected
  BY AgentIInvInspected
<1> QED
  BY <1>1, <1>2, <1>3, PTL DEF AgentSpec

-----------------------------------------------------------------------------
(* The components side by side *)

LEMMA BillingStepKeeps ==
  ASSUME BillingIInv, [BillingNext]_billingVars
  PROVE  BillingIInv'
<1>1. CASE BillingNext
  BY <1>1, BillingPreserved
<1>2. CASE UNCHANGED billingVars
  <2>1. UNCHANGED <<stripe, unanswered, claims, handling, provisioned, forsaken, provider, subscription, mishaps>>
    BY <1>2 DEF billingVars
  <2>2. EventsOK' /\ HandlingsOK'
    BY <2>1, BillingInParts DEF EventsOK, HandlingsOK, OneHandler
  <2> QED
    BY <2>1, <2>2, WebhookKeeps
<1> QED
  BY <1>1, <1>2

\* Provisioning, the tenant pool and the agent keep to their types side by side,
\* whichever of them moves: no invariant of one needs another's.
THEOREM OperationsTypeCorrect == MCSpec => []OperationsTypeOK
<1> DEFINE All == BillingIInv /\ IInv /\ AgentIInv
<1>1. MCInit => All
  BY BillingInitially, InitIInv, AgentIInvInit DEF MCInit
<1>2. All /\ [MCNext]_<<billingVars, poolVars, queueVars, agentVars, focus>> => All'
  <2> SUFFICES ASSUME All, [MCNext]_<<billingVars, poolVars, queueVars, agentVars, focus>> PROVE All'
    OBVIOUS
  <2>1. [BillingNext]_billingVars /\ [Next]_vars /\ [AgentNext]_agentVars
    BY DEF MCNext, poolVars
  <2> QED
    BY <2>1, BillingStepKeeps, NextIInv, AgentIInvStep
<1>3. All => OperationsTypeOK
  BY AgentIInvTyped DEF OperationsTypeOK, BillingIInv, IInv
<1> QED
  BY <1>1, <1>2, <1>3, PTL DEF MCSpec
=============================================================================
