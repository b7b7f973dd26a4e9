----------------------------- MODULE UnifiedDiff -----------------------------
(***************************************************************************)
(* src/agent/unified-diff.ts, which describes a change as a diff, and      *)
(* src/policy/diff.ts, which reads the description back for the policy.    *)
(*                                                                         *)
(* A text is a sequence of tokens, Newline one of them; the diff of a file *)
(* is a sequence of its lines after the file header, each a record.        *)
(***************************************************************************)
EXTENDS Integers, Sequences, FiniteSets

CONSTANTS
  Tokens,     \* what texts are made of
  Newline,
  Plusses,    \* the token "++ ": an added line that starts with it looks like a header
  Dashes,     \* the token "-- ": so does a removed line that starts with this
  Context,    \* lines of context; 3 in the code
  MaxCells    \* MAX_MATRIX_CELLS

ASSUME DiffAssumption == Context \in Nat /\ {Newline, Plusses, Dashes} \subseteq Tokens

StartsWith(line, token) == line # <<>> /\ Head(line) = token

-----------------------------------------------------------------------------
(* formatUnifiedDiff *)

\* The lines that have ended, and the tokens after them.
Split(state, token) ==
  IF token = Newline
  THEN [ended |-> Append(state.ended, state.rest), rest |-> <<>>]
  ELSE [ended |-> state.ended, rest |-> Append(state.rest, token)]

Splitting(text) ==
  LET split[n \in 0..Len(text)] ==
        IF n = 0 THEN [ended |-> <<>>, rest |-> <<>>] ELSE Split(split[n - 1], text[n])
  IN  split[Len(text)]

\* toLines: the lines, and whether the last one lacks its newline.
ToLines(text) ==
  LET split == Splitting(text)
  IN  IF split.rest = <<>> THEN [lines |-> split.ended, open |-> FALSE]
      ELSE [lines |-> Append(split.ended, split.rest), open |-> TRUE]

Equal(text, i, j) == [kind |-> "equal", text |-> text, old |-> i, new |-> j]
Delete(text, i)   == [kind |-> "delete", text |-> text, old |-> i, new |-> 0]
Insert(text, j)   == [kind |-> "insert", text |-> text, old |-> 0, new |-> j]

Deletions(before, from, to) == [k \in 1..to - from + 1 |-> Delete(before[from + k - 1], from + k - 1)]
Insertions(after, from, to) == [k \in 1..to - from + 1 |-> Insert(after[from + k - 1], from + k - 1)]

\* How many lines both begin with, and how many both end with of what is left.
Shorter(m, n) == IF m < n THEN m ELSE n
HeadOf(before, after) ==
  CHOOSE h \in 0..Shorter(Len(before), Len(after)) :
    /\ \A k \in 1..h : before[k] = after[k]
    /\ h < Shorter(Len(before), Len(after)) => before[h + 1] # after[h + 1]
TailOf(before, after) ==
  LET room == Shorter(Len(before), Len(after)) - HeadOf(before, after)
  IN  CHOOSE t \in 0..room :
        /\ \A k \in 0..t - 1 : before[Len(before) - k] = after[Len(after) - k]
        /\ t < room => before[Len(before) - t] # after[Len(after) - t]

\* The length of a longest common subsequence of before[i..i2] and after[j..j2].
Common(before, after, i1, i2, j1, j2) ==
  LET common[i \in i1..i2 + 1, j \in j1..j2 + 1] ==
        IF i > i2 \/ j > j2 THEN 0
        ELSE IF before[i] = after[j] THEN common[i + 1, j + 1] + 1
        ELSE IF common[i + 1, j] >= common[i, j + 1] THEN common[i + 1, j] ELSE common[i, j + 1]
  IN  common

\* One turn of diffMiddle's loops: i and j are the next lines of each.
Advance(at, before, after, i2, j2, common) ==
  CASE at.i <= i2 /\ at.j <= j2 /\ before[at.i] = after[at.j] ->
         [i |-> at.i + 1, j |-> at.j + 1, ops |-> Append(at.ops, Equal(before[at.i], at.i, at.j))]
    [] at.i <= i2 /\ (at.j <= j2 => /\ before[at.i] # after[at.j]
                                    /\ common[at.i + 1, at.j] >= common[at.i, at.j + 1]) ->
         [i |-> at.i + 1, j |-> at.j, ops |-> Append(at.ops, Delete(before[at.i], at.i))]
    [] at.j <= j2 /\ (at.i <= i2 => /\ before[at.i] # after[at.j]
                                    /\ ~(common[at.i + 1, at.j] >= common[at.i, at.j + 1])) ->
         [i |-> at.i, j |-> at.j + 1, ops |-> Append(at.ops, Insert(after[at.j], at.j))]
    [] OTHER -> at

Walk(before, after, i1, i2, j1, j2) ==
  LET common == Common(before, after, i1, i2, j1, j2)
      turns  == (i2 - i1 + 1) + (j2 - j1 + 1)
      walk[n \in 0..turns] ==
        IF n = 0 THEN [i |-> i1, j |-> j1, ops |-> <<>>]
        ELSE Advance(walk[n - 1], before, after, i2, j2, common)
  IN  walk[turns].ops

\* diffMiddle, of the lines i1..i2 of one and j1..j2 of the other: along a
\* longest common subsequence, or all of one after all of the other.
DiffMiddle(before, after, i1, i2, j1, j2) ==
  IF (i2 - i1 + 2) * (j2 - j1 + 2) > MaxCells
  THEN Deletions(before, i1, i2) \o Insertions(after, j1, j2)
  ELSE Walk(before, after, i1, i2, j1, j2)

Equals(before, i, j, n) == [k \in 1..n |-> Equal(before[i + k], i + k, j + k)]

DiffLines(before, after) ==
  LET head == HeadOf(before, after)
      tail == TailOf(before, after)
      i2   == Len(before) - tail
      j2   == Len(after) - tail
  IN  Equals(before, 0, 0, head)
      \o DiffMiddle(before, after, head + 1, i2, head + 1, j2)
      \o Equals(before, i2, j2, tail)

\* Mutant of Reopened: only lines are compared.
Reopened_Never(ops, before, after) == ops

\* A last line that only gained or lost its newline is rewritten.
Reopened(ops, before, after) ==
  LET last == ops[Len(ops)]
  IN  IF before.open # after.open /\ ops # <<>> /\ last.kind = "equal"
      THEN SubSeq(ops, 1, Len(ops) - 1) \o <<Delete(last.text, last.old), Insert(last.text, last.new)>>
      ELSE ops

\* groupIntoHunks: what is within Context of a change, in stretches.
Shown(ops) ==
  {k \in DOMAIN ops : \E c \in DOMAIN ops : ops[c].kind # "equal" /\ c - k \in -Context..Context}

\* Where a hunk starts in the new file: at its first new line; without one,
\* where its first old line was.
NewStart(ops, k) ==
  LET first == {l \in k..Len(ops) : /\ k..l \subseteq Shown(ops) /\ ops[l].kind # "delete"
                                    /\ \A m \in k..l - 1 : ops[m].kind = "delete"}
  IN  IF first # {} THEN ops[CHOOSE l \in first : TRUE].new ELSE ops[k].old - 1

BodyLine(op, before, after) ==
  LET open == \/ op.kind # "insert" /\ before.open /\ op.old = Len(before.lines)
              \/ op.kind = "insert" /\ after.open /\ op.new = Len(after.lines)
  IN  <<[is |-> op.kind, text |-> op.text]>> \o IF open THEN <<[is |-> "no newline"]>> ELSE <<>>

Printed(ops, k, before, after) ==
  IF k \notin Shown(ops) THEN <<>>
  ELSE (IF k - 1 \in Shown(ops) THEN <<>> ELSE <<[is |-> "hunk", start |-> NewStart(ops, k)]>>)
       \o BodyLine(ops[k], before, after)

PrintedAll(ops, before, after) ==
  LET body[k \in 0..Len(ops)] ==
        IF k = 0 THEN <<>> ELSE body[k - 1] \o Printed(ops, k, before, after)
  IN  body[Len(ops)]

\* formatFile.
FormatFile(old, new) ==
  LET before == ToLines(old)
      after == ToLines(new)
  IN  PrintedAll(Reopened(DiffLines(before.lines, after.lines), before, after), before, after)

\* Files that changed and whose change shows, by path; the order is the paths'.
FormatUnifiedDiff(old, new) ==
  LET bodies == [p \in {p \in DOMAIN new : old[p] # new[p]} |-> FormatFile(old[p], new[p])]
  IN  [p \in {p \in DOMAIN bodies : bodies[p] # <<>>} |-> bodies[p]]

-----------------------------------------------------------------------------
(* parseUnifiedDiff *)

\* A line that begins with "+++ " or "--- " in the diff is passed over, in a
\* hunk too.
LooksLikeHeader(line) ==
  \/ line.is = "insert" /\ StartsWith(line.text, Plusses)
  \/ line.is = "delete" /\ StartsWith(line.text, Dashes)

DiffLine(kind, text, number) == [kind |-> kind, text |-> text, number |-> number]

ReadLine(state, line) ==
  CASE line.is = "hunk" -> [cursor |-> line.start, lines |-> state.lines]
    [] line.is = "insert" /\ ~LooksLikeHeader(line) ->
         [cursor |-> state.cursor + 1, lines |-> Append(state.lines, DiffLine("added", line.text, state.cursor))]
    [] line.is = "equal" ->
         [cursor |-> state.cursor + 1, lines |-> Append(state.lines, DiffLine("context", line.text, state.cursor))]
    [] line.is = "delete" /\ ~LooksLikeHeader(line) ->
         [cursor |-> state.cursor, lines |-> Append(state.lines, DiffLine("removed", line.text, 0))]
    [] OTHER -> state

Reading(body) ==
  LET read[n \in 0..Len(body)] ==
        IF n = 0 THEN [cursor |-> 0, lines |-> <<>>] ELSE ReadLine(read[n - 1], body[n])
  IN  read[Len(body)]

ParseFile(body) == Reading(body).lines
ParseUnifiedDiff(diff) == [p \in DOMAIN diff |-> ParseFile(diff[p])]
=============================================================================
