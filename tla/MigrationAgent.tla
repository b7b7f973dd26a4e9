---------------------------- MODULE MigrationAgent ----------------------------
(***************************************************************************)
(* One generation, from the tree at the base commit to the verdict on its  *)
(* diff: loadSources of src/main/wiring.ts over src/forge/                 *)
(* github-contents.ts, ClaudeMigrationAgent.generate with                  *)
(* src/agent/edit-plan.ts and src/policy/blast-radius.ts, and              *)
(* src/policy/diff-policy.ts on what UnifiedDiff makes of it.  Everything  *)
(* is a function of the tree and of what the model proposes, which is      *)
(* arbitrary.  MigrationPipeline has the steps around it.                  *)
(*                                                                         *)
(* The prompt's wording and the verifier, which reports not-run, are left  *)
(* out.                                                                    *)
(***************************************************************************)
EXTENDS UnifiedDiff

CONSTANTS
  Selected,       \* the paths selectSourcePaths keeps, in its order
  ByName,         \* the same paths in the order of their names
  SafePaths,      \* paths that may appear in a prompt
  NeverIncluded,  \* paths no migration may touch, as blast-radius.ts has them
  CiPaths,        \* ... and as diff-policy.ts has them
  Watched,        \* Watched[p]: tokens that make a line of p need a reviewer
  Impacted,       \* tokens that name an impacted symbol
  Refused,        \* tokens no added line may have: hosts, credentials
  Undecodable,    \* a byte that is not UTF-8
  Replacement,    \* what decoding makes of it
  Binary,         \* a NUL
  MaxTotalBytes, MaxPromptBytes, MaxFiles, MaxEdits,
  MaxChangedFiles, MaxAddedLines,
  Trees,          \* the trees there may be at the base commit
  Proposals       \* what the model may answer

ASSUME AgentAssumption ==
  /\ \A t \in Trees : \A p \in DOMAIN t : t[p] \in Seq(Tokens)
  /\ \A proposal \in Proposals : \A k \in DOMAIN proposal : {proposal[k].find, proposal[k].replace} \subseteq Seq(Tokens)
  /\ \A proposal \in Proposals : Len(proposal) \in Nat /\ DOMAIN proposal = 1..Len(proposal)
  /\ Replacement \in Tokens
  /\ Len(Selected) \in Nat /\ MaxFiles \in Nat

VARIABLES
  tree,           \* tree[p]: what is committed
  generation      \* how the generation ended

agentVars == <<tree, generation>>

Has(text, tokens) == \E k \in DOMAIN text : text[k] \in tokens
Ended(kind) == [kind |-> kind, radius |-> {}, before |-> <<>>, after |-> <<>>, diff |-> <<>>, verdict |-> "none"]

\* Of the paths, those among some that are taken while their listed size fits
\* beside what was read before; what does not fit is passed over.
Include(taken, p, size, read, maxBytes, maxFiles) ==
  IF taken.used + size[p] > maxBytes \/ Cardinality(taken.paths) >= maxFiles THEN taken
  ELSE [paths |-> taken.paths \cup {p}, used |-> taken.used + read[p]]

Fitting(paths, among, size, read, maxBytes, maxFiles) ==
  LET taken[n \in 0..Len(paths)] ==
        IF n = 0 THEN [paths |-> {}, used |-> 0]
        ELSE IF paths[n] \notin among THEN taken[n - 1]
        ELSE Include(taken[n - 1], paths[n], size, read, maxBytes, maxFiles)
  IN  taken[Len(paths)].paths

-----------------------------------------------------------------------------
(* loadSources *)

\* readBlob: as UTF-8, whatever it was.
Decoded(text) == [k \in DOMAIN text |-> IF text[k] = Undecodable THEN Replacement ELSE text[k]]

\* U+FFFD takes three bytes, for the one it stands for.
Bytes(text) == Len(text) + 2 * Cardinality({k \in DOMAIN text : text[k] = Replacement})

\* readFiles: a file is admitted by the size the tree lists, and counted as read.
Sources(at) ==
  Fitting(Selected, {p \in DOMAIN at : ~Has(at[p], {Binary})},
          [p \in DOMAIN at |-> Len(at[p])], [p \in DOMAIN at |-> Bytes(Decoded(at[p]))],
          MaxTotalBytes, Len(Selected))

-----------------------------------------------------------------------------
(* The write set and the prompt *)

\* deriveBlastRadius: the first MaxFiles by name that mention a symbol.
BlastRadius(paths, text) ==
  LET mentions == {k \in DOMAIN ByName : /\ ByName[k] \in paths \ NeverIncluded
                                          /\ Has(text[ByName[k]], Impacted)}
  IN  {ByName[k] : k \in {k \in mentions : Cardinality({l \in mentions : l <= k}) <= MaxFiles}}

-----------------------------------------------------------------------------
(* Edit plans *)

\* parseEditPlan; an answer of another shape is a plan whose anchor is empty.
WellFormed(plan) ==
  /\ Len(plan) <= MaxEdits
  /\ \A k \in DOMAIN plan : plan[k].find # <<>> /\ plan[k].find # plan[k].replace

Occurrences(find, text) ==
  {at \in 1..Len(text) - Len(find) + 1 : SubSeq(text, at, at + Len(find) - 1) = find}

\* Mutant of Applicable: any file that was read may be edited.
Applicable_AnySource(edit, working, shown, radius) ==
  edit.path \in DOMAIN working /\ Cardinality(Occurrences(edit.find, working[edit.path])) = 1

\* A file that was shown and is in the radius, where the anchor occurs once.
Applicable(edit, working, shown, radius) ==
  edit.path \in shown \cap radius /\ Cardinality(Occurrences(edit.find, working[edit.path])) = 1

Replaced(edit, text) ==
  LET at == CHOOSE at \in Occurrences(edit.find, text) : TRUE
  IN  SubSeq(text, 1, at - 1) \o edit.replace \o SubSeq(text, at + Len(edit.find), Len(text))

\* applyEditPlan, in order, on a copy: the copy, or nothing.
Edited(copies, edit, shown, radius) ==
  {[working EXCEPT ![edit.path] = Replaced(edit, @)] :
     working \in {w \in copies : Applicable(edit, w, shown, radius)}}

Applied(plan, text, shown, radius) ==
  LET copies[n \in 0..Len(plan)] ==
        IF n = 0 THEN {text} ELSE Edited(copies[n - 1], plan[n], shown, radius)
  IN  copies[Len(plan)]

-----------------------------------------------------------------------------
(* evaluateDiff *)

Additions(lines) == {k \in DOMAIN lines : lines[k].kind = "added"}
Adds(lines, tokens) == \E k \in Additions(lines) : Has(lines[k].text, tokens)

Rejects(parsed, radius) ==
  \E p \in DOMAIN parsed : p \notin radius \/ p \in CiPaths \/ Adds(parsed[p], Refused)

Escalates(parsed) ==
  \/ \E p \in DOMAIN parsed : Adds(parsed[p], Watched[p])
  \/ Cardinality(DOMAIN parsed) > MaxChangedFiles
  \/ Cardinality(UNION {{p} \X Additions(parsed[p]) : p \in DOMAIN parsed}) > MaxAddedLines

Verdict(parsed, radius) ==
  IF Rejects(parsed, radius) THEN "reject" ELSE IF Escalates(parsed) THEN "escalate" ELSE "allow"

-----------------------------------------------------------------------------
(* generate, then evaluate-policy *)

Outcome(at, proposal) ==
  LET sources == Sources(at) \cap SafePaths
      text == [p \in sources |-> Decoded(at[p])]
      radius == BlastRadius(sources, text)
      size == [p \in sources |-> Bytes(text[p])]
      shown == Fitting(Selected, radius, size, size, MaxPromptBytes, MaxFiles)
      copies == Applied(proposal, text, shown, radius)
      after == CHOOSE w \in copies : TRUE
      diff == FormatUnifiedDiff(text, after)
  IN  IF sources = {} \/ radius = {} THEN Ended("failed")
      ELSE IF proposal = <<>> THEN Ended("no edits")
      ELSE IF ~WellFormed(proposal) \/ copies = {} \/ after = text THEN Ended("failed")
      ELSE [kind |-> "generated", radius |-> radius, before |-> text, after |-> after, diff |-> diff,
            verdict |-> Verdict(ParseUnifiedDiff(diff), radius)]

Generate(proposal) ==
  /\ generation.kind = "none"
  /\ generation' = Outcome(tree, proposal)
  /\ UNCHANGED tree

AgentInit == tree \in Trees /\ generation = Ended("none")
AgentNext == \E proposal \in Proposals : Generate(proposal)

-----------------------------------------------------------------------------
(* Properties *)

\* A generation that ended without a migration has made nothing; a migration
\* rewrites files that were read, safe to show and may be touched.
AgentTypeOK ==
  /\ tree \in Trees
  /\ \/ \E kind \in {"none", "failed", "no edits"} : generation = Ended(kind)
     \/ LET read == DOMAIN generation.before
        IN  /\ generation.kind = "generated"
            /\ read \subseteq DOMAIN tree \cap SafePaths
            /\ generation.radius \subseteq read \ NeverIncluded
            /\ generation.before \in [read -> Seq(Tokens)] /\ generation.after \in [read -> Seq(Tokens)]
            /\ \A p \in read \ generation.radius : generation.after[p] = generation.before[p]
            /\ DOMAIN generation.diff \subseteq generation.radius
            /\ generation.verdict \in {"allow", "escalate", "reject"}

Positions(line, lines) == {k \in DOMAIN lines : lines[k] = line}
Count(line, lines) == Cardinality(Positions(line, lines))
CountKind(kind, line, parsed) ==
  Cardinality({k \in DOMAIN parsed : parsed[k].kind = kind /\ parsed[k].text = line})
Headerlike(line) == StartsWith(line, Plusses) \/ StartsWith(line, Dashes)

\* Lines a migration has more of than the text it was made from: the policy saw
\* each of them as added.
Inspected(old, new, parsed) ==
  \A line \in {old[k] : k \in DOMAIN old} \cup {new[k] : k \in DOMAIN new} : ~Headerlike(line) =>
    Count(line, new) - Count(line, old) = CountKind("added", line, parsed) - CountKind("removed", line, parsed)

\* The numbers of the lines the policy saw are their places.
Placed(new, parsed) ==
  \A k \in DOMAIN parsed : parsed[k].kind # "removed" =>
    parsed[k].number \in DOMAIN new /\ new[parsed[k].number] = parsed[k].text

\* Of a migration that is allowed, the policy has inspected all it changes but
\* for the lines of a file that begin with ++ or --, which it takes for headers:
\* files, lines and, where no new line is taken so, their places.  Nothing
\* outside the radius is written, and of the other lines none that is refused is
\* new (src/agent/edit-plan.ts:195, src/policy/diff.ts:43).
AllowedWasInspected ==
  LET g == generation
      changed == {p \in DOMAIN g.after : g.after[p] # g.before[p]}
      parsed == ParseUnifiedDiff(g.diff)
  IN  g.verdict = "allow" =>
        /\ DOMAIN parsed = changed /\ changed \subseteq g.radius \ CiPaths
        /\ \A p \in changed :
             LET old == ToLines(g.before[p]).lines
                 new == ToLines(g.after[p]).lines
             IN  /\ Inspected(old, new, parsed[p])
                 /\ (\A k \in DOMAIN new : ~StartsWith(new[k], Plusses)) => Placed(new, parsed[p])
                 /\ \A k \in DOMAIN new : Has(new[k], Refused) /\ ~StartsWith(new[k], Plusses)
                      => Count(new[k], new) <= Count(new[k], old)

\* diff.ts: "Anything it cannot parse is surfaced as an error rather than
\* skipped": of a migration that is allowed, whatever its lines begin with, the
\* policy has read as added or removed every line it has more or fewer of.
NothingIsSkipped ==
  LET parsed == ParseUnifiedDiff(generation.diff)
  IN  generation.verdict = "allow" =>
        \A p \in DOMAIN parsed :
          LET old == ToLines(generation.before[p]).lines
              new == ToLines(generation.after[p]).lines
          IN  \A line \in {old[k] : k \in DOMAIN old} \cup {new[k] : k \in DOMAIN new} :
                Count(line, new) - Count(line, old)
                  = CountKind("added", line, parsed[p]) - CountKind("removed", line, parsed[p])
=============================================================================
