----------------------- MODULE MigrationPipelineProofs -----------------------
(***************************************************************************)
(* Proofs about MigrationPipeline, for any jobs, base commits, diffs and   *)
(* verdicts, any attempts and any faults.                                  *)
(*                                                                         *)
(* The inductive invariant says what one attempt may know.  Whatever it    *)
(* was given for a step is true of the world (Honest): a token was stored, *)
(* a pull request was opened, a verdict is about the diff it was given.    *)
(* While its transaction lives, what it was given is either committed or   *)
(* its own, and then nobody else's (Agrees, Sole).  Truth only grows, so   *)
(* a step need only be looked at where it happens.  Three sets are         *)
(* counted: the attempts about to open a pull request, those that may      *)
(* still create the branch, and those that were granted a claim.           *)
(***************************************************************************)
EXTENDS MigrationPipeline, FiniteSetTheorems, SequenceTheorems, TLAPS

-----------------------------------------------------------------------------
(* The inductive invariant *)

\* v is a true result of step k for job j, given the results f.
TrueOf(j, f, k, v) ==
  /\ k = "evaluate-policy" => /\ f["generate-migration"] # None
                              /\ v = Verdict[f["generate-migration"]]
  /\ k = "mint-opt-out-token" => v \in tokens
  /\ k = "open-pr" => v \in 1 .. Len(prs)
  /\ k = "record-result" => write[key[j]].status = "succeeded"

Honest(j, f) ==
  \A k \in Steps : f[k] # None => TrueOf(j, f, k, f[k])

\* Where an attempt stands, by its phase.
Placed(r) ==
  /\ r.phase \in {"lookup", "function", "claim", "ref", "pull", "result"} =>
       r.at \in Steps
  /\ r.phase \in {"returned", "committed"} => r.at \in Ends
  /\ r.phase = "none" => r = NoAttempt
  /\ r.phase = "result" <=> r.out # None

\* What an attempt at a step has been given on the way there.
Came(r) ==
  /\ r.at \in {"load-context", "authorise-write", "generate-migration",
               "evaluate-policy"} => r.seen["evaluate-policy"] = None
  /\ r.at = "evaluate-policy" => r.seen["generate-migration"] # None
  /\ r.at \in {"mint-opt-out-token", "open-pr"} =>
       r.seen["evaluate-policy"] = "allow"
  /\ r.at = "open-pr" => r.seen["mint-opt-out-token"] # None
  /\ r.at = "record-result" => r.seen["open-pr"] # None

\* A live transaction's results are the committed ones or its own.
Agrees(j, r) ==
  r.tx = "open" =>
    IF state[j] = "deleted" THEN r.own = {}
    ELSE /\ \A k \in Steps : r.seen[k] # None =>
              k \in r.own \/ r.seen[k] = log[j][k]
         /\ \A k \in r.own : log[j][k] = None /\ r.seen[k] # None

\* Everything of an attempt but the result it holds.
Settled(j, r) ==
  /\ AttemptOK(r) /\ Placed(r) /\ Came(r)
  /\ Honest(j, r.seen) /\ Agrees(j, r)
  /\ r.at = "opened" => write[key[j]].status = "succeeded"

Holds(j, r) == r.out # None => TrueOf(j, r.seen, r.at, r.out)

AttemptsSound ==
  \A j \in Jobs, n \in AttemptNos :
    Settled(j, run[j][n]) /\ Holds(j, run[j][n])

\* At most one live transaction has a step of its own.
Sole ==
  \A j \in Jobs : \A m, n \in AttemptNos : \A k \in Steps :
    /\ run[j][m].tx = "open" /\ k \in run[j][m].own
    /\ run[j][n].tx = "open" /\ k \in run[j][n].own
    => m = n

RowsSound ==
  \A j \in Jobs :
    /\ Honest(j, log[j])
    /\ state[j] = "none" => /\ result[j] = None
                            /\ \A n \in AttemptNos : run[j][n] = NoAttempt
    /\ state[j] # "none" => key[j] \in Claims
    /\ state[j] \in {"none", "deleted"} => \A k \in Steps : log[j][k] = None

ForgeSound ==
  /\ branch # None => Verdict[branch] = "allow"
  /\ PublishedLinksWork /\ PublishedDiffsWereVetted

\* The attempts about to open a pull request, those that have not passed the
\* creation of the branch, and those that were granted claim c.
Pulling == {p \in Jobs \X AttemptNos : run[p[1]][p[2]].phase = "pull"}

Passed(r) ==
  \/ r.phase \in {"none", "returned", "committed"}
  \/ r.at = "record-result"
  \/ r.at = "open-pr" /\ r.phase \in {"pull", "result"}

Approaching == {p \in Jobs \X AttemptNos : ~Passed(run[p[1]][p[2]])}

Granted(r) ==
  \/ "authorise-write" \in r.own /\ r.seen["authorise-write"] = "granted"
  \/ r.at = "authorise-write" /\ r.phase = "result" /\ r.out = "granted"

Holders(c) == {p \in Jobs \X AttemptNos :
                 key[p[1]] = c /\ Granted(run[p[1]][p[2]])}

StartsCounted ==
  /\ IsFiniteSet(Started) /\ Cardinality(Started) <= MaxStarts
  /\ \A j \in Jobs, n \in AttemptNos : Active(j, n) => n <= starts[j]

PullsCounted ==
  /\ Len(prs) + Cardinality(Pulling) <= refs
  /\ refs + Cardinality(Approaching) <= Cardinality(Started)

ClaimsCounted == \A c \in Claims : Cardinality(Holders(c)) <= write[c].attempts

PipelineIInv ==
  /\ TypeOK /\ AttemptsSound /\ Sole /\ RowsSound /\ ForgeSound
  /\ StartsCounted /\ PullsCounted /\ ClaimsCounted /\ RecordsAreTrue

-----------------------------------------------------------------------------
(* Truth only grows *)

\* No result is None.
LEMMA ResultsAreNotNone ==
  ASSUME NEW k \in Steps, NEW v \in Results(k)
  PROVE  v # None
BY NoneAssumption

\* What a step of the world never takes back.
Grows ==
  /\ tokens \subseteq tokens'
  /\ Len(prs) \in Nat /\ Len(prs') \in Nat /\ Len(prs) <= Len(prs')
  /\ \A c \in Claims : write[c].status = "succeeded" =>
                         write'[c].status = "succeeded"

\* A result that was true stays true.
LEMMA TruthStays ==
  ASSUME NEW j \in Jobs, NEW f, NEW k, NEW v, TrueOf(j, f, k, v), Grows,
         key'[j] = key[j], key[j] \in Claims
  PROVE  TrueOf(j, f, k, v)'
BY DEF TrueOf, Grows

\* So do the results an attempt or a log has.
LEMMA HonestyStays ==
  ASSUME NEW j \in Jobs, NEW f, Honest(j, f), Grows,
         key'[j] = key[j], key[j] \in Claims
  PROVE  Honest(j, f)'
<1> SUFFICES ASSUME NEW k \in Steps, f[k] # None
             PROVE  TrueOf(j, f, k, f[k])'
  BY DEF Honest
<1>1. TrueOf(j, f, k, f[k])
  BY DEF Honest
<1> QED
  BY <1>1, TruthStays

\* Another actor's step leaves an attempt as sound as it was.
LEMMA SettledStays ==
  ASSUME NEW j \in Jobs, NEW r, Settled(j, r), Grows,
         key'[j] = key[j], key[j] \in Claims,
         state'[j] = "deleted" <=> state[j] = "deleted", log'[j] = log[j]
  PROVE  Settled(j, r)'
<1>1. Honest(j, r.seen)'
  BY HonestyStays DEF Settled
<1>2. Agrees(j, r)'
  BY DEF Settled, Agrees
<1>3. AttemptOK(r)' /\ Placed(r)' /\ Came(r)'
  BY DEF Settled, AttemptOK, Placed, Came
<1>4. (r.at = "opened" => write[key[j]].status = "succeeded")'
  BY DEF Settled, Grows
<1> QED
  BY <1>1, <1>2, <1>3, <1>4 DEF Settled

LEMMA HoldsStays ==
  ASSUME NEW j \in Jobs, NEW r, Holds(j, r), Grows,
         key'[j] = key[j], key[j] \in Claims
  PROVE  Holds(j, r)'
BY TruthStays DEF Holds

\* An attempt that has gone, or never came, is sound whatever the state.
LEMMA BlankIsSound ==
  ASSUME NEW j \in Jobs
  PROVE  /\ Settled(j, NoAttempt) /\ Holds(j, NoAttempt)
         /\ Settled(j, NoAttempt)' /\ Holds(j, NoAttempt)'
<1>1. AttemptOK(NoAttempt)
  BY DEF AttemptOK, NoAttempt, StepLog, NoSteps, Phases, Steps
<1>2. Placed(NoAttempt) /\ Came(NoAttempt)
  BY DEF Placed, Came, NoAttempt, NoSteps, Steps
<1>3. Honest(j, NoAttempt.seen) /\ Honest(j, NoAttempt.seen)'
  BY DEF Honest, NoAttempt, NoSteps
<1>4. Agrees(j, NoAttempt) /\ Agrees(j, NoAttempt)'
  BY DEF Agrees, NoAttempt
<1>5. NoAttempt.at # "opened" /\ NoAttempt.out = None
  BY DEF NoAttempt
<1> QED
  BY <1>1, <1>2, <1>3, <1>4, <1>5 DEF Settled, Holds

\* The record an attempt has after a step, named.
LEMMA SoundAfter ==
  ASSUME NEW j \in Jobs, NEW n \in AttemptNos, NEW s, run'[j][n] = s,
         Settled(j, s)', Holds(j, s)'
  PROVE  Settled(j, run[j][n])' /\ Holds(j, run[j][n])'
BY DEF Settled, Holds, AttemptOK, Placed, Came, Honest, Agrees, TrueOf, StepLog

-----------------------------------------------------------------------------
(* One attempt moves *)

\* Nothing but the record of attempt n of job j changes among the attempts.
OnlyRun(j, n) ==
  /\ run' = [i \in Jobs |-> [m \in AttemptNos |-> run'[i][m]]]
  /\ \A i \in Jobs, m \in AttemptNos :
       i # j \/ m # n => run'[i][m] = run[i][m]

\* SetRun, pointwise.
LEMMA SetRunIs ==
  ASSUME TypeOK, NEW j \in Jobs, NEW n \in AttemptNos, NEW s, SetRun(j, n, s)
  PROVE  run'[j][n] = s /\ OnlyRun(j, n)
<1>1. run = [i \in Jobs |-> [m \in AttemptNos |-> run[i][m]]]
  BY DEF TypeOK
<1>2. run' = [run EXCEPT ![j][n] = s]
  BY DEF SetRun
<1> QED
  BY <1>1, <1>2 DEF OnlyRun

\* An active attempt is sound, and its job was planned.
LEMMA ActiveIsSound ==
  ASSUME PipelineIInv, NEW j \in Jobs, NEW n \in AttemptNos, Active(j, n)
  PROVE  /\ Settled(j, run[j][n]) /\ Holds(j, run[j][n])
         /\ state[j] # "none" /\ key[j] \in Claims
<1>1. run[j][n] # NoAttempt
  BY DEF Active, NoAttempt
<1> QED
  BY <1>1 DEF PipelineIInv, AttemptsSound, RowsSound

\* s may follow r, as far as what it knows and what it owns is concerned.
Follows(j, n, r, s) ==
  /\ r.phase # "none" /\ Settled(j, s)
  /\ s.tx = "open" =>
       /\ r.tx = "open"
       /\ \A k \in s.own : k \in r.own \/ \A m \in AttemptNos :
            ~ (run[j][m].tx = "open" /\ k \in run[j][m].own)

\* A step of an attempt to such a record, true of the new state.
LEMMA MovesAreSound ==
  ASSUME PipelineIInv, NEW j \in Jobs, NEW n \in AttemptNos, NEW s,
         run'[j][n] = s, OnlyRun(j, n), Follows(j, n, run[j][n], s), Grows,
         UNCHANGED rowVars, Holds(j, s)'
  PROVE  AttemptsSound' /\ Sole' /\ RowsSound'
<1>1. Active(j, n)
  BY DEF Follows, Active
<1>2. /\ UNCHANGED state /\ UNCHANGED key /\ UNCHANGED log
      /\ UNCHANGED result
  BY DEF rowVars
<1>3. AttemptsSound'
  <2> SUFFICES ASSUME NEW i \in Jobs, NEW m \in AttemptNos
               PROVE  Settled(i, run[i][m])' /\ Holds(i, run[i][m])'
    BY DEF AttemptsSound
  <2>1. CASE i = j /\ m = n
    <3>1. Settled(j, s)'
      BY <1>1, <1>2, ActiveIsSound, SettledStays DEF Follows
    <3> QED
      BY <2>1, <3>1, SoundAfter
  <2>2. CASE ~ (i = j /\ m = n)
    <3>1. PICK r : r = run[i][m]
      OBVIOUS
    <3>2. run'[i][m] = r
      BY <2>2, <3>1 DEF OnlyRun
    <3>3. Settled(i, r)' /\ Holds(i, r)'
      <4>1. CASE state[i] = "none"
        BY <3>1, <4>1, BlankIsSound DEF PipelineIInv, RowsSound
      <4>2. CASE state[i] # "none"
        <5>1. key[i] \in Claims
          BY <4>2 DEF PipelineIInv, RowsSound
        <5>2. Settled(i, r) /\ Holds(i, r)
          BY <3>1 DEF PipelineIInv, AttemptsSound
        <5> QED
          BY <1>2, <5>1, <5>2, SettledStays, HoldsStays
      <4> QED
        BY <4>1, <4>2
    <3> QED
      BY <3>2, <3>3, SoundAfter
  <2> QED
    BY <2>1, <2>2
<1>4. Sole'
  <2> SUFFICES ASSUME NEW i \in Jobs, NEW a \in AttemptNos, NEW b \in AttemptNos,
                      NEW k \in Steps,
                      run'[i][a].tx = "open", k \in run'[i][a].own,
                      run'[i][b].tx = "open", k \in run'[i][b].own
               PROVE  a = b
    BY DEF Sole
  <2>1. Sole
    BY DEF PipelineIInv
  <2>2. CASE i # j
    BY <2>1, <2>2 DEF Sole, OnlyRun
  <2>3. CASE i = j
    BY <2>1, <2>3 DEF Sole, OnlyRun, Follows
  <2> QED
    BY <2>2, <2>3
<1>5. RowsSound'
  <2> SUFFICES ASSUME NEW i \in Jobs
               PROVE  /\ Honest(i, log[i])'
                      /\ state[i] = "none" =>
                           \A m \in AttemptNos : run'[i][m] = NoAttempt
    BY <1>2 DEF RowsSound, PipelineIInv
  <2>1. CASE state[i] = "none"
    <3>1. i # j
      BY <1>1, <2>1, ActiveIsSound
    <3>2. \A m \in AttemptNos : run'[i][m] = NoAttempt
      BY <2>1, <3>1 DEF PipelineIInv, RowsSound, OnlyRun
    <3>3. \A k \in Steps : log'[i][k] = None
      BY <1>2, <2>1 DEF PipelineIInv, RowsSound
    <3> QED
      BY <3>2, <3>3 DEF Honest
  <2>2. CASE state[i] # "none"
    <3>1. PICK f : f = log[i]
      OBVIOUS
    <3>2. Honest(i, f)'
      BY <1>2, <2>2, <3>1, HonestyStays DEF PipelineIInv, RowsSound
    <3> QED
      BY <1>2, <2>2, <3>1, <3>2 DEF Honest, TrueOf
  <2> QED
    BY <2>1, <2>2
<1> QED
  BY <1>3, <1>4, <1>5

-----------------------------------------------------------------------------
(* Counting *)

\* A part of a finite set is no larger.
LEMMA PartIsNoLarger ==
  ASSUME NEW S, NEW T, IsFiniteSet(S), T \subseteq S
  PROVE  /\ IsFiniteSet(T) /\ Cardinality(S) \in Nat /\ Cardinality(T) \in Nat
         /\ Cardinality(T) <= Cardinality(S)
BY FS_Subset, FS_CardinalityType

\* One element more, or one less.
LEMMA OneMore ==
  ASSUME NEW S, NEW x, IsFiniteSet(S), x \notin S
  PROVE  /\ IsFiniteSet(S \cup {x}) /\ Cardinality(S) \in Nat
         /\ Cardinality(S \cup {x}) = Cardinality(S) + 1
BY FS_AddElement, FS_CardinalityType

LEMMA OneLess ==
  ASSUME NEW S, NEW x, IsFiniteSet(S), x \in S
  PROVE  /\ IsFiniteSet(S \ {x}) /\ Cardinality(S \ {x}) \in Nat
         /\ Cardinality(S \ {x}) = Cardinality(S) - 1
BY FS_RemoveElement, FS_CardinalityType

\* What is counted are attempts that were started, hence finitely many.
LEMMA CountedAreFinite ==
  ASSUME PipelineIInv
  PROVE  /\ IsFiniteSet(Pulling) /\ IsFiniteSet(Approaching)
         /\ \A c \in Claims : IsFiniteSet(Holders(c))
         /\ Cardinality(Started) \in Nat
<1>1. \A j \in Jobs, n \in AttemptNos : Active(j, n) => <<j, n>> \in Started
  BY DEF PipelineIInv, StartsCounted, Started
<1>2. IsFiniteSet(Started)
  BY DEF PipelineIInv, StartsCounted
<1>3. Pulling \subseteq Started
  BY <1>1 DEF Pulling, Active
<1>4. Approaching \subseteq Started
  BY <1>1 DEF Approaching, Active, Passed
<1>5. ASSUME NEW c \in Claims
      PROVE  Holders(c) \subseteq Started
  <2> SUFFICES ASSUME NEW j \in Jobs, NEW n \in AttemptNos, Granted(run[j][n])
               PROVE  Active(j, n)
    BY <1>1 DEF Holders
  <2>1. Placed(run[j][n])
    BY DEF PipelineIInv, AttemptsSound, Settled
  <2> QED
    BY <2>1 DEF Granted, Placed, NoAttempt, Active
<1> QED
  BY <1>2, <1>3, <1>4, <1>5, PartIsNoLarger

\* Every pull request had its own attempt, so its number is one of theirs.
LEMMA NumbersAreAttempts ==
  ASSUME PipelineIInv
  PROVE  /\ Len(prs) \in Nat /\ refs \in Nat /\ Len(prs) <= refs
         /\ \A i \in 1 .. Len(prs) : i \in AttemptNos
<1>1. Len(prs) \in Nat /\ refs \in Nat
  BY LenProperties DEF PipelineIInv, TypeOK
<1>2. /\ Cardinality(Pulling) \in Nat /\ Cardinality(Approaching) \in Nat
      /\ Cardinality(Started) \in Nat
  BY CountedAreFinite, FS_CardinalityType
<1>3. PullsCounted /\ Cardinality(Started) <= MaxStarts
  BY DEF PipelineIInv, StartsCounted
<1> QED
  BY <1>1, <1>2, <1>3, PipelineBounds DEF PullsCounted, AttemptNos

\* A step of an active attempt starts none.
LEMMA StartsStayCounted ==
  ASSUME PipelineIInv, NEW j \in Jobs, NEW n \in AttemptNos,
         Active(j, n), OnlyRun(j, n), UNCHANGED starts
  PROVE  StartsCounted' /\ Started' = Started
<1>1. Started' = Started
  BY DEF Started
<1>2. \A i \in Jobs, m \in AttemptNos : Active(i, m)' => Active(i, m)
  BY DEF OnlyRun, Active
<1> QED
  BY <1>1, <1>2 DEF PipelineIInv, StartsCounted

\* A step that neither creates the branch nor opens a pull request.
LEMMA PullsStayCounted ==
  ASSUME PipelineIInv, NEW j \in Jobs, NEW n \in AttemptNos,
         Active(j, n), OnlyRun(j, n), UNCHANGED <<starts, refs, prs>>,
         run'[j][n].phase = "pull" => run[j][n].phase = "pull",
         Passed(run[j][n]) => Passed(run'[j][n])
  PROVE  StartsCounted' /\ PullsCounted'
<1>1. StartsCounted' /\ Started' = Started
  BY StartsStayCounted
<1>2. Pulling' \subseteq Pulling
  BY DEF Pulling, OnlyRun
<1>3. Approaching' \subseteq Approaching
  BY DEF Approaching, OnlyRun, Passed
<1>4. /\ Cardinality(Pulling') <= Cardinality(Pulling)
      /\ Cardinality(Approaching') <= Cardinality(Approaching)
      /\ {Cardinality(Pulling'), Cardinality(Pulling), Cardinality(Approaching'),
          Cardinality(Approaching), Cardinality(Started)} \subseteq Nat
  BY <1>2, <1>3, CountedAreFinite, PartIsNoLarger
<1>5. Len(prs) \in Nat /\ refs \in Nat
  BY LenProperties DEF PipelineIInv, TypeOK
<1>6. PullsCounted
  BY DEF PipelineIInv
<1> QED
  BY <1>1, <1>4, <1>5, <1>6 DEF PullsCounted

\* A step that is granted no claim.
LEMMA ClaimsStayCounted ==
  ASSUME PipelineIInv, NEW j \in Jobs, NEW n \in AttemptNos, OnlyRun(j, n),
         UNCHANGED key, Granted(run'[j][n]) => Granted(run[j][n]),
         \A c \in Claims : /\ write'[c].attempts \in Nat
                           /\ write[c].attempts <= write'[c].attempts
  PROVE  ClaimsCounted'
<1> SUFFICES ASSUME NEW c \in Claims
             PROVE  Cardinality(Holders(c)') <= write'[c].attempts
  BY DEF ClaimsCounted
<1>1. Holders(c)' \subseteq Holders(c)
  BY DEF Holders, OnlyRun, Granted
<1>2. /\ Cardinality(Holders(c)') <= Cardinality(Holders(c))
      /\ Cardinality(Holders(c)') \in Nat /\ Cardinality(Holders(c)) \in Nat
  BY <1>1, CountedAreFinite, PartIsNoLarger
<1>3. Cardinality(Holders(c)) <= write[c].attempts /\ write[c].attempts \in Nat
  BY DEF PipelineIInv, ClaimsCounted, TypeOK, Writes
<1> QED
  BY <1>2, <1>3

-----------------------------------------------------------------------------
(* What may follow what *)

\* Not newly about to open a pull request, nor back before the creation of
\* the branch, nor newly granted a claim.
Harmless(r, s) ==
  /\ s.phase = "pull" => r.phase = "pull"
  /\ Passed(r) => Passed(s)
  /\ Granted(s) => Granted(r)

Working == {"lookup", "function", "claim", "ref", "pull", "result"}

\* A record without a result in hand holds nothing untrue.
LEMMA EmptyHanded ==
  ASSUME NEW j \in Jobs, NEW s, s.out = None
  PROVE  Holds(j, s) /\ Holds(j, s)'
BY DEF Holds

\* An attempt is the record of its six fields.
LEMMA AttemptShape ==
  ASSUME NEW r, AttemptOK(r)
  PROVE  /\ r = [phase |-> r.phase, at |-> r.at, out |-> r.out, seen |-> r.seen,
                 own |-> r.own, tx |-> r.tx]
         /\ r.phase \in Phases /\ r.at \in Steps \cup Ends
         /\ r.tx \in {"none", "open", "aborted", "lost"}
         /\ r.own \in SUBSET Steps /\ StepLog(r.seen)
BY DEF AttemptOK

LEMMA EndShape ==
  ASSUME NEW r, AttemptOK(r), NEW e
  PROVE  End(r, e) = [phase |-> "returned", at |-> e, out |-> None,
                      seen |-> r.seen, own |-> r.own, tx |-> r.tx]
<1> DEFINE s == End(r, e)
<1>1. s \in [phase : {"returned"}, at : {e}, out : {None}, seen : {r.seen},
            own : {r.own}, tx : {r.tx}]
  BY DEF End, AttemptOK
<1> HIDE DEF s
<1>2. s = [phase |-> "returned", at |-> e, out |-> None, seen |-> r.seen,
           own |-> r.own, tx |-> r.tx]
  BY <1>1
<1> QED
  BY <1>2 DEF s

LEMMA ReturnsShape ==
  ASSUME NEW r, AttemptOK(r), NEW v
  PROVE  Returns(r, v) = [phase |-> "result", at |-> r.at, out |-> v,
                          seen |-> r.seen, own |-> r.own, tx |-> r.tx]
<1> DEFINE s == Returns(r, v)
<1>1. s \in [phase : {"result"}, at : {r.at}, out : {v}, seen : {r.seen},
            own : {r.own}, tx : {r.tx}]
  BY DEF Returns, AttemptOK
<1> HIDE DEF s
<1>2. s = [phase |-> "result", at |-> r.at, out |-> v, seen |-> r.seen,
           own |-> r.own, tx |-> r.tx]
  BY <1>1
<1> QED
  BY <1>2 DEF s

\* The attempt is over, other than by having opened a pull request.
LEMMA EndFollows ==
  ASSUME PipelineIInv, NEW j \in Jobs, NEW n \in AttemptNos, NEW r,
         r = run[j][n], Active(j, n), NEW e \in Ends \ {"opened"}
  PROVE  /\ Follows(j, n, r, End(r, e)) /\ Harmless(r, End(r, e))
         /\ End(r, e).out = None
<1>1. Settled(j, r)
  BY ActiveIsSound
<1> DEFINE s == End(r, e)
<1>2. /\ r.tx \in {"none", "open", "aborted", "lost"} /\ r.own \in SUBSET Steps
      /\ StepLog(r.seen)
      /\ s = [phase |-> "returned", at |-> e, out |-> None, seen |-> r.seen,
              own |-> r.own, tx |-> r.tx]
  <2>1. AttemptOK(r)
    BY <1>1 DEF Settled
  <2> QED
    BY <2>1, AttemptShape, EndShape
<1> HIDE DEF s
<1>3. AttemptOK(s)
  BY <1>2 DEF AttemptOK, Phases
<1>4. Placed(s) /\ Came(s)
  BY <1>2 DEF Placed, Came, Ends, Succeeds, Fails, Kills
<1>5. Honest(j, s.seen) /\ Agrees(j, s)
  BY <1>1, <1>2 DEF Settled, Agrees
<1>6. Settled(j, s)
  BY <1>2, <1>3, <1>4, <1>5 DEF Settled
<1>7. Follows(j, n, r, s)
  BY <1>2, <1>6 DEF Follows, Active
<1>8. Harmless(r, s)
  BY <1>2 DEF Harmless, Passed, Granted
<1> QED
  BY <1>2, <1>7, <1>8 DEF s

\* The transaction is aborted or lost, or stays.
LEMMA TxFollows ==
  ASSUME NEW j \in Jobs, NEW n \in AttemptNos, NEW r, NEW s,
         NEW t \in {"aborted", "lost"},
         Follows(j, n, r, s), Harmless(r, s), s.phase # "none"
  PROVE  /\ Follows(j, n, r, [s EXCEPT !.tx = t])
         /\ Harmless(r, [s EXCEPT !.tx = t])
         /\ Holds(j, s) => Holds(j, [s EXCEPT !.tx = t])
         /\ Holds(j, s)' => Holds(j, [s EXCEPT !.tx = t])'
<1> DEFINE z == [s EXCEPT !.tx = t]
<1>1. /\ z = [phase |-> s.phase, at |-> s.at, out |-> s.out, seen |-> s.seen,
              own |-> s.own, tx |-> t]
      /\ s.phase \in Phases /\ s.at \in Steps \cup Ends
      /\ s.own \in SUBSET Steps
  BY DEF Follows, Settled, AttemptOK
<1> HIDE DEF z
<1>2. Settled(j, s)
  BY DEF Follows
<1>3. AttemptOK(z)
  BY <1>1, <1>2 DEF Settled, AttemptOK
<1>4. Placed(z) /\ Came(z)
  BY <1>1, <1>2 DEF Settled, Placed, Came
<1>5. Honest(j, z.seen) /\ Agrees(j, z)
  BY <1>1, <1>2 DEF Settled, Agrees
<1>6. Settled(j, z)
  BY <1>1, <1>2, <1>3, <1>4, <1>5 DEF Settled
<1>7. Follows(j, n, r, z)
  BY <1>1, <1>6 DEF Follows
<1>8. Harmless(r, z)
  BY <1>1 DEF Harmless, Passed, Granted
<1>9. (Holds(j, s) => Holds(j, z)) /\ (Holds(j, s)' => Holds(j, z)')
  BY <1>1 DEF Holds
<1> QED
  BY <1>7, <1>8, <1>9 DEF z

\* The function of the step returns.
LEMMA ReturnFollows ==
  ASSUME PipelineIInv, NEW j \in Jobs, NEW n \in AttemptNos, NEW r,
         r = run[j][n], r.phase \in Working, NEW v \in Results(r.at)
  PROVE  /\ Follows(j, n, r, Returns(r, v))
         /\ Returns(r, v).phase = "result" /\ Returns(r, v).out = v
         /\ Returns(r, v).at = r.at /\ Returns(r, v).seen = r.seen
         /\ Returns(r, v).own = r.own
         /\ ~ (r.at = "authorise-write" /\ v = "granted") =>
              Harmless(r, Returns(r, v))
         /\ Passed(r) => Passed(Returns(r, v))
<1>1. Settled(j, r)
  BY ActiveIsSound DEF Active, Working
<1> DEFINE s == Returns(r, v)
<1>2. /\ r.tx \in {"none", "open", "aborted", "lost"} /\ r.own \in SUBSET Steps
      /\ StepLog(r.seen) /\ r.at \in Steps
      /\ s = [phase |-> "result", at |-> r.at, out |-> v, seen |-> r.seen,
              own |-> r.own, tx |-> r.tx]
  <2>1. AttemptOK(r) /\ r.at \in Steps
    BY <1>1 DEF Settled, Placed, Working
  <2> QED
    BY <2>1, AttemptShape, ReturnsShape
<1>3. v # None
  BY <1>2, ResultsAreNotNone
<1> HIDE DEF s
<1>4. AttemptOK(s)
  BY <1>2 DEF AttemptOK, Phases
<1>5. Placed(s) /\ Came(s)
  BY <1>1, <1>2, <1>3 DEF Settled, Placed, Came
<1>6. Honest(j, s.seen) /\ Agrees(j, s)
  BY <1>1, <1>2 DEF Settled, Agrees
<1>7. Settled(j, s)
  BY <1>1, <1>2, <1>4, <1>5, <1>6 DEF Settled
<1>8. Follows(j, n, r, s)
  BY <1>2, <1>7 DEF Follows, Working
<1>9. Passed(r) => Passed(s)
  BY <1>2 DEF Passed, Working
<1>10. ~ (r.at = "authorise-write" /\ v = "granted") => Harmless(r, s)
  BY <1>2, <1>9 DEF Harmless, Granted
<1> QED
  BY <1>2, <1>8, <1>9, <1>10 DEF s

\* The attempt goes on within the step.
InPhase(r, p) == [r EXCEPT !.phase = p]

LEMMA PhaseFollows ==
  ASSUME PipelineIInv, NEW j \in Jobs, NEW n \in AttemptNos, NEW r,
         r = run[j][n], r.phase \in Working \ {"pull", "result"},
         NEW p \in {"function", "claim", "ref", "pull"}
  PROVE  /\ Follows(j, n, r, InPhase(r, p))
         /\ p # "pull" => Harmless(r, InPhase(r, p))
         /\ InPhase(r, p).phase = p
         /\ InPhase(r, p).at = r.at
         /\ InPhase(r, p).out = None
         /\ Granted(InPhase(r, p)) => Granted(r)
<1>1. Settled(j, r)
  BY ActiveIsSound DEF Active, Working
<1> DEFINE s == InPhase(r, p)
<1>2. /\ r.tx \in {"none", "open", "aborted", "lost"} /\ r.own \in SUBSET Steps
      /\ StepLog(r.seen) /\ r.at \in Steps /\ r.out = None
      /\ s = [phase |-> p, at |-> r.at, out |-> None, seen |-> r.seen,
              own |-> r.own, tx |-> r.tx]
  BY <1>1 DEF Settled, AttemptOK, Placed, Working, InPhase
<1> HIDE DEF s
<1>4. AttemptOK(s)
  BY <1>2 DEF AttemptOK, Phases
<1>5. Placed(s) /\ Came(s)
  BY <1>1, <1>2 DEF Settled, Placed, Came
<1>6. Honest(j, s.seen) /\ Agrees(j, s)
  BY <1>1, <1>2 DEF Settled, Agrees
<1>7. Settled(j, s)
  BY <1>1, <1>2, <1>4, <1>5, <1>6 DEF Settled
<1>8. Follows(j, n, r, s)
  BY <1>2, <1>7 DEF Follows, Working
<1>9. p # "pull" => Harmless(r, s)
  BY <1>2 DEF Harmless, Granted, Passed, Working
<1>10. Granted(s) => Granted(r)
  BY <1>2 DEF Granted
<1> QED
  BY <1>2, <1>8, <1>9, <1>10 DEF s

\* The attempt is gone.
LEMMA NothingFollows ==
  ASSUME NEW j \in Jobs, NEW n \in AttemptNos, NEW r, r.phase # "none"
  PROVE  Follows(j, n, r, NoAttempt) /\ Harmless(r, NoAttempt)
<1>1. Settled(j, NoAttempt)
  BY BlankIsSound
<1>2. NoAttempt.tx = "none" /\ NoAttempt.own = {} /\ NoAttempt.phase = "none"
  BY DEF NoAttempt
<1> QED
  BY <1>1, <1>2 DEF Follows, Harmless, Passed, Granted

\* The handler's next step or end, and what it takes to get there.
LEMMA FollowingIs ==
  ASSUME NEW k \in Steps, NEW v \in Results(k)
  PROVE  /\ Following(k, v) \in Steps \cup Ends
         /\ Following(k, v) # "load-context"
         /\ Following(k, v) = "authorise-write" => k = "load-context"
         /\ Following(k, v) = "generate-migration" => k = "authorise-write"
         /\ Following(k, v) = "evaluate-policy" => k = "generate-migration"
         /\ Following(k, v) = "mint-opt-out-token" =>
              k = "evaluate-policy" /\ v = "allow"
         /\ Following(k, v) = "open-pr" => k = "mint-opt-out-token"
         /\ Following(k, v) = "record-result" <=> k = "open-pr"
         /\ Following(k, v) = "opened" <=> k = "record-result"
<1>1. CASE k \in {"load-context", "record-rejection", "record-escalation",
                  "mint-opt-out-token", "open-pr", "record-result"}
  BY <1>1 DEF Following, Steps, Ends, Succeeds, Fails, Kills
<1>2. CASE k = "authorise-write"
  <2>1. v \in {"granted", "already-written", "suppressed", "refused"}
    BY <1>2 DEF Results
  <2> QED
    BY <1>2, <2>1 DEF Following, Steps, Ends, Succeeds, Fails, Kills
<1>3. CASE k = "generate-migration"
  BY <1>3 DEF Following, Steps
<1>4. CASE k = "evaluate-policy"
  <2>1. v \in {"allow", "reject", "escalate"}
    BY <1>4 DEF Results
  <2> QED
    BY <1>4, <2>1 DEF Following, Steps
<1> QED
  BY <1>1, <1>2, <1>3, <1>4 DEF Steps

\* The record after ctx.step has returned v, with the steps w of its own.
GivenWith(r, v, w) == Given([r EXCEPT !.own = w], v)

LEMMA GivenShape ==
  ASSUME NEW r, AttemptOK(r), r.at \in Steps, NEW v \in Results(r.at),
         NEW w \in SUBSET Steps
  PROVE  GivenWith(r, v, w) =
           [phase |-> IF Following(r.at, v) \in Steps THEN "lookup"
                                                      ELSE "returned",
            at |-> Following(r.at, v), out |-> None,
            seen |-> [r.seen EXCEPT ![r.at] = v], own |-> w, tx |-> r.tx]
<1> DEFINE to == Following(r.at, v)
           f  == [r.seen EXCEPT ![r.at] = v]
           q  == [r EXCEPT !.own = w]
           s  == [q EXCEPT !.seen[r.at] = v, !.out = None]
<1>1. q \in [phase : {r.phase}, at : {r.at}, out : {r.out}, seen : {r.seen},
             own : {w}, tx : {r.tx}]
  BY DEF AttemptOK
<1>2. q.at = r.at /\ q.seen = r.seen
  BY <1>1
<1>3. s \in [phase : {r.phase}, at : {r.at}, out : {None}, seen : {f},
             own : {w}, tx : {r.tx}]
  <2> HIDE DEF q
  <2> QED
    BY <1>1
<1>4. Given(q, v) = IF to \in Steps THEN [s EXCEPT !.at = to, !.phase = "lookup"]
                                    ELSE End(s, to)
  <2> HIDE DEF q
  <2> QED
    BY <1>2 DEF Given
<1> HIDE DEF q, s, to, f
<1>5. CASE to \in Steps
  <2> DEFINE z == [s EXCEPT !.at = to, !.phase = "lookup"]
  <2>1. z \in [phase : {"lookup"}, at : {to}, out : {None}, seen : {f},
               own : {w}, tx : {r.tx}]
    BY <1>3
  <2> HIDE DEF z
  <2>2. z = [phase |-> "lookup", at |-> to, out |-> None, seen |-> f,
             own |-> w, tx |-> r.tx]
    BY <2>1
  <2> QED
    BY <1>4, <1>5, <2>2 DEF z, q, to, f, GivenWith
<1>6. CASE to \notin Steps
  <2> DEFINE z == End(s, to)
  <2>1. z \in [phase : {"returned"}, at : {to}, out : {None}, seen : {f},
               own : {w}, tx : {r.tx}]
    BY <1>3 DEF End
  <2> HIDE DEF z
  <2>2. z = [phase |-> "returned", at |-> to, out |-> None, seen |-> f,
             own |-> w, tx |-> r.tx]
    BY <2>1
  <2> QED
    BY <1>4, <1>6, <2>2 DEF z, q, to, f, GivenWith
<1> QED
  BY <1>5, <1>6

\* What was committed for a step is true for any live attempt at it, for it
\* was given the same results before.
LEMMA LogIsTrue ==
  ASSUME PipelineIInv, NEW j \in Jobs, NEW n \in AttemptNos, NEW r,
         r = run[j][n], r.tx = "open", r.at \in Steps, log[j][r.at] # None
  PROVE  /\ log[j][r.at] \in Results(r.at)
         /\ TrueOf(j, r.seen, r.at, log[j][r.at])
<1>1. Settled(j, r)
  BY DEF PipelineIInv, AttemptsSound
<1>2. Honest(j, log[j])
  BY DEF PipelineIInv, RowsSound
<1>3. TrueOf(j, log[j], r.at, log[j][r.at])
  BY <1>2 DEF Honest
<1>4. log[j][r.at] \in Results(r.at)
  BY DEF PipelineIInv, TypeOK, StepLog
<1>5. CASE r.at # "evaluate-policy"
  BY <1>3, <1>4, <1>5 DEF TrueOf
<1>6. CASE r.at = "evaluate-policy"
  <2>1. r.seen["generate-migration"] # None
    BY <1>1, <1>6 DEF Settled, Came
  <2>2. log[j]["generate-migration"] # None
    BY <1>3, <1>6 DEF TrueOf
  <2>3. state[j] # "deleted"
    BY DEF PipelineIInv, RowsSound
  <2>4. "generate-migration" \in Steps
    BY DEF Steps
  <2>5. r.seen["generate-migration"] = log[j]["generate-migration"]
    BY <1>1, <2>1, <2>2, <2>3, <2>4 DEF Settled, Agrees
  <2> QED
    BY <1>3, <1>4, <1>6, <2>5 DEF TrueOf
<1> QED
  BY <1>5, <1>6

\* Where the result v a handler is given comes from, and the steps w that
\* are then its own: the log, or the attempt itself.
Source(j, r, v, w) ==
  \/ v = log[j][r.at] /\ w = r.own
  \/ /\ v = r.out /\ w = r.own \cup {r.at} /\ r.phase = "result"
     /\ log[j][r.at] = None /\ state[j] # "deleted"
     /\ \A m \in AttemptNos :
          ~ (run[j][m].tx = "open" /\ r.at \in run[j][m].own)

LEMMA GivenFollows ==
  ASSUME PipelineIInv, NEW j \in Jobs, NEW n \in AttemptNos, NEW r,
         r = run[j][n], r.phase \in {"lookup", "result"}, r.tx = "open",
         NEW v, v # None, NEW w, Source(j, r, v, w)
  PROVE  /\ Follows(j, n, r, GivenWith(r, v, w))
         /\ Harmless(r, GivenWith(r, v, w))
         /\ Holds(j, GivenWith(r, v, w))'
<1>1. Settled(j, r) /\ Holds(j, r)
  BY ActiveIsSound DEF Active
<1>2. AttemptOK(r) /\ r.at \in Steps /\ r.own \in SUBSET Steps /\ StepLog(r.seen)
  BY <1>1, AttemptShape DEF Settled, Placed
<1>3. v \in Results(r.at) /\ TrueOf(j, r.seen, r.at, v)
  BY <1>1, <1>2, LogIsTrue DEF Source, Settled, AttemptOK, Holds
<1>4. w \in SUBSET Steps
  BY <1>2 DEF Source
<1> DEFINE s  == GivenWith(r, v, w)
           to == Following(r.at, v)
           f  == [r.seen EXCEPT ![r.at] = v]
<1>5. s = [phase |-> IF to \in Steps THEN "lookup" ELSE "returned",
           at |-> to, out |-> None, seen |-> f, own |-> w, tx |-> r.tx]
  BY <1>2, <1>3, <1>4, GivenShape
<1>6. /\ f[r.at] = v /\ \A k \in Steps : k # r.at => f[k] = r.seen[k]
      /\ f = [k \in Steps |-> f[k]]
  BY <1>2 DEF StepLog
<1>7. /\ to \in Steps \cup Ends /\ to # "load-context"
      /\ to = "authorise-write" => r.at = "load-context"
      /\ to = "generate-migration" => r.at = "authorise-write"
      /\ to = "evaluate-policy" => r.at = "generate-migration"
      /\ to = "mint-opt-out-token" => r.at = "evaluate-policy" /\ v = "allow"
      /\ to = "open-pr" => r.at = "mint-opt-out-token"
      /\ to = "record-result" <=> r.at = "open-pr"
      /\ to = "opened" <=> r.at = "record-result"
  BY <1>2, <1>3, FollowingIs
<1> HIDE DEF s, to, f
<1>8. AttemptOK(s)
  <2>1. StepLog(f)
    BY <1>2, <1>3, <1>6 DEF StepLog
  <2> QED
    BY <1>2, <1>4, <1>5, <1>7, <2>1 DEF AttemptOK, Phases, Settled
<1>9. Placed(s)
  <2>1. to \notin Steps => to \in Ends
    BY <1>7
  <2> QED
    BY <1>5, <2>1 DEF Placed
<1>10. Came(s)
  <2>1. Came(r)
    BY <1>1 DEF Settled
  <2>2. {"evaluate-policy", "generate-migration", "mint-opt-out-token",
         "open-pr"} \subseteq Steps
    BY DEF Steps
  <2> QED
    BY <1>5, <1>6, <1>7, <2>1, <2>2 DEF Came
<1>11. Honest(j, f)
  <2> SUFFICES ASSUME NEW k \in Steps, f[k] # None
               PROVE  TrueOf(j, f, k, f[k])
    BY DEF Honest
  <2>1. "generate-migration" \in Steps /\ "evaluate-policy" \in Steps
    BY DEF Steps
  <2>2. CASE k = r.at
    <3>1. r.at = "evaluate-policy" =>
            f["generate-migration"] = r.seen["generate-migration"]
      BY <1>6, <2>1
    <3> QED
      BY <1>3, <1>6, <2>2, <3>1 DEF TrueOf
  <2>3. CASE k # r.at
    <3>1. f[k] = r.seen[k] /\ TrueOf(j, r.seen, k, r.seen[k])
      BY <1>1, <1>6, <2>3 DEF Settled, Honest
    <3>2. k = "evaluate-policy" => r.at # "generate-migration"
      BY <1>1, <2>1, <3>1 DEF Settled, Came
    <3>3. k = "evaluate-policy" =>
            f["generate-migration"] = r.seen["generate-migration"]
      BY <1>6, <2>1, <3>2
    <3> QED
      BY <3>1, <3>3 DEF TrueOf
  <2> QED
    BY <2>2, <2>3
<1>12. Agrees(j, s)
  <2>1. CASE v = log[j][r.at] /\ w = r.own
    <3>1. CASE state[j] = "deleted"
      BY <1>1, <1>2, <1>5, <1>6, <2>1, <3>1 DEF Settled, Agrees
    <3>2. CASE state[j] # "deleted"
      <4> SUFFICES ASSUME r.tx = "open"
                   PROVE  /\ \A k \in Steps : f[k] # None => k \in r.own \/ f[k] = log[j][k]
                          /\ \A k \in r.own : log[j][k] = None /\ f[k] # None
        BY <1>5, <2>1, <3>2 DEF Agrees
      <4>1. /\ \A k \in Steps : r.seen[k] # None => k \in r.own \/ r.seen[k] = log[j][k]
            /\ \A k \in r.own : log[j][k] = None /\ r.seen[k] # None
        BY <1>1, <3>2 DEF Settled, Agrees
      <4>2. v # None
        BY <1>2, <1>3, NoneAssumption
      <4> QED
        BY <1>2, <1>6, <2>1, <4>1, <4>2
    <3> QED
      BY <3>1, <3>2
  <2>2. CASE w = r.own \cup {r.at} /\ log[j][r.at] = None /\ state[j] # "deleted"
    BY <1>1, <1>2, <1>5, <1>6, <2>2 DEF Settled, Agrees
  <2> QED
    BY <2>1, <2>2 DEF Source
<1>13. s.at = "opened" => write[key[j]].status = "succeeded"
  BY <1>3, <1>5, <1>7 DEF TrueOf
<1>14. Follows(j, n, r, s)
  <2>1. Settled(j, s)
    BY <1>5, <1>8, <1>9, <1>10, <1>11, <1>12, <1>13 DEF Settled
  <2> QED
    BY <1>5, <2>1 DEF Follows, Source
<1>15. Passed(r) => Passed(s)
  BY <1>5, <1>7 DEF Passed, Steps
<1>16. Granted(s) => Granted(r)
  <2> SUFFICES ASSUME "authorise-write" \in w, f["authorise-write"] = "granted"
               PROVE  Granted(r)
    BY <1>5 DEF Granted
  <2>1. "authorise-write" \in Steps
    BY DEF Steps
  <2>2. CASE r.at # "authorise-write"
    BY <1>6, <2>1, <2>2 DEF Source, Granted
  <2>3. CASE r.at = "authorise-write" /\ v = log[j][r.at] /\ w = r.own
    BY <1>1, <2>3 DEF Settled, Agrees
  <2>4. CASE r.at = "authorise-write" /\ v = r.out /\ r.phase = "result"
    BY <1>6, <2>4 DEF Granted
  <2> QED
    BY <2>2, <2>3, <2>4 DEF Source
<1>17. Holds(j, s)'
  BY <1>5, EmptyHanded
<1>18. Harmless(r, s)
  BY <1>5, <1>15, <1>16 DEF Harmless
<1> QED
  BY <1>14, <1>17, <1>18 DEF s

-----------------------------------------------------------------------------
(* The invariant after a step of one attempt *)

\* Types, when the job rows and the world stay as they are.
LEMMA TypesAfterMove ==
  ASSUME TypeOK, NEW j \in Jobs, NEW n \in AttemptNos, OnlyRun(j, n),
         AttemptsSound', UNCHANGED rowVars, UNCHANGED worldVars,
         write' \in [Claims -> Writes], tokens' \subseteq Tokens,
         branch' \in Diffs \cup {None}, refs' \in Nat,
         prs' \in Seq([diff : Diffs, token : Tokens]),
         open' \in (1 .. Len(prs')) \cup {None}, faults' \in 0 .. MaxFaults
  PROVE  TypeOK'
<1>1. \A i \in Jobs, m \in AttemptNos : AttemptOK(run[i][m])'
  BY DEF AttemptsSound, Settled
<1>2. run' = [i \in Jobs |-> [m \in AttemptNos |-> run'[i][m]]]
  BY DEF OnlyRun
<1>3. /\ state' = state /\ key' = key /\ starts' = starts /\ result' = result
      /\ log' = log /\ suppressed' = suppressed /\ revoked' = revoked
  BY DEF rowVars, worldVars
<1>4. \A i \in Jobs : StepLog(log[i])'
  BY <1>3 DEF TypeOK, StepLog
<1> QED
  BY <1>1, <1>2, <1>3, <1>4 DEF TypeOK

\* Most steps: nothing is created on the forge, and no claim is granted.
LEMMA QuietStep ==
  ASSUME PipelineIInv, NEW j \in Jobs, NEW n \in AttemptNos, NEW s,
         SetRun(j, n, s), Follows(j, n, run[j][n], s),
         Harmless(run[j][n], s), Holds(j, s)', Grows,
         UNCHANGED <<rowVars, worldVars, forgeVars>>,
         tokens' \subseteq Tokens, write' \in [Claims -> Writes],
         \A c \in Claims : /\ write[c].attempts <= write'[c].attempts
                           /\ write'[c].status = "succeeded" =>
                                write'[c].pr \in 1 .. Len(prs),
         faults' \in 0 .. MaxFaults
  PROVE  PipelineIInv'
<1>1. run'[j][n] = s /\ OnlyRun(j, n) /\ Active(j, n) /\ TypeOK
  BY SetRunIs DEF PipelineIInv, Follows, Active
<1>2. AttemptsSound' /\ Sole' /\ RowsSound'
  BY <1>1, MovesAreSound
<1>3. /\ branch' = branch /\ refs' = refs /\ prs' = prs /\ open' = open
      /\ key' = key /\ starts' = starts /\ result' = result /\ state' = state
  BY DEF forgeVars, rowVars
<1>4. TypeOK'
  <2>1. /\ branch' \in Diffs \cup {None} /\ refs' \in Nat
        /\ prs' \in Seq([diff : Diffs, token : Tokens])
        /\ open' \in (1 .. Len(prs')) \cup {None}
    BY <1>1, <1>3 DEF TypeOK
  <2> QED
    BY <1>1, <1>2, <2>1, TypesAfterMove
<1>5. StartsCounted' /\ PullsCounted'
  BY <1>1, <1>3, PullsStayCounted DEF Harmless
<1>6. ClaimsCounted'
  <2>1. \A c \in Claims : write'[c].attempts \in Nat
    BY DEF Writes
  <2> QED
    BY <1>1, <1>3, <2>1, ClaimsStayCounted DEF Harmless
<1>7. ForgeSound'
  BY <1>3 DEF PipelineIInv, ForgeSound, PublishedLinksWork,
              PublishedDiffsWereVetted, Grows
<1>8. RecordsAreTrue'
  <2>1. ASSUME NEW i \in Jobs, result[i] = "opened"
        PROVE  write'[key[i]].status = "succeeded"
    <3>1. "opened" # None
      BY NoneAssumption DEF Ends, Succeeds
    <3> QED
      BY <2>1, <3>1 DEF PipelineIInv, RowsSound, RecordsAreTrue, Grows
  <2> QED
    BY <1>3, <2>1 DEF RecordsAreTrue
<1> QED
  BY <1>2, <1>4, <1>5, <1>6, <1>7, <1>8 DEF PipelineIInv

\* A step that touches nothing but the attempt.
LEMMA SilentStep ==
  ASSUME PipelineIInv, NEW j \in Jobs, NEW n \in AttemptNos, NEW s,
         SetRun(j, n, s), Follows(j, n, run[j][n], s),
         Harmless(run[j][n], s), Holds(j, s)',
         UNCHANGED <<rowVars, storeVars, worldVars, forgeVars>>,
         UNCHANGED faults \/ Fault
  PROVE  PipelineIInv'
<1>1. TypeOK /\ RecordsAreTrue /\ Len(prs) \in Nat
  BY LenProperties DEF PipelineIInv, TypeOK
<1>2. tokens' = tokens /\ write' = write /\ prs' = prs
  BY DEF storeVars, forgeVars
<1>3. Grows
  BY <1>1, <1>2 DEF Grows
<1>4. faults' \in 0 .. MaxFaults
  BY <1>1, PipelineBounds DEF TypeOK, Fault
<1>5. \A c \in Claims : /\ write[c].attempts <= write'[c].attempts
                        /\ write'[c].status = "succeeded" =>
                             write'[c].pr \in 1 .. Len(prs)
  BY <1>1, <1>2 DEF TypeOK, Writes, RecordsAreTrue
<1>6. write' \in [Claims -> Writes] /\ tokens' \subseteq Tokens
  BY <1>1, <1>2 DEF TypeOK
<1>7. UNCHANGED <<rowVars, worldVars, forgeVars>>
  OBVIOUS
<1> HIDE DEF Grows
<1> QED
  BY <1>3, <1>4, <1>5, <1>6, <1>7, QuietStep

-----------------------------------------------------------------------------
(* One lemma per action: the runtime and the failures *)

LEMMA LookupKeeps ==
  ASSUME PipelineIInv, NEW j \in Jobs, NEW n \in AttemptNos, Lookup(j, n)
  PROVE  PipelineIInv'
<1> PICK r : r = run[j][n]
  OBVIOUS
<1> PICK v : v = log[j][r.at]
  OBVIOUS
<1>1. /\ r.phase = "lookup" /\ r.tx = "open"
      /\ UNCHANGED <<rowVars, storeVars, worldVars, forgeVars>>
      /\ UNCHANGED faults
  BY DEF Lookup
<1>2. PICK s \in (IF v = None THEN Called(r) ELSE {Given(r, v)}) :
        SetRun(j, n, s)
  BY DEF Lookup
<1>3. Active(j, n) /\ r.phase \in Working
  BY <1>1 DEF Active, Working
<1>4. Settled(j, r)
  BY <1>3, ActiveIsSound
<1>5. AttemptOK(r) /\ r.at \in Steps /\ r.own \in SUBSET Steps
  BY <1>1, <1>4, AttemptShape DEF Settled, Placed
<1>6. Follows(j, n, r, s) /\ Harmless(r, s) /\ Holds(j, s)'
  <2>1. CASE v # None
    <3>1. r = [r EXCEPT !.own = r.own]
      BY <1>5 DEF AttemptOK
    <3>2. Source(j, r, v, r.own)
      BY DEF Source
    <3>3. s = GivenWith(r, v, r.own)
      BY <1>2, <2>1, <3>1 DEF GivenWith
    <3>4. r.phase \in {"lookup", "result"} /\ r.tx = "open"
      BY <1>1
    <3>5. /\ Follows(j, n, r, GivenWith(r, v, r.own))
          /\ Harmless(r, GivenWith(r, v, r.own))
          /\ Holds(j, GivenWith(r, v, r.own))'
      BY <2>1, <3>2, <3>4, GivenFollows
    <3> QED
      BY <3>3, <3>5
  <2>2. CASE v = None /\ s = End(r, "unavailable")
    <3>1. "unavailable" \in Ends \ {"opened"}
      BY DEF Ends, Kills
    <3>2. Follows(j, n, r, s) /\ Harmless(r, s) /\ s.out = None
      BY <1>3, <2>2, <3>1, EndFollows
    <3> QED
      BY <3>2, EmptyHanded
  <2>3. CASE r.at = "load-context" /\ s = Returns(r, "done")
    <3>1. "done" \in Results(r.at)
      BY <2>3 DEF Results
    <3>2. /\ Follows(j, n, r, s) /\ Harmless(r, s)
          /\ s.at = r.at /\ s.out = "done"
      BY <1>3, <2>3, <3>1, ReturnFollows
    <3> QED
      BY <2>3, <3>2 DEF Holds, TrueOf
  <2>4. CASE r.at = "evaluate-policy" /\
             s = Returns(r, Verdict[r.seen["generate-migration"]])
    <3> PICK d : d = r.seen["generate-migration"]
      OBVIOUS
    <3>1. d # None
      BY <1>4, <2>4 DEF Settled, Came
    <3>2. d \in Diffs
      <4>1. "generate-migration" \in Steps
              /\ Results("generate-migration") = Diffs
        BY DEF Steps, Results
      <4> QED
        BY <1>5, <3>1, <4>1 DEF AttemptOK, StepLog
    <3>3. Verdict[d] \in Results(r.at)
      BY <2>4, <3>2, VerdictAssumption DEF Results
    <3>4. /\ Follows(j, n, r, s) /\ Harmless(r, s)
          /\ s.at = r.at /\ s.out = Verdict[d] /\ s.seen = r.seen
      BY <1>3, <2>4, <3>3, ReturnFollows
    <3> QED
      BY <2>4, <3>1, <3>4 DEF Holds, TrueOf
  <2>5. CASE v = None /\ s = [r EXCEPT !.phase = "function"]
    <3>1. s = InPhase(r, "function") /\ r.phase \in Working \ {"pull", "result"}
      BY <1>1, <2>5 DEF Working, InPhase
    <3>2. Follows(j, n, r, s) /\ Harmless(r, s) /\ s.out = None
      BY <3>1, PhaseFollows
    <3> QED
      BY <3>2, EmptyHanded
  <2> QED
    BY <1>2, <2>1, <2>2, <2>3, <2>4, <2>5 DEF Called
<1> QED
  BY <1>1, <1>2, <1>6, SilentStep

LEMMA RecordKeeps ==
  ASSUME PipelineIInv, NEW j \in Jobs, NEW n \in AttemptNos, Record(j, n)
  PROVE  PipelineIInv'
<1> PICK r : r = run[j][n]
  OBVIOUS
<1>1. /\ r.phase = "result" /\ r.tx = "open" /\ state[j] # "deleted"
      /\ UNCHANGED <<rowVars, storeVars, worldVars, forgeVars>>
      /\ UNCHANGED faults
  BY DEF Record
<1>2. Active(j, n)
  BY <1>1 DEF Active
<1>3. Settled(j, r)
  BY <1>2, ActiveIsSound
<1>4. AttemptOK(r) /\ r.out # None
  BY <1>1, <1>3 DEF Settled, Placed
<1>5. PICK v, w : /\ v # None /\ Source(j, r, v, w)
                  /\ SetRun(j, n, GivenWith(r, v, w))
  <2>1. CASE log[j][r.at] # None
    <3>1. r = [r EXCEPT !.own = r.own]
      BY <1>4 DEF AttemptOK
    <3>2. SetRun(j, n, Given(r, log[j][r.at]))
      BY <2>1 DEF Record
    <3>3. SetRun(j, n, GivenWith(r, log[j][r.at], r.own))
      BY <3>1, <3>2 DEF GivenWith
    <3>4. Source(j, r, log[j][r.at], r.own)
      BY DEF Source
    <3> QED
      BY <2>1, <3>3, <3>4
  <2>2. CASE log[j][r.at] = None
    <3>1. /\ \A m \in AttemptNos :
               run[j][m].tx = "open" => r.at \notin run[j][m].own
          /\ SetRun(j, n, Given([r EXCEPT !.own = @ \cup {r.at}], r.out))
      BY <2>2 DEF Record
    <3>2. Source(j, r, r.out, r.own \cup {r.at})
      BY <1>1, <2>2, <3>1 DEF Source
    <3> QED
      BY <1>4, <3>1, <3>2 DEF GivenWith
  <2> QED
    BY <2>1, <2>2
<1> DEFINE s == GivenWith(r, v, w)
<1>6. Follows(j, n, r, s) /\ Harmless(r, s) /\ Holds(j, s)'
  <2>1. r.phase \in {"lookup", "result"} /\ r.tx = "open"
    BY <1>1
  <2> QED
    BY <1>5, <2>1, GivenFollows
<1> HIDE DEF s
<1> QED
  BY <1>1, <1>5, <1>6, SilentStep DEF s

LEMMA RecordFailsKeeps ==
  ASSUME PipelineIInv, NEW j \in Jobs, NEW n \in AttemptNos, RecordFails(j, n)
  PROVE  PipelineIInv'
<1> PICK r : r = run[j][n]
  OBVIOUS
<1>1. /\ r.phase = "result"
      /\ UNCHANGED <<rowVars, storeVars, worldVars, forgeVars>>
      /\ UNCHANGED faults
      /\ SetRun(j, n, [End(r, "error") EXCEPT !.tx = "aborted"])
  BY DEF RecordFails
<1>2. Active(j, n) /\ "error" \in Ends \ {"opened"}
  BY <1>1 DEF Active, Ends, Fails
<1> DEFINE e == End(r, "error")
           s == [e EXCEPT !.tx = "aborted"]
<1>3. Follows(j, n, r, e) /\ Harmless(r, e) /\ e.out = None
  BY <1>2, EndFollows
<1>4. e.phase # "none"
  <2>1. AttemptOK(r)
    BY <1>2, ActiveIsSound DEF Settled
  <2> QED
    BY <2>1, EndShape
<1> HIDE DEF e
<1>5. Follows(j, n, r, s) /\ Harmless(r, s) /\ Holds(j, s)'
  BY <1>3, <1>4, TxFollows, EmptyHanded
<1> HIDE DEF s
<1> QED
  BY <1>1, <1>5, SilentStep DEF s, e

LEMMA ThrowsKeeps ==
  ASSUME PipelineIInv, NEW j \in Jobs, NEW n \in AttemptNos, Throws(j, n)
  PROVE  PipelineIInv'
<1> PICK r : r = run[j][n]
  OBVIOUS
<1>1. /\ r.phase # "none"
      /\ UNCHANGED <<rowVars, storeVars, worldVars, forgeVars>>
      /\ Fault /\ SetRun(j, n, End(r, "error"))
  BY DEF Throws
<1>2. Active(j, n) /\ "error" \in Ends \ {"opened"}
  BY <1>1 DEF Active, Ends, Fails
<1>3. /\ Follows(j, n, r, End(r, "error")) /\ Harmless(r, End(r, "error"))
      /\ End(r, "error").out = None
  BY <1>2, EndFollows
<1>4. Holds(j, End(r, "error"))'
  BY <1>3, EmptyHanded
<1> QED
  BY <1>1, <1>3, <1>4, SilentStep

LEMMA CrashKeeps ==
  ASSUME PipelineIInv, NEW j \in Jobs, NEW n \in AttemptNos, Crash(j, n)
  PROVE  PipelineIInv'
<1> PICK r : r = run[j][n]
  OBVIOUS
<1>1. /\ r.phase # "none" /\ Fault /\ SetRun(j, n, NoAttempt)
      /\ UNCHANGED <<rowVars, storeVars, worldVars, forgeVars>>
  BY DEF Crash, Active
<1>2. /\ Follows(j, n, r, NoAttempt) /\ Harmless(r, NoAttempt)
      /\ Holds(j, NoAttempt)'
  BY <1>1, NothingFollows, BlankIsSound
<1> QED
  BY <1>1, <1>2, SilentStep

LEMMA FindsConnectionLostKeeps ==
  ASSUME PipelineIInv, NEW j \in Jobs, NEW n \in AttemptNos,
         FindsConnectionLost(j, n)
  PROVE  PipelineIInv'
<1> PICK r : r = run[j][n]
  OBVIOUS
<1>1. /\ r.phase # "none" /\ UNCHANGED faults /\ SetRun(j, n, NoAttempt)
      /\ UNCHANGED <<rowVars, storeVars, worldVars, forgeVars>>
  BY DEF FindsConnectionLost
<1>2. /\ Follows(j, n, r, NoAttempt) /\ Harmless(r, NoAttempt)
      /\ Holds(j, NoAttempt)'
  BY <1>1, NothingFollows, BlankIsSound
<1> QED
  BY <1>1, <1>2, SilentStep

LEMMA LoseConnectionKeeps ==
  ASSUME PipelineIInv, NEW j \in Jobs, NEW n \in AttemptNos,
         LoseConnection(j, n)
  PROVE  PipelineIInv'
<1> PICK r : r = run[j][n]
  OBVIOUS
<1> DEFINE s == [r EXCEPT !.tx = "lost"]
<1>1. /\ r.tx = "open" /\ Fault /\ SetRun(j, n, s)
      /\ UNCHANGED <<rowVars, storeVars, worldVars, forgeVars>>
  BY DEF LoseConnection
<1>2. Settled(j, r) /\ Holds(j, r)
  BY DEF PipelineIInv, AttemptsSound
<1>3. r.phase # "none"
  BY <1>1, <1>2 DEF Settled, Placed, NoAttempt
<1>4. Follows(j, n, r, r) /\ Harmless(r, r)
  BY <1>2, <1>3 DEF Follows, Harmless
<1>5. Grows /\ UNCHANGED key
  <2>1. Len(prs) \in Nat
    BY LenProperties DEF PipelineIInv, TypeOK
  <2> QED
    BY <1>1, <2>1 DEF Grows, storeVars, forgeVars, rowVars
<1>6. Holds(j, r)'
  <2>1. key[j] \in Claims
    BY <1>3, ActiveIsSound DEF Active
  <2> QED
    BY <1>2, <1>5, <2>1, HoldsStays
<1> HIDE DEF s
<1>7. Follows(j, n, r, s) /\ Harmless(r, s) /\ Holds(j, s)'
  BY <1>3, <1>4, <1>6, TxFollows DEF s
<1> QED
  BY <1>1, <1>7, SilentStep

-----------------------------------------------------------------------------
(* One lemma per action: the functions of the steps *)

LEMMA CheckBrakesKeeps ==
  ASSUME PipelineIInv, NEW j \in Jobs, NEW n \in AttemptNos, CheckBrakes(j, n)
  PROVE  PipelineIInv'
<1> PICK r : r = run[j][n]
  OBVIOUS
<1>1. /\ r.phase = "function" /\ r.at = "authorise-write"
      /\ UNCHANGED <<rowVars, storeVars, worldVars, forgeVars>>
      /\ UNCHANGED faults
  BY DEF CheckBrakes, In
<1>2. r.phase \in Working /\ r.phase \in Working \ {"pull", "result"}
  BY <1>1 DEF Working
<1>3. CASE \E v \in {"refused", "suppressed"} : SetRun(j, n, Returns(r, v))
  <2>1. PICK v \in {"refused", "suppressed"} : SetRun(j, n, Returns(r, v))
    BY <1>3
  <2>2. v \in Results(r.at) /\ v # "granted"
    BY <1>1 DEF Results
  <2>3. /\ Follows(j, n, r, Returns(r, v)) /\ Harmless(r, Returns(r, v))
        /\ Returns(r, v).at = r.at
    BY <1>2, <2>2, ReturnFollows
  <2>4. Holds(j, Returns(r, v))'
    BY <1>1, <2>3 DEF Holds, TrueOf
  <2> QED
    BY <1>1, <2>1, <2>3, <2>4, SilentStep
<1>4. CASE SetRun(j, n, InPhase(r, "claim"))
  <2>1. /\ Follows(j, n, r, InPhase(r, "claim"))
        /\ Harmless(r, InPhase(r, "claim")) /\ InPhase(r, "claim").out = None
    BY <1>2, PhaseFollows
  <2>2. Holds(j, InPhase(r, "claim"))'
    BY <2>1, EmptyHanded
  <2> QED
    BY <1>1, <1>4, <2>1, <2>2, SilentStep
<1> QED
  BY <1>3, <1>4 DEF CheckBrakes, InPhase

LEMMA GenerateKeeps ==
  ASSUME PipelineIInv, NEW j \in Jobs, NEW n \in AttemptNos, Generate(j, n)
  PROVE  PipelineIInv'
<1> PICK r : r = run[j][n]
  OBVIOUS
<1>1. /\ r.phase = "function" /\ r.at = "generate-migration"
      /\ UNCHANGED <<rowVars, storeVars, worldVars, forgeVars>>
      /\ UNCHANGED faults
  BY DEF Generate, In
<1>2. r.phase \in Working /\ Active(j, n)
  BY <1>1 DEF Working, Active
<1>3. CASE \E d \in Diffs : SetRun(j, n, Returns(r, d))
  <2>1. PICK d \in Diffs : SetRun(j, n, Returns(r, d))
    BY <1>3
  <2>2. d \in Results(r.at)
    BY <1>1 DEF Results
  <2>3. /\ Follows(j, n, r, Returns(r, d)) /\ Harmless(r, Returns(r, d))
        /\ Returns(r, d).at = r.at
    BY <1>1, <1>2, <2>2, ReturnFollows
  <2>4. Holds(j, Returns(r, d))'
    BY <1>1, <2>3 DEF Holds, TrueOf
  <2> QED
    BY <1>1, <2>1, <2>3, <2>4, SilentStep
<1>4. CASE \E e \in {"no-changes", "no-migration"} : SetRun(j, n, End(r, e))
  <2>1. PICK e \in {"no-changes", "no-migration"} : SetRun(j, n, End(r, e))
    BY <1>4
  <2>2. e \in Ends \ {"opened"}
    BY DEF Ends, Succeeds, Kills
  <2>3. /\ Follows(j, n, r, End(r, e)) /\ Harmless(r, End(r, e))
        /\ End(r, e).out = None
    BY <1>2, <2>2, EndFollows
  <2>4. Holds(j, End(r, e))'
    BY <2>3, EmptyHanded
  <2> QED
    BY <1>1, <2>1, <2>3, <2>4, SilentStep
<1> QED
  BY <1>3, <1>4 DEF Generate

LEMMA FindBranchKeeps ==
  ASSUME PipelineIInv, NEW j \in Jobs, NEW n \in AttemptNos, FindBranch(j, n)
  PROVE  PipelineIInv'
<1> PICK r : r = run[j][n]
  OBVIOUS
<1>1. /\ r.phase = "function" /\ r.at = "open-pr"
      /\ UNCHANGED <<rowVars, storeVars, worldVars, forgeVars>>
      /\ UNCHANGED faults
  BY DEF FindBranch, In
<1>2. /\ r.phase \in Working /\ Active(j, n)
      /\ r.phase \in Working \ {"pull", "result"}
  BY <1>1 DEF Working, Active
<1>3. CASE SetRun(j, n, InPhase(r, "ref"))
  <2>1. /\ Follows(j, n, r, InPhase(r, "ref"))
        /\ Harmless(r, InPhase(r, "ref")) /\ InPhase(r, "ref").out = None
    BY <1>2, PhaseFollows
  <2>2. Holds(j, InPhase(r, "ref"))'
    BY <2>1, EmptyHanded
  <2> QED
    BY <1>1, <1>3, <2>1, <2>2, SilentStep
<1>4. CASE open # None /\ SetRun(j, n, Returns(r, open))
  <2> PICK v : v = open
    OBVIOUS
  <2>1. v \in 1 .. Len(prs)
    BY <1>4 DEF PipelineIInv, TypeOK
  <2>2. v \in Results(r.at)
    BY <1>1, <2>1, NumbersAreAttempts DEF Results
  <2>3. /\ Follows(j, n, r, Returns(r, v)) /\ Harmless(r, Returns(r, v))
        /\ Returns(r, v).at = r.at /\ Returns(r, v).out = v
    BY <1>1, <1>2, <2>2, ReturnFollows
  <2>4. Holds(j, Returns(r, v))'
    BY <1>1, <2>1, <2>3 DEF Holds, TrueOf, forgeVars
  <2> QED
    BY <1>1, <1>4, <2>3, <2>4, SilentStep
<1>5. CASE SetRun(j, n, End(r, "error"))
  <2>1. "error" \in Ends \ {"opened"}
    BY DEF Ends, Fails
  <2>2. /\ Follows(j, n, r, End(r, "error")) /\ Harmless(r, End(r, "error"))
        /\ End(r, "error").out = None
    BY <1>2, <2>1, EndFollows
  <2>3. Holds(j, End(r, "error"))'
    BY <2>2, EmptyHanded
  <2> QED
    BY <1>1, <1>5, <2>2, <2>3, SilentStep
<1> QED
  BY <1>3, <1>4, <1>5 DEF FindBranch, InPhase

\* The hash of the token is stored before anybody is told of it.
LEMMA MintTokenKeeps ==
  ASSUME PipelineIInv, NEW j \in Jobs, NEW n \in AttemptNos, MintToken(j, n)
  PROVE  PipelineIInv'
<1> PICK r : r = run[j][n]
  OBVIOUS
<1> PICK v : v = <<j, n>>
  OBVIOUS
<1>1. /\ r.phase = "function" /\ r.at = "mint-opt-out-token"
      /\ UNCHANGED <<rowVars, worldVars, forgeVars>>
      /\ UNCHANGED write /\ UNCHANGED faults
      /\ tokens' = tokens \cup {v} /\ SetRun(j, n, Returns(r, v))
  BY DEF MintToken, In
<1>2. r.phase \in Working /\ TypeOK /\ RecordsAreTrue /\ Len(prs) \in Nat
  BY <1>1, NumbersAreAttempts DEF Working, PipelineIInv
<1>3. v \in Tokens /\ v \in Results(r.at)
  BY <1>1 DEF Results, Tokens
<1>4. /\ Follows(j, n, r, Returns(r, v)) /\ Harmless(r, Returns(r, v))
      /\ Returns(r, v).at = r.at /\ Returns(r, v).out = v
  BY <1>1, <1>2, <1>3, ReturnFollows
<1>5. Holds(j, Returns(r, v))'
  BY <1>1, <1>4 DEF Holds, TrueOf
<1>6. Grows
  BY <1>1, <1>2 DEF Grows, forgeVars
<1>7. /\ write' \in [Claims -> Writes] /\ tokens' \subseteq Tokens
      /\ faults' \in 0 .. MaxFaults
      /\ \A c \in Claims : /\ write[c].attempts <= write'[c].attempts
                           /\ write'[c].status = "succeeded" =>
                                write'[c].pr \in 1 .. Len(prs)
  <2>1. write' = write
    BY <1>1
  <2>2. \A c \in Claims : /\ write[c].attempts <= write[c].attempts
                          /\ write[c].status = "succeeded" =>
                               write[c].pr \in 1 .. Len(prs)
    BY <1>2 DEF TypeOK, Writes, RecordsAreTrue
  <2>3. /\ write \in [Claims -> Writes] /\ tokens' \subseteq Tokens
        /\ faults' \in 0 .. MaxFaults
    BY <1>1, <1>2, <1>3 DEF TypeOK
  <2> QED
    BY <2>1, <2>2, <2>3
<1> HIDE DEF Grows
<1> QED
  BY <1>1, <1>4, <1>5, <1>6, <1>7, QuietStep

\* resolve_outbound_write, of a row that is still claimed or not.
LEMMA ResolveKeeps ==
  ASSUME PipelineIInv, NEW j \in Jobs, NEW n \in AttemptNos,
         run[j][n].phase = "function",
         run[j][n].at \in {"record-rejection", "record-escalation",
                           "record-result"},
         NEW st \in {"succeeded", "failed"}, NEW pr \in AttemptNos \cup {None},
         run[j][n].at = "record-result" => st = "succeeded",
         st = "succeeded" => pr \in 1 .. Len(prs), Resolve(j, n, st, pr)
  PROVE  PipelineIInv'
<1> PICK r : r = run[j][n]
  OBVIOUS
<1> PICK c : c = key[j]
  OBVIOUS
<1> PICK w : w = write[c]
  OBVIOUS
<1>1. /\ UNCHANGED <<rowVars, worldVars, forgeVars>>
      /\ UNCHANGED tokens /\ UNCHANGED faults
  BY DEF Resolve
<1>2. Active(j, n) /\ r.phase \in Working
  BY DEF Active, Working
<1>3. c \in Claims /\ TypeOK /\ RecordsAreTrue /\ Len(prs) \in Nat
  BY <1>2, ActiveIsSound, NumbersAreAttempts DEF PipelineIInv
<1>4. write \in [Claims -> Writes] /\ w \in Writes
  BY <1>3 DEF TypeOK
<1>5. CASE w.status = "claimed"
  <2> PICK u : u = [w EXCEPT !.status = st, !.pr = pr]
    OBVIOUS
  <2>1. /\ u \in Writes /\ u.status = st /\ u.pr = pr
        /\ u.attempts = w.attempts
    BY <1>4 DEF Writes
  <2>2. write' = [write EXCEPT ![c] = u] /\ SetRun(j, n, Returns(r, "done"))
    BY <1>5 DEF Resolve
  <2>3. /\ write' \in [Claims -> Writes] /\ write'[c] = u
        /\ \A d \in Claims : d # c => write'[d] = write[d]
    BY <1>3, <1>4, <2>1, <2>2
  <2>4. Grows
    <3>1. \A d \in Claims : write[d].status = "succeeded" =>
                            write'[d].status = "succeeded"
      BY <1>5, <2>3
    <3> QED
      BY <1>1, <1>3, <3>1 DEF Grows, forgeVars
  <2>5. "done" \in Results(r.at)
    BY DEF Results
  <2>6. /\ Follows(j, n, r, Returns(r, "done")) /\ Harmless(r, Returns(r, "done"))
        /\ Returns(r, "done").at = r.at
    <3>1. r.at # "authorise-write"
      OBVIOUS
    <3> QED
      BY <1>2, <2>5, <3>1, ReturnFollows
  <2>7. Holds(j, Returns(r, "done"))'
    <3>1. key'[j] = c
      BY <1>1 DEF rowVars
    <3> QED
      BY <2>1, <2>3, <2>6, <3>1 DEF Holds, TrueOf
  <2>8. /\ tokens' \subseteq Tokens /\ faults' \in 0 .. MaxFaults
        /\ \A d \in Claims : /\ write[d].attempts <= write'[d].attempts
                             /\ write'[d].status = "succeeded" =>
                                  write'[d].pr \in 1 .. Len(prs)
    <3>1. tokens' \subseteq Tokens /\ faults' \in 0 .. MaxFaults
      BY <1>1, <1>3 DEF TypeOK
    <3>2. ASSUME NEW d \in Claims
          PROVE  write[d].attempts <= write'[d].attempts
      <4>1. write[d].attempts \in Nat
        BY <1>4 DEF Writes
      <4>2. CASE d = c
        <5>1. write'[d].attempts = write[d].attempts
          BY <2>1, <2>3, <4>2
        <5> QED
          BY <4>1, <5>1
      <4>3. CASE d # c
        BY <2>3, <4>1, <4>3
      <4> QED
        BY <4>2, <4>3
    <3>3. ASSUME NEW d \in Claims, write'[d].status = "succeeded"
          PROVE  write'[d].pr \in 1 .. Len(prs)
      <4>1. CASE d = c
        <5>1. write'[d].pr = pr /\ write'[d].status = st
          BY <2>1, <2>3, <4>1
        <5> QED
          BY <3>3, <5>1
      <4>2. CASE d # c
        BY <1>3, <2>3, <3>3, <4>2 DEF RecordsAreTrue
      <4> QED
        BY <4>1, <4>2
    <3> QED
      BY <3>1, <3>2, <3>3
  <2> HIDE DEF Grows
  <2> QED
    BY <1>1, <2>2, <2>3, <2>4, <2>6, <2>7, <2>8, QuietStep
<1>6. CASE w.status # "claimed"
  <2>1. UNCHANGED storeVars /\ SetRun(j, n, End(r, "error"))
    BY <1>1, <1>6 DEF Resolve, storeVars
  <2>2. "error" \in Ends \ {"opened"}
    BY DEF Ends, Fails
  <2>3. /\ Follows(j, n, r, End(r, "error")) /\ Harmless(r, End(r, "error"))
        /\ End(r, "error").out = None
    BY <1>2, <2>2, EndFollows
  <2>4. Holds(j, End(r, "error"))'
    BY <2>3, EmptyHanded
  <2> QED
    BY <1>1, <2>1, <2>3, <2>4, SilentStep
<1> QED
  BY <1>5, <1>6

LEMMA RecordRefusalKeeps ==
  ASSUME PipelineIInv, NEW j \in Jobs, NEW n \in AttemptNos, RecordRefusal(j, n)
  PROVE  PipelineIInv'
<1>1. /\ run[j][n].phase = "function" /\ Resolve(j, n, "failed", None)
      /\ run[j][n].at \in {"record-rejection", "record-escalation"}
  BY DEF RecordRefusal, In
<1> QED
  BY <1>1, ResolveKeeps

\* The number that is written down was returned by the forge.
LEMMA RecordSuccessKeeps ==
  ASSUME PipelineIInv, NEW j \in Jobs, NEW n \in AttemptNos, RecordSuccess(j, n)
  PROVE  PipelineIInv'
<1>1. /\ run[j][n].phase = "function" /\ run[j][n].at = "record-result"
      /\ Resolve(j, n, "succeeded", run[j][n].seen["open-pr"])
  BY DEF RecordSuccess, In
<1> PICK pr : pr = run[j][n].seen["open-pr"]
  OBVIOUS
<1>2. pr \in 1 .. Len(prs)
  <2>1. Settled(j, run[j][n]) /\ "open-pr" \in Steps
    BY DEF PipelineIInv, AttemptsSound, Steps
  <2>2. pr # None
    BY <1>1, <2>1 DEF Settled, Came
  <2> QED
    BY <2>1, <2>2 DEF Settled, Honest, TrueOf
<1>3. pr \in AttemptNos
  BY <1>2, NumbersAreAttempts
<1> QED
  BY <1>1, <1>2, <1>3, ResolveKeeps

LEMMA GrantedRow ==
  ASSUME NEW w \in Writes, NEW u,
         u = [w EXCEPT !.status = "claimed", !.expired = FALSE,
                       !.attempts = @ + 1]
  PROVE  /\ u \in Writes /\ u.status = "claimed"
         /\ w.attempts \in Nat /\ u.attempts = w.attempts + 1
<1>1. w.attempts \in Nat /\ w.attempts + 1 \in Nat
      /\ w.pr \in AttemptNos \cup {None}
  BY DEF Writes
<1>2. u \in [status : {"claimed"}, expired : {FALSE},
             attempts : {w.attempts + 1}, pr : {w.pr}]
  BY DEF Writes
<1>3. /\ u.status = "claimed" /\ u.attempts = w.attempts + 1
      /\ u = [status |-> "claimed", expired |-> FALSE,
              attempts |-> w.attempts + 1, pr |-> w.pr]
  BY <1>2
<1> QED
  BY <1>1, <1>3 DEF Writes

\* A claim nobody holds is granted, and counted.
LEMMA ClaimKeeps ==
  ASSUME PipelineIInv, NEW j \in Jobs, NEW n \in AttemptNos, Claim(j, n)
  PROVE  PipelineIInv'
<1> PICK r : r = run[j][n]
  OBVIOUS
<1> PICK c : c = key[j]
  OBVIOUS
<1> PICK w : w = write[c]
  OBVIOUS
<1>1. /\ UNCHANGED <<rowVars, worldVars, forgeVars>>
      /\ UNCHANGED tokens /\ UNCHANGED faults
      /\ r.at = "authorise-write" /\ r.phase = "claim"
  BY DEF Claim, In
<1>2. Active(j, n) /\ r.phase \in Working
  BY <1>1 DEF Active, Working
<1>3. c \in Claims /\ TypeOK /\ RecordsAreTrue /\ Len(prs) \in Nat
  BY <1>2, ActiveIsSound, NumbersAreAttempts DEF PipelineIInv
<1>4. write \in [Claims -> Writes] /\ w \in Writes
  BY <1>3 DEF TypeOK
<1>5. CASE Claimable(w)
  <2> PICK u : u = [w EXCEPT !.status = "claimed", !.expired = FALSE,
                             !.attempts = @ + 1]
    OBVIOUS
  <2>1. /\ u \in Writes /\ u.status = "claimed"
        /\ w.attempts \in Nat /\ u.attempts = w.attempts + 1
    BY <1>4, GrantedRow
  <2> DEFINE s == Returns(r, "granted")
  <2>2. write' = [write EXCEPT ![c] = u] /\ SetRun(j, n, s)
    BY <1>5 DEF Claim
  <2>3. /\ write' \in [Claims -> Writes] /\ write'[c] = u
        /\ \A d \in Claims : d # c => write'[d] = write[d]
    BY <1>3, <1>4, <2>1, <2>2
  <2>4. Grows
    <3>1. \A d \in Claims : write[d].status = "succeeded" =>
                            write'[d].status = "succeeded"
      BY <1>5, <2>3 DEF Claimable
    <3> QED
      BY <1>1, <1>3, <3>1 DEF Grows, forgeVars
  <2>5. "granted" \in Results(r.at)
    BY <1>1 DEF Results
  <2>6. /\ Follows(j, n, r, s) /\ s.at = r.at /\ s.phase = "result"
        /\ Passed(r) => Passed(s)
    BY <1>2, <2>5, ReturnFollows
  <2> HIDE DEF s
  <2>7. Holds(j, s)'
    BY <1>1, <2>6 DEF Holds, TrueOf
  <2>8. run'[j][n] = s /\ OnlyRun(j, n)
    BY <1>3, <2>2, SetRunIs
  <2>9. AttemptsSound' /\ Sole' /\ RowsSound'
    BY <1>1, <2>4, <2>6, <2>7, <2>8, MovesAreSound
  <2>10. /\ key' = key /\ starts' = starts /\ result' = result
         /\ branch' = branch /\ refs' = refs /\ prs' = prs /\ open' = open
    BY <1>1 DEF rowVars, forgeVars
  <2>11. TypeOK'
    <3>1. /\ branch' \in Diffs \cup {None} /\ refs' \in Nat
          /\ prs' \in Seq([diff : Diffs, token : Tokens])
          /\ open' \in (1 .. Len(prs')) \cup {None}
          /\ tokens' \subseteq Tokens /\ faults' \in 0 .. MaxFaults
      BY <1>1, <1>3, <2>10 DEF TypeOK
    <3> QED
      BY <1>1, <1>3, <2>3, <2>8, <2>9, <3>1, TypesAfterMove
  <2>12. StartsCounted' /\ PullsCounted'
    BY <1>2, <2>6, <2>8, <2>10, PullsStayCounted
  <2>13. ClaimsCounted'
    <3> SUFFICES ASSUME NEW d \in Claims
                 PROVE  Cardinality(Holders(d)') <= write'[d].attempts
      BY DEF ClaimsCounted
    <3>1. /\ IsFiniteSet(Holders(d)) /\ Cardinality(Holders(d)) \in Nat
          /\ Cardinality(Holders(d)) <= write[d].attempts
          /\ write[d].attempts \in Nat
      BY <1>3, CountedAreFinite, FS_CardinalityType
         DEF PipelineIInv, ClaimsCounted, TypeOK, Writes
    <3>2. CASE d # c
      <4>1. Holders(d)' \subseteq Holders(d)
        BY <2>8, <2>10, <3>2 DEF Holders, OnlyRun, Granted
      <4>2. /\ Cardinality(Holders(d)') \in Nat
            /\ Cardinality(Holders(d)') <= Cardinality(Holders(d))
        BY <3>1, <4>1, PartIsNoLarger
      <4> QED
        BY <2>3, <3>1, <3>2, <4>2
    <3>3. CASE d = c
      <4>1. Holders(d)' \subseteq Holders(d) \cup {<<j, n>>}
        BY <2>8, <2>10 DEF Holders, OnlyRun, Granted
      <4>2. /\ IsFiniteSet(Holders(d) \cup {<<j, n>>})
            /\ Cardinality(Holders(d) \cup {<<j, n>>}) <= Cardinality(Holders(d)) + 1
        <5>1. CASE <<j, n>> \in Holders(d)
          <6>1. Holders(d) \cup {<<j, n>>} = Holders(d)
            BY <5>1
          <6> QED
            BY <3>1, <6>1
        <5>2. CASE <<j, n>> \notin Holders(d)
          <6>1. /\ IsFiniteSet(Holders(d) \cup {<<j, n>>})
                /\ Cardinality(Holders(d) \cup {<<j, n>>}) = Cardinality(Holders(d)) + 1
            BY <3>1, <5>2, OneMore
          <6> QED
            BY <3>1, <6>1
        <5> QED
          BY <5>1, <5>2
      <4>3. /\ Cardinality(Holders(d)') \in Nat
            /\ Cardinality(Holders(d) \cup {<<j, n>>}) \in Nat
            /\ Cardinality(Holders(d)') <= Cardinality(Holders(d) \cup {<<j, n>>})
        BY <4>1, <4>2, PartIsNoLarger
      <4>4. write'[d].attempts = write[d].attempts + 1
        BY <2>1, <2>3, <3>3
      <4> QED
        BY <3>1, <4>2, <4>3, <4>4
    <3> QED
      BY <3>2, <3>3
  <2>14. ForgeSound'
    BY <1>1, <2>10 DEF PipelineIInv, ForgeSound, PublishedLinksWork,
                       PublishedDiffsWereVetted
  <2>15. RecordsAreTrue'
    <3>1. ASSUME NEW i \in Jobs, result[i] = "opened"
          PROVE  write'[key[i]].status = "succeeded"
      <4>1. "opened" # None
        BY NoneAssumption DEF Ends, Succeeds
      <4>2. key[i] \in Claims
        BY <3>1, <4>1 DEF PipelineIInv, RowsSound
      <4> QED
        BY <1>3, <2>4, <3>1, <4>2 DEF RecordsAreTrue, Grows
    <3>2. ASSUME NEW d \in Claims, write'[d].status = "succeeded"
          PROVE  write'[d].pr \in 1 .. Len(prs)
      BY <1>3, <2>1, <2>3, <3>2 DEF RecordsAreTrue
    <3> QED
      BY <2>10, <3>1, <3>2 DEF RecordsAreTrue
  <2> QED
    BY <2>9, <2>11, <2>12, <2>13, <2>14, <2>15 DEF PipelineIInv
<1>6. CASE ~ Claimable(w)
  <2> DEFINE s == Returns(r, "already-written")
  <2>1. UNCHANGED storeVars /\ SetRun(j, n, s)
    BY <1>1, <1>6 DEF Claim, storeVars
  <2>2. "already-written" \in Results(r.at)
    BY <1>1 DEF Results
  <2>3. Follows(j, n, r, s) /\ Harmless(r, s) /\ s.at = r.at
    BY <1>2, <2>2, ReturnFollows
  <2> HIDE DEF s
  <2>4. Holds(j, s)'
    BY <1>1, <2>3 DEF Holds, TrueOf
  <2> QED
    BY <1>1, <2>1, <2>3, <2>4, SilentStep
<1> QED
  BY <1>5, <1>6

\* A step that creates the branch or opens a pull request, all but what it
\* does to the forge.
LEMMA ForgeStep ==
  ASSUME PipelineIInv, NEW j \in Jobs, NEW n \in AttemptNos, NEW s,
         SetRun(j, n, s), Follows(j, n, run[j][n], s),
         Granted(s) => Granted(run[j][n]), Holds(j, s)',
         UNCHANGED <<rowVars, storeVars, worldVars, faults>>,
         branch' \in Diffs \cup {None}, refs' \in Nat,
         prs' \in Seq([diff : Diffs, token : Tokens]),
         open' \in (1 .. Len(prs')) \cup {None}, Len(prs) <= Len(prs'),
         PullsCounted', ForgeSound'
  PROVE  PipelineIInv'
<1>1. run'[j][n] = s /\ OnlyRun(j, n) /\ Active(j, n) /\ TypeOK
  BY SetRunIs DEF PipelineIInv, Follows, Active
<1>2. /\ key' = key /\ starts' = starts /\ result' = result
      /\ tokens' = tokens /\ write' = write /\ faults' = faults
  BY DEF rowVars, storeVars
<1>3. Grows
  <2>1. Len(prs) \in Nat /\ Len(prs') \in Nat
    BY <1>1, LenProperties DEF TypeOK
  <2> QED
    BY <1>2, <2>1 DEF Grows
<1>4. AttemptsSound' /\ Sole' /\ RowsSound'
  <2>1. UNCHANGED rowVars
    OBVIOUS
  <2> QED
    BY <1>1, <1>3, <2>1, MovesAreSound
<1>5. TypeOK'
  <2>1. /\ write' \in [Claims -> Writes] /\ tokens' \subseteq Tokens
        /\ faults' \in 0 .. MaxFaults
    BY <1>1, <1>2 DEF TypeOK
  <2>2. UNCHANGED rowVars /\ UNCHANGED worldVars
    OBVIOUS
  <2> QED
    BY <1>1, <1>4, <2>1, <2>2, TypesAfterMove
<1>6. StartsCounted'
  BY <1>1, <1>2, StartsStayCounted
<1>7. ClaimsCounted'
  <2>1. \A c \in Claims : /\ write'[c].attempts \in Nat
                          /\ write[c].attempts <= write'[c].attempts
    BY <1>1, <1>2 DEF TypeOK, Writes
  <2> QED
    BY <1>1, <1>2, <2>1, ClaimsStayCounted
<1>8. RecordsAreTrue'
  <2>1. RecordsAreTrue
    BY DEF PipelineIInv
  <2> QED
    BY <1>2, <1>3, <2>1 DEF RecordsAreTrue, Grows
<1> QED
  BY <1>4, <1>5, <1>6, <1>7, <1>8 DEF PipelineIInv

\* The branch is created once, and whoever created it is about to open its
\* pull request.
LEMMA CreateRefKeeps ==
  ASSUME PipelineIInv, NEW j \in Jobs, NEW n \in AttemptNos, CreateRef(j, n)
  PROVE  PipelineIInv'
<1> PICK r : r = run[j][n]
  OBVIOUS
<1>1. /\ r.phase = "ref" /\ r.at = "open-pr"
      /\ UNCHANGED <<rowVars, storeVars, worldVars, faults>>
      /\ prs' = prs /\ open' = open
  BY DEF CreateRef, In
<1>2. /\ r.phase \in Working \ {"pull", "result"} /\ Active(j, n)
      /\ TypeOK /\ PullsCounted
  BY <1>1 DEF Working, Active, PipelineIInv
<1>3. Settled(j, r)
  BY <1>2, ActiveIsSound
<1>4. CASE branch = None
  <2> DEFINE s == InPhase(r, "pull")
  <2>1. /\ branch' = r.seen["generate-migration"] /\ refs' = refs + 1
        /\ SetRun(j, n, s)
    BY <1>4 DEF CreateRef, InPhase
  <2>2. /\ Follows(j, n, r, s)
        /\ Granted(s) => Granted(r)
        /\ s.phase = "pull" /\ s.at = "open-pr" /\ s.out = None
    BY <1>1, <1>2, PhaseFollows
  <2> HIDE DEF s
  <2>3. Holds(j, s)'
    BY <2>2, EmptyHanded
  <2>4. run'[j][n] = s /\ OnlyRun(j, n)
    BY <1>2, <2>1, SetRunIs
  <2>5. branch' \in Diffs /\ Verdict[branch'] = "allow"
    <3>1. r.seen["evaluate-policy"] = "allow" /\ StepLog(r.seen)
      BY <1>1, <1>3 DEF Settled, Came, AttemptOK
    <3>2. /\ {"evaluate-policy", "generate-migration"} \subseteq Steps
          /\ Results("generate-migration") = Diffs
          /\ "allow" \in Results("evaluate-policy")
      BY DEF Steps, Results
    <3>3. "allow" # None
      BY <3>2, ResultsAreNotNone
    <3>4. TrueOf(j, r.seen, "evaluate-policy", "allow")
      BY <1>3, <3>1, <3>2, <3>3 DEF Settled, Honest
    <3> QED
      BY <2>1, <3>1, <3>2, <3>4 DEF TrueOf, StepLog
  <2>6. PullsCounted'
    <3> DEFINE p == <<j, n>>
    <3>1. p \notin Pulling /\ p \in Approaching
      BY <1>1 DEF Pulling, Approaching, Passed
    <3>2. Pulling' \subseteq Pulling \cup {p}
      BY <2>4 DEF Pulling, OnlyRun
    <3>3. Approaching' \subseteq Approaching \ {p}
      BY <2>2, <2>4 DEF Approaching, OnlyRun, Passed
    <3> HIDE DEF p
    <3>4. /\ IsFiniteSet(Pulling) /\ IsFiniteSet(Approaching)
          /\ Cardinality(Started) \in Nat
      BY CountedAreFinite
    <3>5. /\ Cardinality(Pulling) \in Nat /\ Cardinality(Pulling') \in Nat
          /\ Cardinality(Pulling') <= Cardinality(Pulling) + 1
      <4>1. /\ IsFiniteSet(Pulling \cup {p}) /\ Cardinality(Pulling) \in Nat
            /\ Cardinality(Pulling \cup {p}) = Cardinality(Pulling) + 1
        BY <3>1, <3>4, OneMore
      <4> QED
        BY <3>2, <4>1, PartIsNoLarger
    <3>6. /\ Cardinality(Approaching) \in Nat /\ Cardinality(Approaching') \in Nat
          /\ Cardinality(Approaching') <= Cardinality(Approaching) - 1
      <4>1. /\ IsFiniteSet(Approaching \ {p})
            /\ Cardinality(Approaching \ {p}) = Cardinality(Approaching) - 1
        BY <3>1, <3>4, OneLess
      <4> QED
        BY <3>3, <3>4, <4>1, PartIsNoLarger, FS_CardinalityType
    <3>7. Started' = Started
      BY <1>1 DEF rowVars, Started
    <3>8. Len(prs) \in Nat /\ refs \in Nat
      BY NumbersAreAttempts
    <3> QED
      BY <1>1, <1>2, <2>1, <3>4, <3>5, <3>6, <3>7, <3>8 DEF PullsCounted
  <2>7. ForgeSound'
    BY <1>1, <2>5 DEF PipelineIInv, ForgeSound, PublishedLinksWork,
                      PublishedDiffsWereVetted, storeVars
  <2>8. /\ branch' \in Diffs \cup {None} /\ refs' \in Nat
        /\ prs' \in Seq([diff : Diffs, token : Tokens])
        /\ open' \in (1 .. Len(prs')) \cup {None} /\ Len(prs) <= Len(prs')
    BY <1>1, <1>2, <2>1, <2>5, NumbersAreAttempts DEF TypeOK
  <2> QED
    BY <1>1, <2>1, <2>2, <2>3, <2>6, <2>7, <2>8, ForgeStep
<1>5. CASE branch # None
  <2>1. SetRun(j, n, End(r, "error")) /\ UNCHANGED forgeVars
    BY <1>1, <1>5 DEF CreateRef, forgeVars
  <2>2. "error" \in Ends \ {"opened"}
    BY DEF Ends, Fails
  <2>3. /\ Follows(j, n, r, End(r, "error")) /\ Harmless(r, End(r, "error"))
        /\ End(r, "error").out = None
    BY <1>2, <2>2, EndFollows
  <2>4. Holds(j, End(r, "error"))'
    BY <2>3, EmptyHanded
  <2> QED
    BY <1>1, <2>1, <2>3, <2>4, SilentStep
<1> QED
  BY <1>4, <1>5

\* A pull request takes the place of an attempt that was about to open one.
LEMMA CreatePullRequestKeeps ==
  ASSUME PipelineIInv, NEW j \in Jobs, NEW n \in AttemptNos,
         CreatePullRequest(j, n)
  PROVE  PipelineIInv'
<1> PICK r : r = run[j][n]
  OBVIOUS
<1>1. /\ r.phase = "pull" /\ r.at = "open-pr"
      /\ UNCHANGED <<rowVars, storeVars, worldVars, faults>>
      /\ branch' = branch /\ refs' = refs
  BY DEF CreatePullRequest, In
<1>2. /\ r.phase \in Working /\ Active(j, n) /\ r.at # "authorise-write"
      /\ TypeOK /\ PullsCounted
  BY <1>1 DEF Working, Active, PipelineIInv
<1>3. Settled(j, r)
  BY <1>2, ActiveIsSound
<1>4. CASE branch # None /\ open = None
  <2> PICK v : v = Len(prs) + 1
    OBVIOUS
  <2> PICK pr : pr = [diff |-> branch, token |-> r.seen["mint-opt-out-token"]]
    OBVIOUS
  <2> DEFINE s == Returns(r, v)
             p == <<j, n>>
  <2>1. prs' = Append(prs, pr) /\ open' = v /\ SetRun(j, n, s)
    BY <1>4 DEF CreatePullRequest
  <2>2. r.seen["mint-opt-out-token"] \in tokens
    <3>1. "mint-opt-out-token" \in Steps
      BY DEF Steps
    <3> QED
      BY <1>1, <1>3, <3>1 DEF Settled, Came, Honest, TrueOf
  <2>3. pr \in [diff : Diffs, token : Tokens]
    BY <1>2, <1>4, <2>2 DEF TypeOK
  <2>4. /\ prs' \in Seq([diff : Diffs, token : Tokens])
        /\ Len(prs') = Len(prs) + 1 /\ prs'[Len(prs) + 1] = pr
        /\ \A i \in 1 .. Len(prs) : prs'[i] = prs[i]
    BY <1>2, <2>1, <2>3, AppendProperties DEF TypeOK
  <2>5. /\ IsFiniteSet(Pulling) /\ IsFiniteSet(Approaching)
        /\ Cardinality(Started) \in Nat
    BY CountedAreFinite
  <2>6. p \in Pulling
    BY <1>1 DEF Pulling
  <2>7. /\ Len(prs) \in Nat /\ refs \in Nat
    BY NumbersAreAttempts
  <2>8. v \in AttemptNos
    <3>1. Cardinality(Pulling) \in Nat /\ Cardinality(Pulling) # 0
      BY <2>5, <2>6, FS_CardinalityType, FS_EmptySet
    <3>2. Cardinality(Approaching) \in Nat /\ Cardinality(Started) <= MaxStarts
      BY <2>5, FS_CardinalityType DEF PipelineIInv, StartsCounted
    <3>3. v <= MaxStarts
      BY <1>2, <2>5, <2>7, <3>1, <3>2, PipelineBounds DEF PullsCounted
    <3> QED
      BY <2>7, <3>3, PipelineBounds DEF AttemptNos
  <2>9. v \in Results(r.at)
    BY <1>1, <2>8 DEF Results
  <2>10. /\ Follows(j, n, r, s) /\ Harmless(r, s) /\ s.phase = "result"
         /\ s.at = "open-pr" /\ s.out = v
    BY <1>1, <1>2, <2>9, ReturnFollows
  <2> HIDE DEF s
  <2>11. Holds(j, s)'
    <3>1. v \in 1 .. Len(prs')
      BY <2>4, <2>7
    <3> QED
      BY <2>10, <3>1 DEF Holds, TrueOf
  <2>12. run'[j][n] = s /\ OnlyRun(j, n)
    BY <1>2, <2>1, SetRunIs
  <2>13. PullsCounted'
    <3>1. Pulling' \subseteq Pulling \ {p}
      BY <2>10, <2>12 DEF Pulling, OnlyRun
    <3>2. Approaching' \subseteq Approaching
      BY <1>1, <2>10, <2>12 DEF Approaching, OnlyRun, Passed
    <3> HIDE DEF p
    <3>3. /\ Cardinality(Pulling) \in Nat /\ Cardinality(Pulling') \in Nat
          /\ Cardinality(Pulling') <= Cardinality(Pulling) - 1
      <4>1. /\ IsFiniteSet(Pulling \ {p})
            /\ Cardinality(Pulling \ {p}) = Cardinality(Pulling) - 1
        BY <2>5, <2>6, OneLess
      <4> QED
        BY <2>5, <3>1, <4>1, PartIsNoLarger, FS_CardinalityType
    <3>4. /\ Cardinality(Approaching) \in Nat /\ Cardinality(Approaching') \in Nat
          /\ Cardinality(Approaching') <= Cardinality(Approaching)
      BY <2>5, <3>2, PartIsNoLarger
    <3>5. Started' = Started
      BY <1>1 DEF rowVars, Started
    <3> QED
      BY <1>1, <1>2, <2>4, <2>5, <2>7, <3>3, <3>4, <3>5 DEF PullsCounted
  <2>14. ForgeSound'
    <3>1. tokens' = tokens /\ ForgeSound
      BY <1>1 DEF storeVars, PipelineIInv
    <3>2. Verdict[pr.diff] = "allow" /\ pr.token \in tokens
      BY <1>4, <2>2, <3>1 DEF ForgeSound
    <3>3. ASSUME NEW i \in 1 .. Len(prs')
          PROVE  prs'[i].token \in tokens /\ Verdict[prs'[i].diff] = "allow"
      <4>1. CASE i = Len(prs) + 1
        BY <2>4, <3>2, <4>1
      <4>2. CASE i \in 1 .. Len(prs)
        BY <2>4, <3>1, <4>2
           DEF ForgeSound, PublishedLinksWork, PublishedDiffsWereVetted
      <4> QED
        BY <2>4, <2>7, <4>1, <4>2
    <3> QED
      BY <1>1, <3>1, <3>3
         DEF ForgeSound, PublishedLinksWork, PublishedDiffsWereVetted
  <2>15. /\ branch' \in Diffs \cup {None} /\ refs' \in Nat
         /\ open' \in (1 .. Len(prs')) \cup {None} /\ Len(prs) <= Len(prs')
    BY <1>1, <1>2, <2>1, <2>4, <2>7 DEF TypeOK
  <2> QED
    BY <1>1, <2>1, <2>4, <2>10, <2>11, <2>13, <2>14, <2>15, ForgeStep
       DEF Harmless
<1>5. CASE ~ (branch # None /\ open = None)
  <2>1. /\ SetRun(j, n, IF open # None THEN Returns(r, open) ELSE End(r, "error"))
        /\ UNCHANGED forgeVars
    BY <1>1, <1>5 DEF CreatePullRequest, forgeVars
  <2>2. CASE open # None
    <3> PICK v : v = open
      OBVIOUS
    <3>1. v \in 1 .. Len(prs)
      BY <1>2, <2>2 DEF TypeOK
    <3>2. v \in Results(r.at)
      BY <1>1, <3>1, NumbersAreAttempts DEF Results
    <3>3. /\ Follows(j, n, r, Returns(r, v)) /\ Harmless(r, Returns(r, v))
          /\ Returns(r, v).at = r.at /\ Returns(r, v).out = v
      BY <1>2, <3>2, ReturnFollows
    <3>4. Holds(j, Returns(r, v))'
      BY <1>1, <2>1, <3>1, <3>3 DEF Holds, TrueOf, forgeVars
    <3> QED
      BY <1>1, <2>1, <2>2, <3>3, <3>4, SilentStep
  <2>3. CASE open = None
    <3>1. "error" \in Ends \ {"opened"}
      BY DEF Ends, Fails
    <3>2. /\ Follows(j, n, r, End(r, "error")) /\ Harmless(r, End(r, "error"))
          /\ End(r, "error").out = None
      BY <1>2, <3>1, EndFollows
    <3>3. Holds(j, End(r, "error"))'
      BY <3>2, EmptyHanded
    <3> QED
      BY <1>1, <2>1, <2>3, <3>2, <3>3, SilentStep
  <2> QED
    BY <2>2, <2>3
<1> QED
  BY <1>4, <1>5

-----------------------------------------------------------------------------
(* One lemma per action: commit and report *)

\* What may follow when the job row changed too, and the log with it: only
\* the agreement with the log has to be looked at again.
LEMMA SettledIf ==
  ASSUME NEW j \in Jobs, NEW r, Settled(j, r), Grows,
         key'[j] = key[j], key[j] \in Claims, Agrees(j, r)'
  PROVE  Settled(j, r)'
<1>1. Honest(j, r.seen)'
  BY HonestyStays DEF Settled
<1>2. AttemptOK(r)' /\ Placed(r)' /\ Came(r)'
  BY DEF Settled, AttemptOK, Placed, Came
<1>3. (r.at = "opened" => write[key[j]].status = "succeeded")'
  BY DEF Settled, Grows
<1> QED
  BY <1>1, <1>2, <1>3 DEF Settled

\* Truth, when nothing but job rows and attempts change.
LEMMA NothingIsTakenBack ==
  ASSUME PipelineIInv, UNCHANGED <<storeVars, prs>>
  PROVE  Grows
BY NumbersAreAttempts DEF Grows, storeVars

\* An attempt after its commit.
CommittedAt(a) == [NoAttempt EXCEPT !.phase = "committed", !.at = a]

LEMMA CommittedShape ==
  ASSUME NEW a
  PROVE  CommittedAt(a) = [phase |-> "committed", at |-> a, out |-> None,
                           seen |-> NoSteps, own |-> {}, tx |-> "none"]
<1> DEFINE s == CommittedAt(a)
<1>1. s \in [phase : {"committed"}, at : {a}, out : {None}, seen : {NoSteps},
            own : {{}}, tx : {"none"}]
  BY DEF CommittedAt, NoAttempt
<1> HIDE DEF s
<1>2. s = [phase |-> "committed", at |-> a, out |-> None, seen |-> NoSteps,
           own |-> {}, tx |-> "none"]
  BY <1>1
<1> QED
  BY <1>2 DEF s

LEMMA CommittedFollows ==
  ASSUME NEW j \in Jobs, NEW n \in AttemptNos, NEW r, r.phase = "returned",
         Settled(j, r)
  PROVE  /\ Follows(j, n, r, CommittedAt(r.at))
         /\ Harmless(r, CommittedAt(r.at)) /\ Holds(j, CommittedAt(r.at))'
<1> DEFINE s == CommittedAt(r.at)
<1>1. s = [phase |-> "committed", at |-> r.at, out |-> None, seen |-> NoSteps,
           own |-> {}, tx |-> "none"]
  BY CommittedShape
<1>2. r.at \in Ends /\ r.at \notin Steps
  BY DEF Settled, Placed, Ends, Succeeds, Fails, Kills, Steps
<1> HIDE DEF s
<1>3. AttemptOK(s)
  BY <1>1, <1>2 DEF AttemptOK, Phases, StepLog, NoSteps
<1>4. Placed(s)
  BY <1>1, <1>2 DEF Placed
<1>5. Came(s)
  BY <1>1, <1>2 DEF Came, Steps
<1>6. Honest(j, s.seen) /\ Agrees(j, s)
  BY <1>1 DEF Honest, NoSteps, Agrees
<1>7. Settled(j, s)
  BY <1>1, <1>3, <1>4, <1>5, <1>6 DEF Settled
<1>8. Follows(j, n, r, s) /\ Harmless(r, s)
  BY <1>1, <1>7 DEF Follows, Harmless, Passed, Granted
<1>9. Holds(j, s)'
  BY <1>1, EmptyHanded
<1> QED
  BY <1>8, <1>9 DEF s

\* The steps an attempt recorded are committed: nobody else had them, and
\* what it was given for the others was committed already.
LEMMA CommitKeeps ==
  ASSUME PipelineIInv, NEW j \in Jobs, NEW n \in AttemptNos, Commit(j, n)
  PROVE  PipelineIInv'
<1> PICK r : r = run[j][n]
  OBVIOUS
<1> DEFINE s == CommittedAt(r.at)
<1>1. /\ r.phase = "returned" /\ SetRun(j, n, s)
      /\ UNCHANGED <<state, key, starts, result, storeVars, worldVars,
                     forgeVars, faults>>
  BY DEF Commit, CommittedAt
<1>2. Active(j, n) /\ TypeOK
  BY <1>1 DEF Active, PipelineIInv
<1>3. Settled(j, r) /\ state[j] # "none" /\ key[j] \in Claims
  BY <1>2, ActiveIsSound
<1>4. Follows(j, n, r, s) /\ Harmless(r, s) /\ Holds(j, s)'
  BY <1>1, <1>3, CommittedFollows
<1>5. s = [phase |-> "committed", at |-> r.at, out |-> None, seen |-> NoSteps,
           own |-> {}, tx |-> "none"]
  BY CommittedShape
<1> HIDE DEF s
<1>6. CASE r.tx # "open"
  <2>1. log' = log
    BY <1>6 DEF Commit
  <2>2. UNCHANGED <<rowVars, storeVars, worldVars, forgeVars>> /\ UNCHANGED faults
    BY <1>1, <2>1 DEF rowVars
  <2> QED
    BY <1>1, <1>4, <2>2, SilentStep
<1>7. CASE r.tx = "open"
  <2>1. /\ log' = [i \in Jobs |-> log'[i]]
        /\ log'[j] = [k \in Steps |-> log'[j][k]]
        /\ \A k \in Steps : /\ k \in r.own => log'[j][k] = r.seen[k]
                            /\ k \notin r.own => log'[j][k] = log[j][k]
        /\ \A i \in Jobs : i # j => log'[i] = log[i]
    <3>1. log' = [log EXCEPT ![j] = [k \in Steps |->
                    IF k \in r.own THEN r.seen[k] ELSE log[j][k]]]
      BY <1>7 DEF Commit
    <3>2. log = [i \in Jobs |-> log[i]]
      BY <1>2 DEF TypeOK
    <3> QED
      BY <3>1, <3>2
  <2>2. /\ state' = state /\ key' = key /\ starts' = starts /\ result' = result
        /\ tokens' = tokens /\ write' = write /\ prs' = prs /\ refs' = refs
        /\ branch' = branch /\ open' = open /\ faults' = faults
        /\ suppressed' = suppressed /\ revoked' = revoked
    BY <1>1 DEF storeVars, forgeVars, worldVars
  <2>3. run'[j][n] = s /\ OnlyRun(j, n)
    BY <1>1, <1>2, SetRunIs
  <2>4. Grows
    <3>1. UNCHANGED <<storeVars, prs>>
      BY <2>2 DEF storeVars
    <3> QED
      BY <3>1, NothingIsTakenBack
  <2>5. AttemptOK(r) /\ r.own \in SUBSET Steps /\ StepLog(r.seen)
    BY <1>3, AttemptShape DEF Settled
  <2>6. state[j] = "deleted" => \A k \in Steps : log'[j][k] = None
    BY <1>3, <1>7, <2>1 DEF Settled, Agrees, PipelineIInv, RowsSound
  <2>7. ASSUME state[j] # "deleted", NEW k \in Steps
        PROVE  /\ k \in r.own => log[j][k] = None /\ r.seen[k] # None
               /\ r.seen[k] # None => log'[j][k] = r.seen[k]
               /\ log[j][k] # None => log'[j][k] = log[j][k]
    BY <1>3, <1>7, <2>1, <2>7 DEF Settled, Agrees
  <2>8. AttemptsSound'
    <3> SUFFICES ASSUME NEW i \in Jobs, NEW m \in AttemptNos
                 PROVE  Settled(i, run[i][m])' /\ Holds(i, run[i][m])'
      BY DEF AttemptsSound
    <3> PICK q : q = run'[i][m]
      OBVIOUS
    <3>1. CASE i = j /\ m = n
      <4>1. Agrees(j, s)'
        BY <1>5 DEF Agrees
      <4>2. Settled(j, s)'
        BY <1>3, <1>4, <2>2, <2>4, <4>1, SettledIf DEF Follows
      <4> QED
        BY <1>4, <2>3, <3>1, <4>2, SoundAfter
    <3>2. CASE ~ (i = j /\ m = n) /\ state[i] = "none"
      <4>1. run'[i][m] = NoAttempt
        BY <2>3, <3>2 DEF OnlyRun, PipelineIInv, RowsSound
      <4> QED
        BY <4>1, BlankIsSound, SoundAfter
    <3>3. CASE ~ (i = j /\ m = n) /\ state[i] # "none"
      <4>1. q = run[i][m]
        BY <2>3, <3>3 DEF OnlyRun
      <4>2. Settled(i, q) /\ Holds(i, q) /\ key[i] \in Claims
        BY <3>3, <4>1 DEF PipelineIInv, AttemptsSound, RowsSound
      <4>3. Agrees(i, q)'
        <5>1. CASE i # j
          BY <2>1, <2>2, <4>2, <5>1 DEF Settled, Agrees
        <5>2. CASE i = j /\ state[j] = "deleted"
          BY <2>2, <4>2, <5>2 DEF Settled, Agrees
        <5>3. CASE i = j /\ state[j] # "deleted"
          <6> SUFFICES ASSUME q.tx = "open"
                       PROVE  /\ \A k \in Steps : q.seen[k] # None =>
                                   k \in q.own \/ q.seen[k] = log'[j][k]
                              /\ \A k \in q.own :
                                   log'[j][k] = None /\ q.seen[k] # None
            BY <2>2, <5>3 DEF Agrees
          <6>1. q.own \in SUBSET Steps
            BY <4>2, AttemptShape DEF Settled
          <6>2. ASSUME NEW k \in Steps, q.seen[k] # None, k \notin q.own
                PROVE  q.seen[k] = log'[j][k]
            <7>1. q.seen[k] = log[j][k]
              BY <4>2, <5>3, <6>2 DEF Settled, Agrees
            <7> QED
              BY <2>7, <5>3, <6>2, <7>1
          <6>3. ASSUME NEW k \in q.own
                PROVE  log'[j][k] = None /\ q.seen[k] # None
            <7>1. k \in Steps /\ log[j][k] = None /\ q.seen[k] # None
              BY <4>2, <5>3, <6>1, <6>3 DEF Settled, Agrees
            <7>2. k \notin r.own
              BY <1>7, <3>3, <4>1, <5>3, <6>3, <7>1 DEF PipelineIInv, Sole
            <7> QED
              BY <2>1, <7>1, <7>2
          <6> QED
            BY <6>2, <6>3
        <5> QED
          BY <5>1, <5>2, <5>3
      <4>4. Settled(i, q)'
        BY <2>2, <2>4, <4>2, <4>3, SettledIf
      <4>5. Holds(i, q)'
        BY <2>2, <2>4, <4>2, HoldsStays
      <4> QED
        BY <4>4, <4>5, SoundAfter
    <3> QED
      BY <3>1, <3>2, <3>3
  <2>9. Sole'
    BY <1>5, <2>3 DEF PipelineIInv, Sole, OnlyRun
  <2>10. Honest(j, log[j])'
    <3> SUFFICES ASSUME NEW k \in Steps, log'[j][k] # None
                 PROVE  TrueOf(j, log[j], k, log[j][k])'
      BY DEF Honest
    <3>1. state[j] # "deleted"
      BY <2>6
    <3>2. "generate-migration" \in Steps
      BY DEF Steps
    <3>3. CASE k \in r.own
      <4>1. log'[j][k] = r.seen[k] /\ TrueOf(j, r.seen, k, r.seen[k])
        BY <1>3, <2>1, <2>7, <3>1, <3>3 DEF Settled, Honest
      <4>2. k = "evaluate-policy" =>
              log'[j]["generate-migration"] = r.seen["generate-migration"]
        BY <2>7, <3>1, <3>2, <4>1 DEF TrueOf
      <4> QED
        BY <2>2, <4>1, <4>2 DEF TrueOf
    <3>4. CASE k \notin r.own
      <4>1. log'[j][k] = log[j][k] /\ TrueOf(j, log[j], k, log[j][k])
        BY <2>1, <3>4 DEF PipelineIInv, RowsSound, Honest
      <4>2. k = "evaluate-policy" =>
              log'[j]["generate-migration"] = log[j]["generate-migration"]
        BY <2>7, <3>1, <3>2, <4>1 DEF TrueOf
      <4> QED
        BY <2>2, <4>1, <4>2 DEF TrueOf
    <3> QED
      BY <3>3, <3>4
  <2>11. RowsSound'
    <3> SUFFICES ASSUME NEW i \in Jobs
                 PROVE  /\ Honest(i, log[i])'
                        /\ state[i] = "none" =>
                             \A m \in AttemptNos : run'[i][m] = NoAttempt
                        /\ state[i] \in {"none", "deleted"} =>
                             \A k \in Steps : log'[i][k] = None
      BY <2>2 DEF RowsSound, PipelineIInv
    <3>1. CASE i = j
      BY <1>3, <2>6, <2>10, <3>1
    <3>2. CASE i # j
      <4>1. /\ state[i] = "none" => \A m \in AttemptNos : run'[i][m] = NoAttempt
            /\ state[i] \in {"none", "deleted"} =>
                 \A k \in Steps : log'[i][k] = None
        BY <2>1, <2>3, <3>2 DEF OnlyRun, PipelineIInv, RowsSound
      <4>2. Honest(i, log[i])'
        BY <2>1, <2>2, <3>2 DEF PipelineIInv, RowsSound, Honest, TrueOf
      <4> QED
        BY <4>1, <4>2
    <3> QED
      BY <3>1, <3>2
  <2>12. TypeOK'
    <3>1. \A i \in Jobs : StepLog(log[i])'
      <4> SUFFICES ASSUME NEW i \in Jobs PROVE StepLog(log[i])'
        OBVIOUS
      <4>1. CASE i # j
        BY <1>2, <2>1, <4>1 DEF TypeOK, StepLog
      <4>2. CASE i = j
        BY <1>2, <2>1, <2>5, <4>2 DEF TypeOK, StepLog
      <4> QED
        BY <4>1, <4>2
    <3>2. \A i \in Jobs, m \in AttemptNos : AttemptOK(run[i][m])'
      BY <2>8 DEF AttemptsSound, Settled
    <3>3. run' = [i \in Jobs |-> [m \in AttemptNos |-> run'[i][m]]]
      BY <2>3 DEF OnlyRun
    <3>4. log' = [i \in Jobs |-> log'[i]]
      BY <2>1
    <3> QED
      BY <1>2, <2>2, <3>1, <3>2, <3>3, <3>4 DEF TypeOK
  <2>13. StartsCounted' /\ PullsCounted'
    BY <1>2, <1>4, <2>2, <2>3, PullsStayCounted DEF Harmless
  <2>14. ClaimsCounted'
    <3>1. \A c \in Claims : /\ write'[c].attempts \in Nat
                            /\ write[c].attempts <= write'[c].attempts
      BY <1>2, <2>2 DEF TypeOK, Writes
    <3> QED
      BY <1>4, <2>2, <2>3, <3>1, ClaimsStayCounted DEF Harmless
  <2>15. ForgeSound' /\ RecordsAreTrue'
    BY <2>2 DEF PipelineIInv, ForgeSound, PublishedLinksWork,
                PublishedDiffsWereVetted, RecordsAreTrue
  <2> QED
    BY <2>8, <2>9, <2>11, <2>12, <2>13, <2>14, <2>15 DEF PipelineIInv
<1> QED
  BY <1>6, <1>7

\* What a report does to the row: at most one running row ends or waits again.
LEMMA ReportMoves ==
  ASSUME TypeOK, NEW j \in Jobs, NEW n \in AttemptNos, Report(j, n)
  PROVE  /\ state' \in [Jobs -> Lifecycle!States]
         /\ \A i \in Jobs : state'[i] = state[i] \/
              (state[i] = "running" /\ state'[i] \notin {"none", "deleted"})
         /\ result' \in [Jobs -> Ends \cup {None}] \/ run[j][n].at \notin Ends
         /\ \A i \in Jobs : result'[i] = result[i] \/
              (i = j /\ state[j] = "running" /\ result'[i] = run[j][n].at)
<1> PICK e : e = run[j][n].at
  OBVIOUS
<1>1. state \in [Jobs -> Lifecycle!States] /\ result \in [Jobs -> Ends \cup {None}]
  BY DEF TypeOK
<1>h. PICK holds \in MayHoldLease(j, n) :
        IF state[j] = "running" /\ holds
        THEN /\ CASE e \in Succeeds -> Lifecycle!Finish(j, "succeeded")
                  [] e \in Kills    -> Lifecycle!Finish(j, "dead")
                  [] OTHER -> IF starts[j] >= MaxAttempts
                              THEN Lifecycle!Finish(j, "dead")
                              ELSE Lifecycle!Retry(j)
             /\ result' = [result EXCEPT ![j] = e]
        ELSE UNCHANGED <<state, result>>
  BY DEF Report
<1>2. CASE ~ (state[j] = "running" /\ holds)
  <2>1. UNCHANGED state /\ UNCHANGED result
    BY <1>h, <1>2
  <2> QED
    BY <1>1, <2>1
<1>3. CASE state[j] = "running" /\ holds
  <2>1. \E st \in {"succeeded", "dead", "waiting"} :
          state' = [i \in Jobs |-> IF i \in {j} THEN st ELSE state[i]]
    BY <1>h, <1>3 DEF Lifecycle!Finish, Lifecycle!Retry, Lifecycle!Move
  <2>2. result' = [result EXCEPT ![j] = e]
    BY <1>h, <1>3
  <2>3. /\ state' \in [Jobs -> Lifecycle!States]
        /\ \A i \in Jobs : state'[i] = state[i] \/
             (state[i] = "running" /\ state'[i] \notin {"none", "deleted"})
    BY <1>1, <1>3, <2>1 DEF Lifecycle!States, Lifecycle!Outcomes
  <2> QED
    BY <1>1, <1>3, <2>2, <2>3
<1> QED
  BY <1>2, <1>3

\* The report of an attempt that opened a pull request finds its write
\* resolved.
LEMMA ReportKeeps ==
  ASSUME PipelineIInv, NEW j \in Jobs, NEW n \in AttemptNos, Report(j, n)
  PROVE  PipelineIInv'
<1> PICK r : r = run[j][n]
  OBVIOUS
<1>1. /\ r.phase = "committed" /\ SetRun(j, n, NoAttempt)
      /\ UNCHANGED <<key, starts, log, storeVars, worldVars, forgeVars, faults>>
  BY DEF Report
<1>2. Active(j, n) /\ TypeOK
  BY <1>1 DEF Active, PipelineIInv
<1>3. Settled(j, r) /\ state[j] # "none" /\ key[j] \in Claims
  BY <1>2, ActiveIsSound
<1>4. r.at \in Ends
  BY <1>1, <1>3 DEF Settled, Placed
<1>5. /\ state' \in [Jobs -> Lifecycle!States]
      /\ result' \in [Jobs -> Ends \cup {None}]
      /\ \A i \in Jobs : state'[i] = state[i] \/
           (state[i] = "running" /\ state'[i] \notin {"none", "deleted"})
      /\ \A i \in Jobs : result'[i] = result[i] \/
           (i = j /\ state[j] = "running" /\ result'[i] = r.at)
  BY <1>2, <1>4, ReportMoves
<1>6. run'[j][n] = NoAttempt /\ OnlyRun(j, n)
  BY <1>1, <1>2, SetRunIs
<1>7. /\ key' = key /\ starts' = starts /\ log' = log
      /\ tokens' = tokens /\ write' = write /\ prs' = prs /\ refs' = refs
      /\ branch' = branch /\ open' = open /\ faults' = faults
      /\ suppressed' = suppressed /\ revoked' = revoked
  BY <1>1 DEF storeVars, forgeVars, worldVars
<1>8. Grows
  <2>1. UNCHANGED <<storeVars, prs>>
    BY <1>7 DEF storeVars
  <2> QED
    BY <2>1, NothingIsTakenBack
<1>9. AttemptsSound'
  <2> SUFFICES ASSUME NEW i \in Jobs, NEW m \in AttemptNos
               PROVE  Settled(i, run[i][m])' /\ Holds(i, run[i][m])'
    BY DEF AttemptsSound
  <2> PICK q : q = run'[i][m]
    OBVIOUS
  <2>1. CASE q = NoAttempt
    BY <2>1, BlankIsSound, SoundAfter
  <2>2. CASE q # NoAttempt
    <3>1. q = run[i][m]
      BY <1>6, <2>2 DEF OnlyRun
    <3>2. Settled(i, q) /\ Holds(i, q) /\ key[i] \in Claims
      BY <2>2, <3>1 DEF PipelineIInv, AttemptsSound, RowsSound
    <3>3. state'[i] = "deleted" <=> state[i] = "deleted"
      BY <1>5
    <3>4. Settled(i, q)' /\ Holds(i, q)'
      BY <1>7, <1>8, <3>2, <3>3, SettledStays, HoldsStays
    <3> QED
      BY <3>4, SoundAfter
  <2> QED
    BY <2>1, <2>2
<1>10. Sole'
  <2>1. NoAttempt.tx = "none"
    BY DEF NoAttempt
  <2> QED
    BY <1>6, <2>1 DEF PipelineIInv, Sole, OnlyRun
<1>11. RowsSound'
  <2> SUFFICES ASSUME NEW i \in Jobs
               PROVE  /\ Honest(i, log[i])'
                      /\ state'[i] = "none" =>
                           /\ result'[i] = None
                           /\ \A m \in AttemptNos : run'[i][m] = NoAttempt
                      /\ state'[i] # "none" => key'[i] \in Claims
                      /\ state'[i] \in {"none", "deleted"} =>
                           \A k \in Steps : log'[i][k] = None
    BY DEF RowsSound
  <2>1. Honest(i, log[i])'
    BY <1>7 DEF PipelineIInv, RowsSound, Honest, TrueOf
  <2>2. /\ state'[i] = "none" <=> state[i] = "none"
        /\ state'[i] = "deleted" <=> state[i] = "deleted"
    BY <1>5
  <2>3. state[i] = "none" => i # j
    BY <1>3
  <2>4. state[i] = "none" =>
          /\ result'[i] = None
          /\ \A m \in AttemptNos : run'[i][m] = NoAttempt
    BY <1>5, <1>6, <2>3 DEF PipelineIInv, RowsSound, OnlyRun
  <2> QED
    BY <1>7, <2>1, <2>2, <2>4 DEF PipelineIInv, RowsSound
<1>12. TypeOK'
  <2>1. \A i \in Jobs, m \in AttemptNos : AttemptOK(run[i][m])'
    BY <1>9 DEF AttemptsSound, Settled
  <2>2. run' = [i \in Jobs |-> [m \in AttemptNos |-> run'[i][m]]]
    BY <1>6 DEF OnlyRun
  <2>3. \A i \in Jobs : StepLog(log[i])'
    BY <1>2, <1>7 DEF TypeOK, StepLog
  <2> QED
    BY <1>2, <1>5, <1>7, <2>1, <2>2, <2>3 DEF TypeOK
<1>13. Harmless(r, NoAttempt)
  BY <1>1, NothingFollows
<1>14. StartsCounted' /\ PullsCounted'
  BY <1>2, <1>6, <1>7, <1>13, PullsStayCounted DEF Harmless
<1>15. ClaimsCounted'
  <2>1. \A c \in Claims : /\ write'[c].attempts \in Nat
                          /\ write[c].attempts <= write'[c].attempts
    BY <1>2, <1>7 DEF TypeOK, Writes
  <2> QED
    BY <1>6, <1>7, <1>13, <2>1, ClaimsStayCounted DEF Harmless
<1>16. ForgeSound'
  BY <1>7 DEF PipelineIInv, ForgeSound, PublishedLinksWork,
              PublishedDiffsWereVetted
<1>17. RecordsAreTrue'
  <2>1. ASSUME NEW i \in Jobs, result'[i] = "opened"
        PROVE  write'[key'[i]].status = "succeeded"
    <3>1. CASE result'[i] = result[i]
      BY <1>7, <2>1, <3>1 DEF PipelineIInv, RecordsAreTrue
    <3>2. CASE i = j /\ result'[i] = r.at
      BY <1>3, <1>7, <2>1, <3>2 DEF Settled
    <3> QED
      BY <1>5, <3>1, <3>2
  <2> QED
    BY <1>7, <2>1 DEF PipelineIInv, RecordsAreTrue
<1> QED
  BY <1>9, <1>10, <1>11, <1>12, <1>14, <1>15, <1>16, <1>17 DEF PipelineIInv

-----------------------------------------------------------------------------
(* One lemma per action: new attempts *)

\* The attempts of one job are among those counted.
LEMMA StartsFit ==
  ASSUME PipelineIInv, NEW j \in Jobs, Cardinality(Started) < MaxStarts
  PROVE  starts[j] \in Nat /\ starts[j] + 1 \in AttemptNos
<1>1. /\ starts[j] \in Nat /\ starts[j] \in 0 .. MaxStarts
      /\ IsFiniteSet(Started) /\ MaxStarts \in Nat
  BY PipelineBounds DEF PipelineIInv, StartsCounted, TypeOK
<1> DEFINE f == [i \in 1 .. starts[j] |-> <<j, i>>]
<1>2. f \in [1 .. starts[j] -> Started]
  BY <1>1 DEF Started, AttemptNos
<1>3. f \in Injection(1 .. starts[j], Started)
  BY <1>2 DEF Injection, IsInjective
<1>4. Cardinality(1 .. starts[j]) <= Cardinality(Started)
  BY <1>1, <1>3, FS_Injection
<1>5. Cardinality(1 .. starts[j]) = starts[j]
  BY <1>1, FS_Interval
<1>6. Cardinality(Started) \in Nat
  BY <1>1, FS_CardinalityType
<1> QED
  BY <1>1, <1>4, <1>5, <1>6 DEF AttemptNos

\* A fresh attempt knows nothing and owns nothing.
LEMMA FreshIsSound ==
  ASSUME NEW j \in Jobs
  PROVE  /\ Settled(j, Fresh)' /\ Holds(j, Fresh)'
         /\ Fresh.phase = "lookup" /\ Fresh.own = {} /\ ~ Granted(Fresh)
<1>1. Fresh = [phase |-> "lookup", at |-> "load-context", out |-> None,
               seen |-> NoSteps, own |-> {}, tx |-> "open"]
  <2> DEFINE s == Fresh
  <2>1. s \in [phase : {"lookup"}, at : {"load-context"}, out : {None},
               seen : {NoSteps}, own : {{}}, tx : {"open"}]
    BY DEF Fresh, NoAttempt
  <2> HIDE DEF s
  <2>2. s = [phase |-> "lookup", at |-> "load-context", out |-> None,
             seen |-> NoSteps, own |-> {}, tx |-> "open"]
    BY <2>1
  <2> QED
    BY <2>2 DEF s
<1> PICK s : s = Fresh
  OBVIOUS
<1>2. \A k \in Steps : NoSteps[k] = None
  BY DEF NoSteps
<1>3. AttemptOK(s)'
  BY <1>1 DEF AttemptOK, Phases, Steps, StepLog, NoSteps
<1>4. Placed(s)' /\ Came(s)'
  BY <1>1, <1>2 DEF Placed, Came, Steps
<1>5. Honest(j, s.seen)' /\ Agrees(j, s)'
  BY <1>1, <1>2 DEF Honest, Agrees
<1>6. s.at # "opened" /\ s.out = None
  BY <1>1
<1>7. Settled(j, s)' /\ Holds(j, s)'
  BY <1>3, <1>4, <1>5, <1>6 DEF Settled, Holds
<1> QED
  BY <1>1, <1>7 DEF Granted

LEMMA NewAttemptKeeps ==
  ASSUME PipelineIInv, NEW j \in Jobs, NewAttempt(j),
         state[j] \in {"waiting", "running"}, state' \in [Jobs -> Lifecycle!States],
         \A i \in Jobs : state'[i] = state[i] \/ (i = j /\ state'[i] = "running"),
         faults' \in 0 .. MaxFaults
  PROVE  PipelineIInv'
<1> PICK n : n = starts[j] + 1
  OBVIOUS
<1> DEFINE p == <<j, n>>
<1>1. /\ Cardinality(Started) < MaxStarts /\ SetRun(j, n, Fresh)
      /\ starts' = [starts EXCEPT ![j] = @ + 1]
      /\ UNCHANGED <<key, result, log, storeVars, worldVars, forgeVars>>
  BY DEF NewAttempt
<1>2. TypeOK
  BY DEF PipelineIInv
<1>3. starts[j] \in Nat /\ n \in AttemptNos
  BY <1>1, StartsFit
<1>4. /\ starts'[j] = n /\ \A i \in Jobs : i # j => starts'[i] = starts[i]
      /\ starts' \in [Jobs -> 0 .. MaxStarts]
  <2>1. n \in 0 .. MaxStarts
    BY <1>3, PipelineBounds DEF AttemptNos
  <2> QED
    BY <1>1, <1>2, <2>1 DEF TypeOK
<1>5. run'[j][n] = Fresh /\ OnlyRun(j, n)
  BY <1>1, <1>2, <1>3, SetRunIs
<1>6. /\ key' = key /\ result' = result /\ log' = log
      /\ tokens' = tokens /\ write' = write /\ prs' = prs /\ refs' = refs
      /\ branch' = branch /\ open' = open
      /\ suppressed' = suppressed /\ revoked' = revoked
  BY <1>1 DEF storeVars, forgeVars, worldVars
<1>7. /\ Settled(j, Fresh)' /\ Holds(j, Fresh)'
      /\ Fresh.phase = "lookup" /\ Fresh.own = {} /\ ~ Granted(Fresh)
  BY FreshIsSound
<1>8. Grows
  <2>1. UNCHANGED <<storeVars, prs>>
    BY <1>6 DEF storeVars
  <2> QED
    BY <2>1, NothingIsTakenBack
<1>9. \A i \in Jobs : /\ state'[i] = "none" <=> state[i] = "none"
                      /\ state'[i] = "deleted" <=> state[i] = "deleted"
  OBVIOUS
<1>10. AttemptsSound'
  <2> SUFFICES ASSUME NEW i \in Jobs, NEW m \in AttemptNos
               PROVE  Settled(i, run[i][m])' /\ Holds(i, run[i][m])'
    BY DEF AttemptsSound
  <2> PICK q : q = run'[i][m]
    OBVIOUS
  <2>1. CASE i = j /\ m = n
    BY <1>3, <1>5, <1>7, <2>1, SoundAfter
  <2>2. CASE ~ (i = j /\ m = n) /\ q = NoAttempt
    BY <2>2, BlankIsSound, SoundAfter
  <2>3. CASE ~ (i = j /\ m = n) /\ q # NoAttempt
    <3>1. q = run[i][m]
      BY <1>5, <2>3 DEF OnlyRun
    <3>2. Settled(i, q) /\ Holds(i, q) /\ key[i] \in Claims
      BY <2>3, <3>1 DEF PipelineIInv, AttemptsSound, RowsSound
    <3>3. Settled(i, q)' /\ Holds(i, q)'
      BY <1>6, <1>8, <1>9, <3>2, SettledStays, HoldsStays
    <3> QED
      BY <3>3, SoundAfter
  <2> QED
    BY <2>1, <2>2, <2>3
<1>11. Sole'
  BY <1>5, <1>7 DEF PipelineIInv, Sole, OnlyRun
<1>12. RowsSound'
  <2> SUFFICES ASSUME NEW i \in Jobs
               PROVE  /\ Honest(i, log[i])'
                      /\ state[i] = "none" =>
                           \A m \in AttemptNos : run'[i][m] = NoAttempt
    BY <1>6, <1>9 DEF PipelineIInv, RowsSound
  <2>1. Honest(i, log[i])'
    BY <1>6 DEF PipelineIInv, RowsSound, Honest, TrueOf
  <2>2. state[i] = "none" => \A m \in AttemptNos : run'[i][m] = NoAttempt
    BY <1>5 DEF PipelineIInv, RowsSound, OnlyRun
  <2> QED
    BY <2>1, <2>2
<1>13. TypeOK'
  <2>1. \A i \in Jobs, m \in AttemptNos : AttemptOK(run[i][m])'
    BY <1>10 DEF AttemptsSound, Settled
  <2>2. run' = [i \in Jobs |-> [m \in AttemptNos |-> run'[i][m]]]
    BY <1>5 DEF OnlyRun
  <2>3. \A i \in Jobs : StepLog(log[i])'
    BY <1>2, <1>6 DEF TypeOK, StepLog
  <2> QED
    BY <1>2, <1>4, <1>6, <2>1, <2>2, <2>3 DEF TypeOK
<1>14. /\ IsFiniteSet(Started) /\ Cardinality(Started) \in Nat
       /\ IsFiniteSet(Started') /\ Cardinality(Started') = Cardinality(Started) + 1
  <2>1. p \notin Started
    BY <1>3 DEF Started
  <2>2. Started' = Started \cup {p}
    <3>1. p \in Started'
      BY <1>3, <1>4 DEF Started, AttemptNos
    <3>2. Started \subseteq Started'
      <4> SUFFICES ASSUME NEW i \in Jobs, NEW m \in AttemptNos, m <= starts[i]
                   PROVE  m <= starts'[i]
        BY DEF Started
      <4>1. starts[i] \in Nat /\ m \in Nat
        BY <1>2 DEF TypeOK, AttemptNos
      <4> QED
        BY <1>3, <1>4, <4>1
    <3>3. ASSUME NEW i \in Jobs, NEW m \in AttemptNos, m <= starts'[i]
          PROVE  <<i, m>> \in Started \cup {p}
      <4>1. CASE i # j
        BY <1>4, <3>3, <4>1 DEF Started
      <4>2. CASE i = j
        <5>1. m = n \/ m <= starts[j]
          BY <1>3, <1>4, <3>3, <4>2 DEF AttemptNos
        <5> QED
          BY <4>2, <5>1 DEF Started
      <4> QED
        BY <4>1, <4>2
    <3>4. Started' \subseteq Started \cup {p}
      BY <3>3 DEF Started
    <3> QED
      BY <3>1, <3>2, <3>4
  <2> HIDE DEF p
  <2>3. IsFiniteSet(Started)
    BY DEF PipelineIInv, StartsCounted
  <2> QED
    BY <2>1, <2>2, <2>3, OneMore
<1>15. StartsCounted'
  <2>1. Cardinality(Started') <= MaxStarts
    BY <1>1, <1>14, PipelineBounds
  <2>2. ASSUME NEW i \in Jobs, NEW m \in AttemptNos, run'[i][m].phase # "none"
        PROVE  m <= starts'[i]
    <3>1. CASE i = j /\ m = n
      BY <1>3, <1>4, <3>1 DEF AttemptNos
    <3>2. CASE ~ (i = j /\ m = n)
      <4>1. m <= starts[i] /\ starts[i] \in Nat /\ m \in Nat
        BY <1>2, <1>5, <2>2, <3>2
           DEF OnlyRun, PipelineIInv, StartsCounted, Active, TypeOK, AttemptNos
      <4> QED
        BY <1>3, <1>4, <4>1
    <3> QED
      BY <3>1, <3>2
  <2> QED
    BY <1>14, <2>1, <2>2 DEF StartsCounted, Active
<1>16. PullsCounted'
  <2>1. Pulling' \subseteq Pulling
    BY <1>5, <1>7 DEF Pulling, OnlyRun
  <2>2. Approaching' \subseteq Approaching \cup {p}
    BY <1>5 DEF Approaching, OnlyRun, Passed
  <2>3. IsFiniteSet(Pulling) /\ IsFiniteSet(Approaching)
    BY CountedAreFinite
  <2>4. /\ Cardinality(Pulling) \in Nat /\ Cardinality(Pulling') \in Nat
        /\ Cardinality(Pulling') <= Cardinality(Pulling)
    BY <2>1, <2>3, PartIsNoLarger
  <2>5. p \notin Approaching
    <3>1. ~ Active(j, n)
      BY <1>3 DEF PipelineIInv, StartsCounted
    <3> QED
      BY <3>1 DEF Approaching, Passed, Active
  <2> HIDE DEF p
  <2>6. /\ Cardinality(Approaching) \in Nat /\ Cardinality(Approaching') \in Nat
        /\ Cardinality(Approaching') <= Cardinality(Approaching) + 1
    <3>1. /\ IsFiniteSet(Approaching \cup {p}) /\ Cardinality(Approaching) \in Nat
          /\ Cardinality(Approaching \cup {p}) = Cardinality(Approaching) + 1
      BY <2>3, <2>5, OneMore
    <3> QED
      BY <2>2, <3>1, PartIsNoLarger
  <2>7. Len(prs) \in Nat /\ refs \in Nat /\ PullsCounted
    BY NumbersAreAttempts DEF PipelineIInv
  <2> QED
    BY <1>6, <1>14, <2>4, <2>6, <2>7 DEF PullsCounted
<1>17. ClaimsCounted'
  <2>1. \A c \in Claims : /\ write'[c].attempts \in Nat
                          /\ write[c].attempts <= write'[c].attempts
    BY <1>2, <1>6 DEF TypeOK, Writes
  <2> QED
    BY <1>3, <1>5, <1>6, <1>7, <2>1, ClaimsStayCounted
<1>18. ForgeSound' /\ RecordsAreTrue'
  BY <1>6 DEF PipelineIInv, ForgeSound, PublishedLinksWork,
              PublishedDiffsWereVetted, RecordsAreTrue
<1> QED
  BY <1>10, <1>11, <1>12, <1>13, <1>15, <1>16, <1>17, <1>18 DEF PipelineIInv

LEMMA StartKeeps ==
  ASSUME PipelineIInv, NEW j \in Jobs, Start(j)
  PROVE  PipelineIInv'
<1>1. /\ NewAttempt(j) /\ faults' = faults /\ state[j] = "waiting"
      /\ state' = [i \in Jobs |-> IF i \in {j} THEN "running" ELSE state[i]]
  BY DEF Start, Lifecycle!Start, Lifecycle!Move
<1>2. /\ state \in [Jobs -> Lifecycle!States] /\ faults \in 0 .. MaxFaults
  BY DEF PipelineIInv, TypeOK
<1>3. state' \in [Jobs -> Lifecycle!States]
  BY <1>1, <1>2 DEF Lifecycle!States
<1>4. \A i \in Jobs : state'[i] = state[i] \/ (i = j /\ state'[i] = "running")
  BY <1>1
<1> QED
  BY <1>1, <1>2, <1>3, <1>4, NewAttemptKeeps

LEMMA ReclaimKeeps ==
  ASSUME PipelineIInv, NEW j \in Jobs, Reclaim(j)
  PROVE  PipelineIInv'
<1>1. /\ NewAttempt(j) /\ state[j] = "running" /\ state' = state
      /\ faults' = faults \/ Fault
  BY DEF Reclaim
<1>2. /\ state \in [Jobs -> Lifecycle!States] /\ faults \in 0 .. MaxFaults
  BY DEF PipelineIInv, TypeOK
<1>3. faults' \in 0 .. MaxFaults
  BY <1>1, <1>2, PipelineBounds DEF Fault
<1> QED
  BY <1>1, <1>2, <1>3, NewAttemptKeeps

-----------------------------------------------------------------------------
(* One lemma per action: the world, while no attempt moves *)

\* The attempts of row i still agree with its log: it is as it was, or it
\* is gone and none of them had recorded anything.
RowKept(i) ==
  /\ key'[i] = key[i]
  /\ \/ log'[i] = log[i] /\ (state'[i] = "deleted" <=> state[i] = "deleted")
     \/ state'[i] = "deleted" /\ ~ Locked(i)

LEMMA StillStep ==
  ASSUME PipelineIInv, UNCHANGED <<run, starts, prs, refs>>, Grows,
         \A i \in Jobs : state[i] = "none" \/ RowKept(i),
         \A c \in Claims : /\ write'[c].attempts \in Nat
                           /\ write[c].attempts <= write'[c].attempts
  PROVE  /\ AttemptsSound' /\ Sole'
         /\ StartsCounted' /\ PullsCounted' /\ ClaimsCounted'
<1>1. AttemptsSound'
  <2> SUFFICES ASSUME NEW i \in Jobs, NEW m \in AttemptNos
               PROVE  Settled(i, run[i][m])' /\ Holds(i, run[i][m])'
    BY DEF AttemptsSound
  <2> PICK q : q = run[i][m]
    OBVIOUS
  <2>1. run'[i][m] = q
    OBVIOUS
  <2>2. CASE state[i] = "none"
    <3>1. q = NoAttempt
      BY <2>2 DEF PipelineIInv, RowsSound
    <3> QED
      BY <2>1, <3>1, BlankIsSound, SoundAfter
  <2>3. CASE state[i] # "none"
    <3>1. Settled(i, q) /\ Holds(i, q) /\ key[i] \in Claims /\ RowKept(i)
      BY <2>3 DEF PipelineIInv, AttemptsSound, RowsSound
    <3>2. key'[i] = key[i]
      BY <3>1 DEF RowKept
    <3>3. Agrees(i, q)'
      <4>1. CASE log'[i] = log[i] /\ (state'[i] = "deleted" <=> state[i] = "deleted")
        BY <3>1, <4>1 DEF Settled, Agrees
      <4>2. CASE state'[i] = "deleted" /\ ~ Locked(i)
        BY <4>2 DEF Locked, Agrees
      <4> QED
        BY <3>1, <4>1, <4>2 DEF RowKept
    <3>4. Settled(i, q)' /\ Holds(i, q)'
      BY <3>1, <3>2, <3>3, SettledIf, HoldsStays
    <3> QED
      BY <2>1, <3>4, SoundAfter
  <2> QED
    BY <2>2, <2>3
<1>2. Sole'
  BY DEF PipelineIInv, Sole
<1>3. StartsCounted' /\ Started' = Started
  BY DEF PipelineIInv, StartsCounted, Started, Active
<1>4. PullsCounted'
  <2>1. Pulling' = Pulling /\ Approaching' = Approaching
    BY DEF Pulling, Approaching, Passed
  <2> QED
    BY <1>3, <2>1 DEF PipelineIInv, PullsCounted
<1>5. ClaimsCounted'
  <2> SUFFICES ASSUME NEW c \in Claims
               PROVE  Cardinality(Holders(c)') <= write'[c].attempts
    BY DEF ClaimsCounted
  <2>1. Holders(c)' \subseteq Holders(c)
    <3> SUFFICES ASSUME NEW i \in Jobs, NEW m \in AttemptNos,
                        key'[i] = c, Granted(run[i][m])
                 PROVE  key[i] = c
      BY DEF Holders, Granted
    <3>1. run[i][m] # NoAttempt
      BY DEF Granted, NoAttempt
    <3>2. state[i] # "none"
      BY <3>1 DEF PipelineIInv, RowsSound
    <3> QED
      BY <3>2 DEF RowKept
  <2>2. /\ Cardinality(Holders(c)') <= Cardinality(Holders(c))
        /\ Cardinality(Holders(c)') \in Nat /\ Cardinality(Holders(c)) \in Nat
    BY <2>1, CountedAreFinite, PartIsNoLarger
  <2>3. Cardinality(Holders(c)) <= write[c].attempts /\ write[c].attempts \in Nat
    BY DEF PipelineIInv, ClaimsCounted, TypeOK, Writes
  <2> QED
    BY <2>2, <2>3
<1> QED
  BY <1>1, <1>2, <1>3, <1>4, <1>5

\* A row is planned only once nobody has ever heard of it.
LEMMA SubmitKeeps ==
  ASSUME PipelineIInv, NEW j \in Jobs, NEW c \in Claims, Submit(j, c)
  PROVE  PipelineIInv'
<1>1. /\ state[j] = "none" /\ key' = [key EXCEPT ![j] = c]
      /\ state' = [i \in Jobs |-> IF i \in {j} THEN "waiting" ELSE state[i]]
      /\ UNCHANGED <<starts, result, log, run, storeVars, worldVars, forgeVars,
                     faults>>
  BY DEF Submit, Lifecycle!Submit, Lifecycle!Move
<1>2. TypeOK
  BY DEF PipelineIInv
<1>3. /\ key' \in [Jobs -> Claims \cup {None}] /\ key'[j] = c
      /\ \A i \in Jobs : i # j => key'[i] = key[i] /\ state'[i] = state[i]
      /\ state'[j] = "waiting" /\ state' \in [Jobs -> Lifecycle!States]
  BY <1>1, <1>2 DEF TypeOK, Lifecycle!States
<1>4. /\ starts' = starts /\ result' = result /\ log' = log /\ run' = run
      /\ tokens' = tokens /\ write' = write /\ prs' = prs /\ refs' = refs
      /\ branch' = branch /\ open' = open /\ faults' = faults
      /\ suppressed' = suppressed /\ revoked' = revoked
  BY <1>1 DEF storeVars, forgeVars, worldVars
<1>5. Grows
  <2>1. UNCHANGED <<storeVars, prs>>
    BY <1>4 DEF storeVars
  <2> QED
    BY <2>1, NothingIsTakenBack
<1>6. \A i \in Jobs : state[i] = "none" \/ RowKept(i)
  BY <1>1, <1>3, <1>4 DEF RowKept
<1>7. \A d \in Claims : /\ write'[d].attempts \in Nat
                        /\ write[d].attempts <= write'[d].attempts
  BY <1>2, <1>4 DEF TypeOK, Writes
<1>8. /\ AttemptsSound' /\ Sole'
      /\ StartsCounted' /\ PullsCounted' /\ ClaimsCounted'
  BY <1>4, <1>5, <1>6, <1>7, StillStep
<1>9. /\ result[j] = None /\ \A k \in Steps : log[j][k] = None
  BY <1>1 DEF PipelineIInv, RowsSound
<1>10. RowsSound'
  <2> SUFFICES ASSUME NEW i \in Jobs
               PROVE  /\ Honest(i, log[i])'
                      /\ state'[i] = "none" =>
                           /\ result'[i] = None
                           /\ \A m \in AttemptNos : run'[i][m] = NoAttempt
                      /\ state'[i] # "none" => key'[i] \in Claims
                      /\ state'[i] \in {"none", "deleted"} =>
                           \A k \in Steps : log'[i][k] = None
    BY DEF RowsSound
  <2>1. CASE i = j
    BY <1>3, <1>4, <1>9, <2>1 DEF Honest
  <2>2. CASE i # j
    <3>1. Honest(i, log[i])'
      BY <1>3, <1>4, <2>2 DEF PipelineIInv, RowsSound, Honest, TrueOf
    <3> QED
      BY <1>3, <1>4, <2>2, <3>1 DEF PipelineIInv, RowsSound
  <2> QED
    BY <2>1, <2>2
<1>11. TypeOK'
  BY <1>2, <1>3, <1>4 DEF TypeOK, StepLog, AttemptOK
<1>12. ForgeSound'
  BY <1>4 DEF PipelineIInv, ForgeSound, PublishedLinksWork,
              PublishedDiffsWereVetted
<1>13. RecordsAreTrue'
  <2>1. "opened" # None
    BY NoneAssumption DEF Ends, Succeeds
  <2> QED
    BY <1>3, <1>4, <1>9, <2>1 DEF PipelineIInv, RecordsAreTrue
<1> QED
  BY <1>8, <1>10, <1>11, <1>12, <1>13 DEF PipelineIInv

\* Rows that were waiting may be cancelled, and the world may turn.
LEMMA RevokeKeeps ==
  ASSUME PipelineIInv, Revoke
  PROVE  PipelineIInv'
<1>1. /\ revoked' = TRUE
      /\ state' = [i \in Jobs |-> IF i \in {k \in Jobs : state[k] = "waiting"}
                                  THEN "cancelled" ELSE state[i]]
      /\ UNCHANGED <<key, starts, result, log, run, storeVars, suppressed,
                     forgeVars, faults>>
  BY DEF Revoke, Lifecycle!Cancel, Lifecycle!Move
<1>2. TypeOK
  BY DEF PipelineIInv
<1>3. /\ state' \in [Jobs -> Lifecycle!States]
      /\ \A i \in Jobs : state'[i] = state[i] \/
           (state[i] = "waiting" /\ state'[i] = "cancelled")
  BY <1>1, <1>2 DEF TypeOK, Lifecycle!States, Lifecycle!Outcomes
<1>4. /\ key' = key /\ starts' = starts /\ result' = result /\ log' = log
      /\ run' = run /\ tokens' = tokens /\ write' = write /\ prs' = prs
      /\ refs' = refs /\ branch' = branch /\ open' = open
      /\ faults' = faults /\ suppressed' = suppressed
  BY <1>1 DEF storeVars, forgeVars
<1>5. Grows
  <2>1. UNCHANGED <<storeVars, prs>>
    BY <1>4 DEF storeVars
  <2> QED
    BY <2>1, NothingIsTakenBack
<1>6. \A i \in Jobs : RowKept(i)
  BY <1>3, <1>4 DEF RowKept
<1>7. \A d \in Claims : /\ write'[d].attempts \in Nat
                        /\ write[d].attempts <= write'[d].attempts
  BY <1>2, <1>4 DEF TypeOK, Writes
<1>8. /\ AttemptsSound' /\ Sole'
      /\ StartsCounted' /\ PullsCounted' /\ ClaimsCounted'
  BY <1>4, <1>5, <1>6, <1>7, StillStep
<1>9. RowsSound'
  <2>1. \A i \in Jobs : Honest(i, log[i])'
    BY <1>4 DEF PipelineIInv, RowsSound, Honest, TrueOf
  <2>2. \A i \in Jobs : /\ state'[i] = "none" <=> state[i] = "none"
                        /\ state'[i] = "deleted" <=> state[i] = "deleted"
    BY <1>3
  <2> QED
    BY <1>4, <2>1, <2>2 DEF PipelineIInv, RowsSound
<1>10. TypeOK'
  BY <1>1, <1>2, <1>3, <1>4 DEF TypeOK, StepLog, AttemptOK
<1>11. ForgeSound' /\ RecordsAreTrue'
  BY <1>4 DEF PipelineIInv, ForgeSound, PublishedLinksWork,
              PublishedDiffsWereVetted, RecordsAreTrue
<1> QED
  BY <1>8, <1>9, <1>10, <1>11 DEF PipelineIInv

\* A row whose steps nobody is recording goes, and its log with it.
LEMMA ClearKeeps ==
  ASSUME PipelineIInv, Clear
  PROVE  PipelineIInv'
<1> PICK S : S = {i \in Jobs : state[i] \in {"dead", "cancelled"}}
  OBVIOUS
<1>1. /\ \A i \in S : ~ Locked(i)
      /\ state' = [i \in Jobs |-> IF i \in S THEN "deleted" ELSE state[i]]
      /\ log' = [i \in Jobs |-> IF i \in S THEN NoSteps ELSE log[i]]
      /\ UNCHANGED <<key, starts, result, run, storeVars, worldVars, forgeVars,
                     faults>>
  BY DEF Clear, Lifecycle!Remove, Lifecycle!Move
<1>2. TypeOK
  BY DEF PipelineIInv
<1>3. /\ state' \in [Jobs -> Lifecycle!States]
      /\ log' = [i \in Jobs |-> log'[i]]
      /\ \A i \in Jobs : \/ state'[i] = state[i] /\ log'[i] = log[i]
                         \/ /\ state'[i] = "deleted" /\ log'[i] = NoSteps
                            /\ state[i] # "none" /\ ~ Locked(i)
  BY <1>1, <1>2 DEF TypeOK, Lifecycle!States
<1>4. /\ key' = key /\ starts' = starts /\ result' = result
      /\ run' = run /\ tokens' = tokens /\ write' = write /\ prs' = prs
      /\ refs' = refs /\ branch' = branch /\ open' = open
      /\ faults' = faults /\ suppressed' = suppressed /\ revoked' = revoked
  BY <1>1 DEF storeVars, forgeVars, worldVars
<1>5. Grows
  <2>1. UNCHANGED <<storeVars, prs>>
    BY <1>4 DEF storeVars
  <2> QED
    BY <2>1, NothingIsTakenBack
<1>6. \A i \in Jobs : RowKept(i)
  BY <1>3, <1>4 DEF RowKept
<1>7. \A d \in Claims : /\ write'[d].attempts \in Nat
                        /\ write[d].attempts <= write'[d].attempts
  BY <1>2, <1>4 DEF TypeOK, Writes
<1>8. /\ AttemptsSound' /\ Sole'
      /\ StartsCounted' /\ PullsCounted' /\ ClaimsCounted'
  BY <1>4, <1>5, <1>6, <1>7, StillStep
<1>9. RowsSound'
  <2> SUFFICES ASSUME NEW i \in Jobs
               PROVE  /\ Honest(i, log[i])'
                      /\ state'[i] = "none" => state[i] = "none"
                      /\ state[i] = "none" => state'[i] = "none"
                      /\ state'[i] \in {"none", "deleted"} =>
                           \A k \in Steps : log'[i][k] = None
    BY <1>4 DEF PipelineIInv, RowsSound
  <2>1. \A k \in Steps : NoSteps[k] = None
    BY DEF NoSteps
  <2>2. CASE state'[i] = state[i] /\ log'[i] = log[i]
    BY <1>4, <2>2 DEF PipelineIInv, RowsSound, Honest, TrueOf
  <2>3. CASE state'[i] = "deleted" /\ log'[i] = NoSteps /\ state[i] # "none"
    BY <2>1, <2>3 DEF Honest
  <2> QED
    BY <1>3, <2>2, <2>3
<1>10. TypeOK'
  <2>1. StepLog(NoSteps)
    BY DEF StepLog, NoSteps
  <2>2. \A i \in Jobs : StepLog(log[i])'
    BY <1>2, <1>3, <2>1 DEF TypeOK, StepLog
  <2> QED
    BY <1>2, <1>3, <1>4, <2>2 DEF TypeOK, AttemptOK, StepLog
<1>11. ForgeSound' /\ RecordsAreTrue'
  BY <1>4 DEF PipelineIInv, ForgeSound, PublishedLinksWork,
              PublishedDiffsWereVetted, RecordsAreTrue
<1> QED
  BY <1>8, <1>9, <1>10, <1>11 DEF PipelineIInv

\* The other steps of the world leave job rows and attempts alone.
LEMMA WorldKeeps ==
  ASSUME PipelineIInv, UNCHANGED <<rowVars, run, tokens, refs, prs, faults>>,
         branch' \in {branch, None}, open' \in {open, None},
         suppressed' \in BOOLEAN, revoked' \in BOOLEAN,
         write' \in [Claims -> Writes],
         \A c \in Claims : /\ write'[c].status = write[c].status
                           /\ write'[c].attempts = write[c].attempts
                           /\ write'[c].pr = write[c].pr
  PROVE  PipelineIInv'
<1>1. TypeOK
  BY DEF PipelineIInv
<1>2. /\ state' = state /\ key' = key /\ starts' = starts /\ result' = result
      /\ log' = log /\ run' = run /\ tokens' = tokens /\ prs' = prs
      /\ refs' = refs /\ faults' = faults
  BY DEF rowVars
<1>3. Grows
  BY <1>2, NumbersAreAttempts DEF Grows
<1>4. \A i \in Jobs : RowKept(i)
  BY <1>2 DEF RowKept
<1>5. \A d \in Claims : /\ write'[d].attempts \in Nat
                        /\ write[d].attempts <= write'[d].attempts
  BY <1>1 DEF TypeOK, Writes
<1>6. /\ AttemptsSound' /\ Sole'
      /\ StartsCounted' /\ PullsCounted' /\ ClaimsCounted'
  BY <1>2, <1>3, <1>4, <1>5, StillStep
<1>7. RowsSound'
  <2> SUFFICES ASSUME NEW i \in Jobs PROVE Honest(i, log[i])'
    BY <1>2 DEF PipelineIInv, RowsSound
  <2>1. CASE state[i] = "none"
    BY <1>2, <2>1 DEF PipelineIInv, RowsSound, Honest
  <2>2. CASE state[i] # "none"
    <3> PICK f : f = log[i]
      OBVIOUS
    <3>1. Honest(i, f)'
      BY <1>2, <1>3, <2>2, HonestyStays DEF PipelineIInv, RowsSound
    <3> QED
      BY <1>2, <3>1 DEF Honest, TrueOf
  <2> QED
    BY <2>1, <2>2
<1>8. TypeOK'
  BY <1>1, <1>2 DEF TypeOK, StepLog, AttemptOK
<1>9. ForgeSound'
  BY <1>2 DEF PipelineIInv, ForgeSound, PublishedLinksWork,
              PublishedDiffsWereVetted
<1>10. RecordsAreTrue'
  <2>1. ASSUME NEW i \in Jobs, result[i] = "opened"
        PROVE  write'[key[i]].status = "succeeded"
    <3>1. "opened" # None
      BY NoneAssumption DEF Ends, Succeeds
    <3>2. key[i] \in Claims
      BY <2>1, <3>1 DEF PipelineIInv, RowsSound
    <3> QED
      BY <2>1, <3>2 DEF PipelineIInv, RecordsAreTrue
  <2> QED
    BY <1>2, <2>1 DEF PipelineIInv, RecordsAreTrue
<1> QED
  BY <1>6, <1>7, <1>8, <1>9, <1>10 DEF PipelineIInv

LEMMA ClaimExpiresKeeps ==
  ASSUME PipelineIInv, NEW c \in Claims, ClaimExpires(c)
  PROVE  PipelineIInv'
<1>1. /\ UNCHANGED <<rowVars, run, tokens, worldVars, forgeVars, faults>>
      /\ write' = [write EXCEPT ![c].expired = TRUE]
  BY DEF ClaimExpires
<1>2. TypeOK /\ write \in [Claims -> Writes]
  BY DEF PipelineIInv, TypeOK
<1>3. /\ write' \in [Claims -> Writes]
      /\ \A d \in Claims : /\ write'[d].status = write[d].status
                           /\ write'[d].attempts = write[d].attempts
                           /\ write'[d].pr = write[d].pr
  BY <1>1, <1>2 DEF Writes
<1>4. /\ suppressed' \in BOOLEAN /\ revoked' \in BOOLEAN
      /\ UNCHANGED <<rowVars, run, tokens, refs, prs, faults>>
      /\ branch' \in {branch, None} /\ open' \in {open, None}
  BY <1>1, <1>2 DEF TypeOK, worldVars, forgeVars
<1> QED
  BY <1>3, <1>4, WorldKeeps

LEMMA OthersKeep ==
  ASSUME PipelineIInv,
         Reinstate \/ OptOut \/ ClosePullRequest \/ DeleteBranch \/ UNCHANGED vars
  PROVE  PipelineIInv'
<1>1. TypeOK
  BY DEF PipelineIInv
<1>2. write' = write /\ UNCHANGED <<rowVars, run, tokens, refs, prs, faults>>
  BY DEF Reinstate, OptOut, ClosePullRequest, DeleteBranch, vars, storeVars,
         forgeVars
<1>3. /\ branch' \in {branch, None} /\ open' \in {open, None}
      /\ suppressed' \in BOOLEAN /\ revoked' \in BOOLEAN
  BY <1>1 DEF Reinstate, OptOut, ClosePullRequest, DeleteBranch, vars,
              forgeVars, worldVars, TypeOK
<1>4. write' \in [Claims -> Writes]
  BY <1>1, <1>2 DEF TypeOK
<1>5. \A c \in Claims : /\ write'[c].status = write[c].status
                        /\ write'[c].attempts = write[c].attempts
                        /\ write'[c].pr = write[c].pr
  BY <1>2
<1> QED
  BY <1>2, <1>3, <1>4, <1>5, WorldKeeps

-----------------------------------------------------------------------------
(* The invariant *)

\* Nobody has been told anything yet.
LEMMA InitInvariant == Init => PipelineIInv
<1> SUFFICES ASSUME Init PROVE PipelineIInv
  OBVIOUS
<1>1. /\ state = [j \in Jobs |-> "none"] /\ key = [j \in Jobs |-> None]
      /\ starts = [j \in Jobs |-> 0] /\ result = [j \in Jobs |-> None]
      /\ log = [j \in Jobs |-> NoSteps]
      /\ run = [j \in Jobs |-> [n \in AttemptNos |-> NoAttempt]]
      /\ write = [c \in Claims |-> NoWrite] /\ tokens = {}
      /\ suppressed = FALSE /\ revoked = FALSE
      /\ branch = None /\ refs = 0 /\ prs = <<>> /\ open = None /\ faults = 0
  BY DEF Init, Lifecycle!Init
<1>2. AttemptsSound
  BY <1>1, BlankIsSound DEF AttemptsSound
<1>3. Sole
  BY <1>1 DEF Sole, NoAttempt
<1>4. \A k \in Steps : NoSteps[k] = None
  BY DEF NoSteps
<1>5. RowsSound
  BY <1>1, <1>4 DEF RowsSound, Honest
<1>6. ForgeSound
  BY <1>1 DEF ForgeSound, PublishedLinksWork, PublishedDiffsWereVetted
<1>7. \A c \in Claims : write[c] = NoWrite
  BY <1>1
<1>8. NoWrite \in Writes /\ NoWrite.attempts = 0 /\ NoWrite.status = "none"
  BY DEF NoWrite, Writes
<1>9. TypeOK
  <2>1. \A j \in Jobs, n \in AttemptNos : AttemptOK(run[j][n])
    BY <1>2 DEF AttemptsSound, Settled
  <2>2. StepLog(NoSteps)
    BY DEF StepLog, NoSteps
  <2>3. state \in [Jobs -> Lifecycle!States] /\ starts \in [Jobs -> 0 .. MaxStarts]
    BY <1>1, PipelineBounds DEF Lifecycle!States
  <2>4. /\ write \in [Claims -> Writes] /\ faults \in 0 .. MaxFaults
        /\ prs \in Seq([diff : Diffs, token : Tokens])
    BY <1>1, <1>8, PipelineBounds
  <2>5. /\ key \in [Jobs -> Claims \cup {None}]
        /\ result \in [Jobs -> Ends \cup {None}]
        /\ log = [j \in Jobs |-> log[j]] /\ \A j \in Jobs : StepLog(log[j])
        /\ run = [j \in Jobs |-> [n \in AttemptNos |-> run[j][n]]]
    BY <1>1, <2>2
  <2> QED
    BY <1>1, <2>1, <2>3, <2>4, <2>5 DEF TypeOK
<1>10. /\ Started = {} /\ Pulling = {} /\ Approaching = {}
       /\ \A c \in Claims : Holders(c) = {}
  BY <1>1 DEF Started, Pulling, Approaching, Holders, Passed, Granted,
              NoAttempt, AttemptNos
<1>11. IsFiniteSet({}) /\ Cardinality({}) = 0
  BY FS_EmptySet
<1>12. StartsCounted
  BY <1>1, <1>10, <1>11, PipelineBounds DEF StartsCounted, Active, NoAttempt
<1>13. PullsCounted /\ ClaimsCounted
  <2>1. Len(prs) = 0 /\ refs = 0
    BY <1>1
  <2>2. PullsCounted
    BY <1>10, <1>11, <2>1 DEF PullsCounted
  <2>3. ClaimsCounted
    BY <1>7, <1>8, <1>10, <1>11 DEF ClaimsCounted
  <2> QED
    BY <2>2, <2>3
<1>14. RecordsAreTrue
  <2>1. "opened" # None
    BY NoneAssumption DEF Ends, Succeeds
  <2> QED
    BY <1>1, <1>7, <1>8, <2>1 DEF RecordsAreTrue
<1> QED
  BY <1>2, <1>3, <1>5, <1>6, <1>9, <1>12, <1>13, <1>14 DEF PipelineIInv

LEMMA StepInvariant == PipelineIInv /\ [Next]_vars => PipelineIInv'
<1> SUFFICES ASSUME PipelineIInv, [Next]_vars PROVE PipelineIInv'
  OBVIOUS
<1>1. ASSUME NEW j \in Jobs, JobStep(j) PROVE PipelineIInv'
  BY <1>1, SubmitKeeps, StartKeeps, ReclaimKeeps DEF JobStep
<1>2. ASSUME NEW j \in Jobs, NEW n \in AttemptNos, StepFunction(j, n)
      PROVE  PipelineIInv'
  BY <1>2, CheckBrakesKeeps, ClaimKeeps, GenerateKeeps, RecordRefusalKeeps,
     MintTokenKeeps, FindBranchKeeps, CreateRefKeeps, CreatePullRequestKeeps,
     RecordSuccessKeeps DEF StepFunction
<1>3. ASSUME NEW j \in Jobs, NEW n \in AttemptNos, Runtime(j, n)
      PROVE  PipelineIInv'
  BY <1>3, LookupKeeps, RecordKeeps, RecordFailsKeeps, ThrowsKeeps, CommitKeeps,
     ReportKeeps DEF Runtime
<1>4. ASSUME NEW j \in Jobs, NEW n \in AttemptNos, Failure(j, n)
      PROVE  PipelineIInv'
  BY <1>4, CrashKeeps, LoseConnectionKeeps, FindsConnectionLostKeeps
     DEF Failure
<1>5. ASSUME World PROVE PipelineIInv'
  BY <1>5, ClaimExpiresKeeps, RevokeKeeps, ClearKeeps, OthersKeep DEF World
<1>6. CASE UNCHANGED vars
  BY <1>6, OthersKeep
<1> QED
  BY <1>1, <1>2, <1>3, <1>4, <1>5, <1>6 DEF Next

LEMMA PipelineInvariant == Spec => []PipelineIInv
BY InitInvariant, StepInvariant, PTL DEF Spec

-----------------------------------------------------------------------------
(* What follows *)

\* Job rows, attempts, the claim table and the forge keep their types: in
\* particular a pull request's number never exceeds the attempts there were.
THEOREM PipelineTypeCorrect == Spec => []TypeOK
<1>1. PipelineIInv => TypeOK
  BY DEF PipelineIInv
<1> QED
  BY <1>1, PipelineInvariant, PTL

\* However often jobs crash, overlap, lose responses and are retried, there
\* are never more pull requests than times the branch was created: each one
\* opened took the place of an attempt that had just created it.
THEOREM OnePullRequest == Spec => []OnePullRequestPerBranch
<1>1. PipelineIInv => OnePullRequestPerBranch
  BY NumbersAreAttempts DEF OnePullRequestPerBranch
<1> QED
  BY <1>1, PipelineInvariant, PTL

\* The opt-out link in every pull request, one that a crashed attempt left
\* behind included, is one whose token is stored.
THEOREM LinksWork == Spec => []PublishedLinksWork
<1>1. PipelineIInv => PublishedLinksWork
  BY DEF PipelineIInv, ForgeSound
<1> QED
  BY <1>1, PipelineInvariant, PTL

\* Every published diff was itself allowed by the policy, whichever attempt
\* generated it and whichever attempt's verdict was replayed.
THEOREM DiffsWereVetted == Spec => []PublishedDiffsWereVetted
<1>1. PipelineIInv => PublishedDiffsWereVetted
  BY DEF PipelineIInv, ForgeSound
<1> QED
  BY <1>1, PipelineInvariant, PTL

\* What a live attempt was given for a step is what the job has committed
\* for it: the recorded result wins, whoever recorded it.
THEOREM ReplaysAgree == Spec => []ReplayAgreesWithLog
<1>1. PipelineIInv => ReplayAgreesWithLog
  <2> SUFFICES ASSUME PipelineIInv, NEW j \in Jobs, NEW n \in AttemptNos,
                      NEW k \in Steps, run[j][n].tx = "open",
                      state[j] # "deleted", run[j][n].seen[k] # None,
                      log[j][k] # None
               PROVE  run[j][n].seen[k] = log[j][k]
    BY DEF ReplayAgreesWithLog
  <2>1. Agrees(j, run[j][n])
    BY DEF PipelineIInv, AttemptsSound, Settled
  <2> QED
    BY <2>1 DEF Agrees
<1> QED
  BY <1>1, PipelineInvariant, PTL

\* The attempts that asked for a claim and were granted it are never more
\* than the row's attempts counter admits to.
THEOREM GrantsCounted == Spec => []GrantsAreCounted
<1>1. PipelineIInv => GrantsAreCounted
  <2> SUFFICES ASSUME PipelineIInv, NEW c \in Claims
               PROVE  Cardinality({p \in Jobs \X AttemptNos :
                        LET r == run[p[1]][p[2]]
                        IN  /\ key[p[1]] = c
                            /\ "authorise-write" \in r.own
                            /\ r.seen["authorise-write"] = "granted"})
                        <= write[c].attempts
    BY DEF GrantsAreCounted
  <2> DEFINE G == {p \in Jobs \X AttemptNos :
                     LET r == run[p[1]][p[2]]
                     IN  /\ key[p[1]] = c
                         /\ "authorise-write" \in r.own
                         /\ r.seen["authorise-write"] = "granted"}
  <2>1. G \subseteq Holders(c)
    BY DEF Holders, Granted
  <2> HIDE DEF G
  <2>2. /\ Cardinality(G) \in Nat /\ Cardinality(Holders(c)) \in Nat
        /\ Cardinality(G) <= Cardinality(Holders(c))
    BY <2>1, CountedAreFinite, PartIsNoLarger
  <2>3. Cardinality(Holders(c)) <= write[c].attempts /\ write[c].attempts \in Nat
    BY DEF PipelineIInv, ClaimsCounted, TypeOK, Writes
  <2>4. Cardinality(G) <= write[c].attempts
    BY <2>2, <2>3
  <2> QED
    BY <2>4 DEF G
<1> QED
  BY <1>1, PipelineInvariant, PTL

\* The table claims no pull request that was not opened, and the write of a
\* job reported as having opened one is resolved.
THEOREM RecordsTrue == Spec => []RecordsAreTrue
<1>1. PipelineIInv => RecordsAreTrue
  BY DEF PipelineIInv
<1> QED
  BY <1>1, PipelineInvariant, PTL

\* A resolved row stays exactly as it is, whatever slow attempts, retries
\* and jobs planned anew do.
THEOREM ResolvedStays == Spec => ResolvedIsFinal
<1> DEFINE Final == \A c \in Claims :
             write[c].status \in {"succeeded", "failed"} => write'[c] = write[c]
<1>1. PipelineIInv /\ [Next]_vars => Final
  <2> SUFFICES ASSUME PipelineIInv, [Next]_vars PROVE Final
    OBVIOUS
  <2>1. write \in [Claims -> Writes]
    BY DEF PipelineIInv, TypeOK
  <2>2. CASE write' = write
    BY <2>2
  <2>3. ASSUME NEW j \in Jobs, NEW n \in AttemptNos, Claim(j, n)
        PROVE  Final
    <3>1. CASE Claimable(write[key[j]])
      <4>1. write' = [write EXCEPT ![key[j]] =
                        [write[key[j]] EXCEPT !.status = "claimed",
                           !.expired = FALSE, !.attempts = @ + 1]]
        BY <2>3, <3>1 DEF Claim
      <4>2. write[key[j]].status \notin {"succeeded", "failed"}
        BY <3>1 DEF Claimable
      <4> QED
        BY <2>1, <4>1, <4>2
    <3>2. CASE ~ Claimable(write[key[j]])
      BY <2>3, <3>2 DEF Claim
    <3> QED
      BY <3>1, <3>2
  <2>4. ASSUME NEW j \in Jobs, NEW n \in AttemptNos, NEW st, NEW pr,
               Resolve(j, n, st, pr)
        PROVE  Final
    <3>1. CASE write[key[j]].status = "claimed"
      <4>1. write' = [write EXCEPT ![key[j]] =
                        [write[key[j]] EXCEPT !.status = st, !.pr = pr]]
        BY <2>4, <3>1 DEF Resolve
      <4> QED
        BY <2>1, <3>1, <4>1
    <3>2. CASE write[key[j]].status # "claimed"
      BY <2>4, <3>2 DEF Resolve
    <3> QED
      BY <3>1, <3>2
  <2>5. ASSUME NEW c \in Claims, ClaimExpires(c)
        PROVE  Final
    <3>1. /\ write' = [write EXCEPT ![c].expired = TRUE]
          /\ write[c].status = "claimed"
      BY <2>5 DEF ClaimExpires
    <3> QED
      BY <2>1, <3>1
  <2>6. CASE UNCHANGED vars
    BY <2>2, <2>6 DEF vars, storeVars
  <2>7. ASSUME NEW j \in Jobs, JobStep(j) PROVE Final
    BY <2>2, <2>7 DEF JobStep, Submit, Start, Reclaim, NewAttempt, storeVars
  <2>8. ASSUME NEW j \in Jobs, NEW n \in AttemptNos, StepFunction(j, n)
        PROVE  Final
    BY <2>2, <2>3, <2>4, <2>8
       DEF StepFunction, CheckBrakes, Generate, RecordRefusal, MintToken,
           FindBranch, CreateRef, CreatePullRequest, RecordSuccess, storeVars
  <2>9. ASSUME NEW j \in Jobs, NEW n \in AttemptNos,
               Runtime(j, n) \/ Failure(j, n)
        PROVE  Final
    BY <2>2, <2>9
       DEF Runtime, Failure, Lookup, Record, RecordFails, Throws, Commit, Report,
           Crash, LoseConnection, FindsConnectionLost, storeVars
  <2>10. ASSUME World PROVE Final
    BY <2>2, <2>5, <2>10
       DEF World, Revoke, Reinstate, Clear, OptOut, ClosePullRequest,
           DeleteBranch, storeVars
  <2> QED
    BY <2>6, <2>7, <2>8, <2>9, <2>10 DEF Next
<1>2. PipelineIInv /\ [Next]_vars => [Final]_vars
  BY <1>1
<1> QED
  BY <1>2, PipelineInvariant, PTL DEF Spec, ResolvedIsFinal
=============================================================================
