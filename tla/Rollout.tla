------------------------------- MODULE Rollout -------------------------------
(***************************************************************************)
(* From an approval to the first wave of migrations, for one change:       *)
(* scripts/approve-change.ts and scripts/replan.ts (operators),            *)
(* src/schedule/approval-trigger.ts over migrations/010_approved_changes,  *)
(* src/workflows/plan-rollout.ts with createRolloutDeps of                 *)
(* src/main/wiring.ts, and the repositories its reads depend on.           *)
(*                                                                         *)
(* An attempt keeps the records of its steps in the handler's transaction: *)
(* a failure commits them, a crash loses them (MigrationPipeline has the   *)
(* mechanism in full).  A record locks the job row, so only one attempt    *)
(* gets past its first step, and an operator's DELETE waits for it.        *)
(***************************************************************************)
EXTENDS Integers, FiniteSets

CONSTANTS
  Operators,     \* people who run approve-change
  Nobody,        \* no approver
  Triggers,      \* worker processes, each with an approval trigger
  Repos,         \* repositories of one provider
  Age,           \* Age[r]: place in created_at order
  Stars,         \* Stars[r]
  MaxHead,       \* a default branch goes through commits 0 to MaxHead
  ImpactAt,      \* ImpactAt[r][h]: what assessRepository says of the manifest at h
  Verdicts,      \* verdicts a sweep may leave in the row
  Canary(_, _),  \* canarySize, scaled down
  MaxCandidates, \* ceiling on repositories of one rollout
  MaxAttempts,   \* ceiling of the rollout job
  MaxTrouble     \* bound: failures, crashes, pushes, re-sweeps, replans,
                 \* archived and suspended repositories

ASSUME RolloutAssumption ==
  /\ Nobody \notin Operators
  /\ Age \in [Repos -> Nat] /\ Stars \in [Repos -> Nat]
  /\ \A r, s \in Repos : Age[r] = Age[s] => r = s
  /\ {MaxHead, MaxCandidates, MaxTrouble} \subseteq Nat
  /\ MaxAttempts \in Nat \ {0}   \* job_attempts_sane
  /\ ImpactAt \in [Repos -> [0..MaxHead -> {"exposed", "stranded", "unrelated"}]]

VARIABLES
  change,   \* the upstream_change row
  asking,   \* asking[o]: operator o has resolved the change and not written yet
  found,    \* found[s]: the tick of trigger s has found the change and not enqueued yet
  rollout,  \* the plan-rollout job
  records,  \* its committed steps
  attempt,  \* the attempt under way
  repo,     \* repo[r]: the default branch, and the row of the repository
  jobs,     \* the migrate-repository jobs of the change
  replan,   \* whether replan still has to clear migrations
  cleared,  \* what it cleared
  trouble

rolloutVars == <<change, asking, found, rollout, records, attempt, repo, jobs,
                 replan, cleared, trouble>>

Heads == 0..MaxHead
NoSteps == [loaded |-> {}, listed |-> {}, assessed |-> {}, enqueued |-> FALSE]
NoAttempt == [active |-> FALSE, memo |-> NoSteps, todo |-> {}, pinned |-> {}, targets |-> {}]
NoRollout == [status |-> "none", attempts |-> 0, outcome |-> "none", wave |-> {}]
Eligible == {"high", "moderate"} \cap Verdicts
Impacts == {"exposed", "stranded", "unrelated"}

Trouble == trouble < MaxTrouble /\ trouble' = trouble + 1

-----------------------------------------------------------------------------
(* Operators and triggers *)

\* approve-change: the row is resolved first ...
Resolve(o) ==
  /\ change.approvedBy = Nobody /\ ~asking[o]
  /\ asking' = [asking EXCEPT ![o] = TRUE]
  /\ UNCHANGED <<change, found, rollout, records, attempt, repo, jobs, replan, cleared, trouble>>

\* Mutant of Approve: the row that was resolved is written.
Approve_Unguarded(o) ==
  /\ asking[o]
  /\ asking' = [asking EXCEPT ![o] = FALSE]
  /\ change' = [change EXCEPT !.approvedBy = o]
  /\ UNCHANGED <<found, rollout, records, attempt, repo, jobs, replan, cleared, trouble>>

\* ... and written if it still has no approver.
Approve(o) ==
  /\ asking[o]
  /\ asking' = [asking EXCEPT ![o] = FALSE]
  /\ change' = [change EXCEPT !.approvedBy = IF @ = Nobody THEN o ELSE @]
  /\ UNCHANGED <<found, rollout, records, attempt, repo, jobs, replan, cleared, trouble>>

\* approved_changes_awaiting_rollout: no job with the key, in any status.
Awaiting == change.approvedBy # Nobody /\ rollout.status = "none"

Find(s) ==
  /\ ~found[s] /\ Awaiting
  /\ found' = [found EXCEPT ![s] = TRUE]
  /\ UNCHANGED <<change, asking, rollout, records, attempt, repo, jobs, replan, cleared, trouble>>

EnqueueRollout(s) ==
  /\ found[s]
  /\ found' = [found EXCEPT ![s] = FALSE]
  /\ rollout' = IF rollout.status = "none" THEN [NoRollout EXCEPT !.status = "pending"] ELSE rollout
  /\ UNCHANGED <<change, asking, records, attempt, repo, jobs, replan, cleared, trouble>>

\* It throws, or the process crashes: the next tick finds the change again.
EnqueueFails(s) ==
  /\ found[s] /\ Trouble
  /\ found' = [found EXCEPT ![s] = FALSE]
  /\ UNCHANGED <<change, asking, rollout, records, attempt, repo, jobs, replan, cleared>>

Locked == attempt.active /\ attempt.memo # records

\* Mutant of DeleteRollout: the steps outlive their job.
DeleteRollout_KeepsSteps(migrations) ==
  /\ change.approvedBy # Nobody /\ rollout.status # "none" /\ ~replan /\ ~Locked
  /\ Trouble
  /\ rollout' = NoRollout /\ attempt' = NoAttempt
  /\ replan' = migrations
  /\ UNCHANGED <<change, asking, found, records, repo, jobs, cleared>>

\* replan refuses an unapproved change and deletes the rollout in any status;
\* the DELETE takes the steps along, and the attempt that has none fails at
\* its first.
DeleteRollout(migrations) ==
  /\ change.approvedBy # Nobody /\ rollout.status # "none" /\ ~replan /\ ~Locked
  /\ Trouble
  /\ rollout' = NoRollout /\ records' = NoSteps /\ attempt' = NoAttempt
  /\ replan' = migrations
  /\ UNCHANGED <<change, asking, found, repo, jobs, cleared>>

\* --retry-migrations, a statement of its own: what ended without success.
ClearMigrations ==
  LET ended == {j \in jobs : j.failed}
  IN  /\ replan
      /\ replan' = FALSE
      /\ jobs' = jobs \ ended
      /\ cleared' = cleared \cup {[repo |-> j.repo, sha |-> j.sha] : j \in ended}
      /\ UNCHANGED <<change, asking, found, rollout, records, attempt, repo, trouble>>

-----------------------------------------------------------------------------
(* The workflow *)

\* A step is skipped when an earlier attempt recorded it.
Memo == attempt.memo
Recorded(memo) == attempt' = [attempt EXCEPT !.memo = memo]

\* Mutant of Start: a job that has used its attempts is left where it is.
Start_WithinCeiling ==
  /\ rollout.status = "pending" /\ rollout.attempts < MaxAttempts
  /\ rollout' = [rollout EXCEPT !.status = "running", !.attempts = @ + 1]
  /\ attempt' = [NoAttempt EXCEPT !.active = TRUE, !.memo = records]
  /\ UNCHANGED <<change, asking, found, records, repo, jobs, replan, cleared, trouble>>

Start ==
  /\ rollout.status = "pending"
  /\ rollout' = [rollout EXCEPT !.status = "running", !.attempts = @ + 1]
  /\ attempt' = [NoAttempt EXCEPT !.active = TRUE, !.memo = records]
  /\ UNCHANGED <<change, asking, found, records, repo, jobs, replan, cleared, trouble>>

\* The handler's transaction commits and the outcome is reported.
Ends(status, outcome, wave) ==
  /\ rollout' = [rollout EXCEPT !.status = status, !.outcome = outcome, !.wave = wave]
  /\ records' = attempt.memo /\ attempt' = NoAttempt

LoadChange ==
  /\ attempt.active /\ Memo.loaded = {}
  /\ Recorded([Memo EXCEPT !.loaded = {change}])
  /\ UNCHANGED <<change, asking, found, rollout, records, repo, jobs, replan, cleared, trouble>>

Proceeds == \E c \in Memo.loaded : c.approvedBy # Nobody /\ c.verdict \in Eligible

\* Not approved, or not eligible any more: the job succeeds all the same.
Refuse ==
  /\ attempt.active
  /\ \E c \in Memo.loaded :
       \/ c.approvedBy = Nobody /\ Ends("succeeded", "not-approved", {})
       \/ c.approvedBy # Nobody /\ c.verdict \notin Eligible /\ Ends("succeeded", "not-eligible", {})
  /\ UNCHANGED <<change, asking, found, repo, jobs, replan, cleared, trouble>>

\* candidates: live rows under installations that are not suspended.
ListCandidates ==
  /\ attempt.active /\ Proceeds /\ Memo.listed = {}
  /\ Recorded([Memo EXCEPT !.listed = {{r \in Repos : ~repo[r].archivedAt /\ ~repo[r].suspended}}])
  /\ UNCHANGED <<change, asking, found, rollout, records, repo, jobs, replan, cleared, trouble>>

\* The ceiling refuses for good; otherwise assess-candidates begins.
Assess ==
  /\ attempt.active /\ Memo.assessed = {} /\ attempt.pinned = {} /\ attempt.todo = {}
  /\ \E listed \in Memo.listed :
       IF Cardinality(listed) > MaxCandidates
       THEN Ends("dead", "none", {})
       ELSE /\ attempt' = [attempt EXCEPT !.todo = listed, !.targets = {},
                            !.memo.assessed = IF listed = {} THEN {{}} ELSE {}]
            /\ UNCHANGED <<rollout, records>>
  /\ UNCHANGED <<change, asking, found, repo, jobs, replan, cleared, trouble>>

Oldest(rs) == CHOOSE r \in rs : \A s \in rs : Age[r] <= Age[s]

\* The assessment of a repository is over; after the last, the step is.
Assessed(targets) ==
  LET left == attempt.todo \ {Oldest(attempt.todo)}
  IN  attempt' = [attempt EXCEPT
        !.todo = left, !.pinned = {},
        !.targets = IF left = {} THEN {} ELSE targets,
        !.memo = IF left = {} THEN [Memo EXCEPT !.assessed = {targets}] ELSE Memo]

\* readManifest: describe, refresh the row, and skip, or pin a commit.
Describe ==
  /\ attempt.todo # {} /\ attempt.pinned = {}
  /\ LET r == Oldest(attempt.todo)
     IN  IF repo[r].suspended
         THEN UNCHANGED repo /\ Assessed(attempt.targets)
         ELSE IF repo[r].archived
         THEN /\ \E written \in BOOLEAN : repo' = [repo EXCEPT ![r].archivedAt = @ \/ written]
              /\ Assessed(attempt.targets)
         ELSE /\ attempt' = [attempt EXCEPT !.pinned = {repo[r].head}]
              /\ UNCHANGED repo
  /\ UNCHANGED <<change, asking, found, rollout, records, jobs, replan, cleared, trouble>>

\* Mutant of ReadManifest: the manifest is read from the branch.
ReadManifest_AtBranch ==
  /\ attempt.todo # {}
  /\ LET r == Oldest(attempt.todo)
     IN  \E sha \in attempt.pinned :
           LET impact == ImpactAt[r][repo[r].head]
               target == [repo |-> r, sha |-> sha, impact |-> impact]
           IN  Assessed(IF impact = "unrelated" THEN attempt.targets ELSE attempt.targets \cup {target})
  /\ UNCHANGED <<change, asking, found, rollout, records, repo, jobs, replan, cleared, trouble>>

\* ... and read the manifest of the commit that was pinned; decideTarget.
ReadManifest ==
  /\ attempt.todo # {}
  /\ LET r == Oldest(attempt.todo)
     IN  \E sha \in attempt.pinned :
           LET impact == ImpactAt[r][sha]
               target == [repo |-> r, sha |-> sha, impact |-> impact]
           IN  Assessed(IF impact = "unrelated" THEN attempt.targets ELSE attempt.targets \cup {target})
  /\ UNCHANGED <<change, asking, found, rollout, records, repo, jobs, replan, cleared, trouble>>

\* A read that fails costs the repository its place.
ReadFails ==
  /\ attempt.pinned # {}
  /\ Trouble
  /\ Assessed(attempt.targets)
  /\ UNCHANGED <<change, asking, found, rollout, records, repo, jobs, replan, cleared>>

\* prioritise: exposed before stranded, the smallest first, then as listed.
Rank(impact) == IF impact = "exposed" THEN 0 ELSE 1
Before(t, u) ==
  LET key(x) == <<Rank(x.impact), Stars[x.repo], Age[x.repo]>>
  IN  \E i \in 1..3 : key(t)[i] < key(u)[i] /\ \A j \in 1..(i - 1) : key(t)[j] = key(u)[j]

Wave(verdict, targets) ==
  {t \in targets :
     Cardinality({u \in targets : Before(u, t)}) < Canary(verdict, Cardinality(targets))}

\* The wave of this attempt.
Planned == UNION {Wave(c.verdict, ts) : c \in Memo.loaded, ts \in Memo.assessed}

\* dedupeKey: migrate:<change>:<repository>:<sha>, whatever the job's status.
HasJob(t) == \E j \in jobs : j.repo = t.repo /\ j.sha = t.sha

\* One enqueue, committed at once; a key that exists is a duplicate.
EnqueueMigration ==
  /\ attempt.active /\ Proceeds /\ ~Memo.enqueued
  /\ \E t \in Planned :
       /\ ~HasJob(t)
       /\ \A u \in Planned : Before(u, t) => HasJob(u)
       /\ jobs' = jobs \cup {[repo |-> t.repo, sha |-> t.sha, impact |-> t.impact, failed |-> FALSE]}
  /\ UNCHANGED <<change, asking, found, rollout, records, attempt, repo, replan, cleared, trouble>>

\* Mutant of WaveEnqueued: what the loop did not reach is not missed.
WaveEnqueued_AnyOne == Planned = {} \/ \E t \in Planned : HasJob(t)

WaveEnqueued == \A t \in Planned : HasJob(t)

EndEnqueue ==
  /\ attempt.active /\ Proceeds /\ ~Memo.enqueued
  /\ Memo.assessed # {} /\ WaveEnqueued
  /\ Recorded([Memo EXCEPT !.enqueued = TRUE])
  /\ UNCHANGED <<change, asking, found, rollout, records, repo, jobs, replan, cleared, trouble>>

Succeed ==
  /\ attempt.active /\ Memo.enqueued
  /\ Ends("succeeded", "planned", Planned)
  /\ UNCHANGED <<change, asking, found, repo, jobs, replan, cleared, trouble>>

\* A step throws: the records so far are committed, and the job is retried.
Throws ==
  /\ attempt.active /\ Trouble
  /\ Ends(IF rollout.attempts < MaxAttempts THEN "pending" ELSE "dead", "none", {})
  /\ UNCHANGED <<change, asking, found, repo, jobs, replan, cleared>>

\* The process dies: the lease expires and the job is taken back.
Crash ==
  /\ attempt.active /\ Trouble
  /\ rollout' = [rollout EXCEPT !.status = "pending"]
  /\ attempt' = NoAttempt
  /\ records' \in {records} \cup IF Memo.enqueued THEN {Memo} ELSE {}
  /\ UNCHANGED <<change, asking, found, repo, jobs, replan, cleared>>

-----------------------------------------------------------------------------
(* What else happens *)

\* A later sweep records what it finds over the row, never the approval.
Resweep(verdict) ==
  /\ verdict # change.verdict /\ Trouble
  /\ change' = [change EXCEPT !.verdict = verdict]
  /\ UNCHANGED <<asking, found, rollout, records, attempt, repo, jobs, replan, cleared>>

\* Maintainers push, archive and unarchive; installations are suspended and back.
RepositoryMoves(r) ==
  /\ Trouble
  /\ \/ repo[r].head + 1 \in Heads /\ repo' = [repo EXCEPT ![r].head = @ + 1]
     \/ repo' = [repo EXCEPT ![r].archived = ~@]
     \/ repo' = [repo EXCEPT ![r].suspended = ~@]
  /\ UNCHANGED <<change, asking, found, rollout, records, attempt, jobs, replan, cleared>>

\* A migration that ends without success: dead or cancelled.
MigrationFails(j) ==
  /\ ~j.failed
  /\ jobs' = (jobs \ {j}) \cup {[j EXCEPT !.failed = TRUE]}
  /\ UNCHANGED <<change, asking, found, rollout, records, attempt, repo, replan, cleared, trouble>>

-----------------------------------------------------------------------------
RolloutInit ==
  /\ change \in [approvedBy : {Nobody}, verdict : Eligible]
  /\ asking = [o \in Operators |-> FALSE]
  /\ found = [s \in Triggers |-> FALSE]
  /\ rollout = NoRollout /\ records = NoSteps /\ attempt = NoAttempt
  /\ repo = [r \in Repos |-> [head |-> 0, archived |-> FALSE, archivedAt |-> FALSE, suspended |-> FALSE]]
  /\ jobs = {} /\ cleared = {} /\ replan = FALSE
  /\ trouble = 0

WorkflowSteps ==
  \/ Start \/ LoadChange \/ Refuse \/ ListCandidates \/ Assess
  \/ Describe \/ ReadManifest \/ EnqueueMigration \/ EndEnqueue \/ Succeed

RolloutNext ==
  \/ \E o \in Operators : Resolve(o) \/ Approve(o)
  \/ \E s \in Triggers : Find(s) \/ EnqueueRollout(s) \/ EnqueueFails(s)
  \/ \E migrations \in BOOLEAN : DeleteRollout(migrations)
  \/ ClearMigrations
  \/ WorkflowSteps
  \/ ReadFails \/ Throws \/ Crash
  \/ \E verdict \in Verdicts : Resweep(verdict)
  \/ \E r \in Repos : RepositoryMoves(r)
  \/ \E j \in jobs : MigrationFails(j)

\* Ticks come again while they find something; a worker takes the job and a
\* handler goes on.
RolloutFairness ==
  /\ WF_rolloutVars(WorkflowSteps)
  /\ \A s \in Triggers : WF_rolloutVars(Find(s) \/ EnqueueRollout(s))

-----------------------------------------------------------------------------
(* Properties *)

Commits == [repo : Repos, sha : Heads]
Targets == [repo : Repos, sha : Heads, impact : Impacts]
Changes == [approvedBy : Operators \cup {Nobody}, verdict : Verdicts]
Steps == [loaded : SUBSET Changes, listed : SUBSET SUBSET Repos,
          assessed : SUBSET SUBSET Targets, enqueued : BOOLEAN]

Attempts == [active : BOOLEAN, memo : Steps, todo : SUBSET Repos, pinned : SUBSET Heads,
             targets : SUBSET Targets]
Rollouts == [status : {"none", "pending", "running", "succeeded", "dead"}, attempts : Nat,
             outcome : {"none", "not-approved", "not-eligible", "planned"}, wave : SUBSET Targets]
Migrations == [repo : Repos, sha : Heads, impact : Impacts, failed : BOOLEAN]

RolloutTypeOK ==
  /\ change \in Changes
  /\ asking \in [Operators -> BOOLEAN] /\ found \in [Triggers -> BOOLEAN]
  /\ rollout \in Rollouts /\ rollout.attempts <= MaxAttempts + trouble
  /\ records \in Steps /\ attempt \in Attempts
  /\ attempt.active <=> rollout.status = "running"
  /\ rollout.status = "none" => records = NoSteps
  /\ repo \in [Repos -> [head : Heads, archived : BOOLEAN, archivedAt : BOOLEAN, suspended : BOOLEAN]]
  /\ jobs \subseteq Migrations
  /\ replan \in BOOLEAN /\ cleared \subseteq Commits
  /\ trouble \in 0..MaxTrouble

\* A rollout that reports a plan has queued all of it, however often it failed
\* in the middle, and whatever was already queued before; what an operator
\* cleared aside (src/workflows/plan-rollout.ts:361).
PlannedWaveIsQueued ==
  rollout.outcome = "planned" =>
    \A t \in rollout.wave : HasJob(t) \/ [repo |-> t.repo, sha |-> t.sha] \in cleared

\* What a migration is told of a repository is what the manifest says at the
\* commit it is pinned to, although the maintainer pushes while the repository
\* is read and while the job waits (src/workflows/plan-rollout.ts:137).
ImpactIsOfTheBase == \A j \in jobs : j.impact = ImpactAt[j.repo][j.sha]

\* The operator who approved first is on record for good
\* (scripts/approve-change.ts:109).
ApproverIsFinal ==
  [][change.approvedBy # Nobody => change'.approvedBy = change.approvedBy]_rolloutVars

\* An approval is acted on, even if ticks fail, processes crash and operators
\* replan: a rollout ends (src/schedule/approval-trigger.ts:120).
ApprovalIsActedOn ==
  change.approvedBy # Nobody ~> rollout.status \in {"succeeded", "dead"}
=============================================================================
