------------------------------ MODULE JobQueue ------------------------------
(***************************************************************************)
(* The Postgres-backed job queue and the worker processes that drain it:   *)
(* migrations/004_jobs.sql (the job table and its functions),              *)
(* src/workflow/queue.ts (enqueue, dequeue, runJob and its reports),       *)
(* src/main/worker.ts (the run loop, stop and drain), and the two places   *)
(* outside the queue that change rows: the cancellation of an              *)
(* installation's queued jobs and the operator's replan.  All migrations   *)
(* are of one installation and one upstream change.                        *)
(*                                                                         *)
(* Each database function is one transaction, hence one action.  A worker  *)
(* keeps the jobs it dequeued in memory; the handler of a job is an        *)
(* arbitrary computation that ends in one of three outcomes.  Wall-clock   *)
(* time is abstracted to whether a lease has expired and whether run_at    *)
(* has been reached.                                                       *)
(***************************************************************************)
EXTENDS Naturals, FiniteSets

CONSTANTS
  Jobs,             \* identities of rows of the job table
  Keys,             \* dedupe keys
  RolloutKeys,      \* keys of plan-rollout jobs; the others are migrations
  Workers,          \* values of QueueOptions.workerId
  NoKey, NoWorker,  \* SQL NULL, for a key and for leased_by
  MaxAttempts,      \* job.max_attempts
  BatchSize,        \* QueueOptions.batchSize
  Concurrency,      \* WorkerOptions.concurrency
  MaxDisruptions    \* bound: crashes, lost connections and slow attempts

ASSUME KeyAssumption    == RolloutKeys \subseteq Keys /\ NoKey \notin Keys
ASSUME WorkerAssumption == NoWorker \notin Workers
ASSUME BoundAssumption  ==
  /\ MaxAttempts \in Nat \ {0}
  /\ BatchSize \in Nat \ {0}
  /\ Concurrency \in Nat \ {0}
  /\ MaxDisruptions \in Nat

VARIABLES
  row,          \* row[j]: the row of table job with identity j
  att,          \* att[j][n]: what the n-th attempt of j is doing, and where
  proc,         \* proc[w]: the worker process
  polling,      \* polling[w]: a dequeue call is outstanding
  disruptions   \* how many disruptions have happened

vars == <<row, att, proc, polling, disruptions>>

-----------------------------------------------------------------------------
(* Data *)

MigrationKeys == Keys \ RolloutKeys

Finished == {"succeeded", "dead", "cancelled"}
Waiting  == {"pending", "failed"}
Status   == {"absent", "running", "deleted"} \cup Waiting \cup Finished

AttemptNos == 1 .. (MaxAttempts + MaxDisruptions)

\* What runJob reports once the handler has returned.
Verdicts == {"succeeded", "failed", "permanent"}
Phases   == {"none", "handler"} \cup Verdicts

Row == [status   : Status,
        key      : Keys \cup {NoKey},
        attempts : 0 .. (MaxAttempts + MaxDisruptions),
        leasedBy : Workers \cup {NoWorker},
        lease    : {"none", "live", "expired"},
        due      : BOOLEAN]

Attempt == [phase : Phases, worker : Workers \cup {NoWorker}]

NoRow     == [status |-> "absent", key |-> NoKey, attempts |-> 0,
              leasedBy |-> NoWorker, lease |-> "none", due |-> FALSE]
NoAttempt == [phase |-> "none", worker |-> NoWorker]

Present(j)   == row[j].status \notin {"absent", "deleted"}
Active(j, n) == att[j][n].phase # "none"
Current(j)   == row[j].attempts

\* The jobs a worker process holds in memory: inFlight of the run loop.
HeldBy(w) ==
  {p \in Jobs \X AttemptNos :
     att[p[1]][p[2]].phase # "none" /\ att[p[1]][p[2]].worker = w}

\* Mutants of Owns: WHERE id = .. alone, and without the lease holder.
Owns_ById(w, j)       == Present(j)
Owns_AnyHolder(w, j)  == row[j].status = "running"

\* WHERE id = .. AND leased_by = .. AND status = 'running'
Owns(w, j) == row[j].status = "running" /\ row[j].leasedBy = w

\* Mutant of Runnable: expired leases are left to a sweeper nobody wrote.
Runnable_NoReclaim == {j \in Jobs : row[j].status \in Waiting /\ row[j].due}

\* The rows the SELECT of dequeue_jobs may return.
Runnable ==
  {j \in Jobs : \/ row[j].status \in Waiting /\ row[j].due
                \/ row[j].status = "running" /\ row[j].lease = "expired"}

\* A row that is no longer leased: complete_job, fail_job and #kill.
Released(r, st) ==
  [r EXCEPT !.status = st, !.leasedBy = NoWorker, !.lease = "none",
            !.due = FALSE]

Disrupt == disruptions < MaxDisruptions /\ disruptions' = disruptions + 1

-----------------------------------------------------------------------------
(* Rows come and go *)

\* enqueue_job.  When a row holds the key, whatever its status, the call
\* changes nothing and returns created = false.
Enqueue(k) ==
  /\ \A j \in Jobs : Present(j) => row[j].key # k
  /\ \E j \in Jobs, due \in BOOLEAN :
       /\ row[j].status = "absent"
       /\ row' = [row EXCEPT ![j] = [NoRow EXCEPT !.status = "pending",
                                                  !.key = k, !.due = due]]
  /\ UNCHANGED <<att, proc, polling, disruptions>>

\* Mutant of CancelQueued: running jobs are cancelled too.
CancelQueued_Running ==
  LET S == {j \in Jobs : row[j].status \in Waiting \cup {"running"}
                         /\ row[j].key \in MigrationKeys}
  IN  /\ S # {}
      /\ row' = [j \in Jobs |-> IF j \in S
                                THEN [row[j] EXCEPT !.status = "cancelled"]
                                ELSE row[j]]
      /\ UNCHANGED <<att, proc, polling, disruptions>>

\* revoke: the queued jobs of an installation are cancelled, running ones
\* are not.
CancelQueued ==
  LET S == {j \in Jobs : row[j].status \in Waiting
                         /\ row[j].key \in MigrationKeys}
  IN  /\ S # {}
      /\ row' = [j \in Jobs |-> IF j \in S
                                THEN [row[j] EXCEPT !.status = "cancelled"]
                                ELSE row[j]]
      /\ UNCHANGED <<att, proc, polling, disruptions>>

Delete(S) ==
  /\ S # {}
  /\ row' = [j \in Jobs |-> IF j \in S
                            THEN [row[j] EXCEPT !.status = "deleted"]
                            ELSE row[j]]
  /\ UNCHANGED <<att, proc, polling, disruptions>>

\* replan is two statements, each a transaction of its own, that hand nothing
\* to one another: a job may be taken, or the program die, between them.  The
\* first deletes the rollout row of the change, in any status, if it has one.
RolloutOf(k) == {j \in Jobs : Present(j) /\ row[j].key = k}
ReplanRollout(k) == Delete(RolloutOf(k))

\* Mutant of Clearable: running migrations are cleared too.
Clearable_Running == {j \in Jobs : /\ row[j].status \in {"dead", "running"}
                                   /\ row[j].key \in MigrationKeys}

\* The second, with --retry-migrations: the change's dead and cancelled
\* migration rows, whatever the first one found.
Clearable == {j \in Jobs : /\ row[j].status \in {"dead", "cancelled"}
                           /\ row[j].key \in MigrationKeys}
ClearMigrations == Delete(Clearable)

-----------------------------------------------------------------------------
(* The run loop of a worker process *)

\* The loop body up to `await queue.dequeue()`.
Poll(w) ==
  /\ proc[w] = "up" /\ ~polling[w]
  /\ Cardinality(HeldBy(w)) < Concurrency
  /\ polling' = [polling EXCEPT ![w] = TRUE]
  /\ UNCHANGED <<row, att, proc, disruptions>>

\* Mutant of Leased: a reclaim keeps the previous holder.
Leased_KeepsHolder(r, w) ==
  [r EXCEPT !.status = "running", !.attempts = @ + 1, !.lease = "live",
            !.leasedBy = IF @ = NoWorker THEN w ELSE @, !.due = FALSE]

Leased(r, w) ==
  [r EXCEPT !.status = "running", !.attempts = @ + 1,
            !.leasedBy = w, !.lease = "live", !.due = FALSE]

\* dequeue_jobs leases the rows of B, and the loop launches every one of
\* them, even if stop() was called meanwhile.
Take(w, B) ==
  /\ polling[w] /\ B \subseteq Runnable
  /\ row' = [j \in Jobs |-> IF j \in B THEN Leased(row[j], w) ELSE row[j]]
  /\ att' = [j \in Jobs |->
               IF j \in B
               THEN [att[j] EXCEPT ![row[j].attempts + 1] =
                       [phase |-> "handler", worker |-> w]]
               ELSE att[j]]
  /\ polling' = [polling EXCEPT ![w] = FALSE]
  /\ UNCHANGED <<proc, disruptions>>

\* The LIMIT: as many rows as there are, up to the batch size.
FullBatch(B) ==
  LET room == Cardinality(Runnable)
  IN  Cardinality(B) = IF room < BatchSize THEN room ELSE BatchSize

Dequeue(w) == \E B \in SUBSET Runnable : FullBatch(B) /\ Take(w, B)

\* SIGTERM: stop().
Stop(w) ==
  /\ proc[w] = "up"
  /\ proc' = [proc EXCEPT ![w] = "draining"]
  /\ UNCHANGED <<row, att, polling, disruptions>>

\* Everything the process holds in memory is gone.
Forget(w) ==
  att' = [j \in Jobs |-> [n \in AttemptNos |->
            IF att[j][n].worker = w THEN NoAttempt ELSE att[j][n]]]

\* drain() finds nothing in flight, and the process exits.
Drained(w) ==
  /\ proc[w] = "draining" /\ ~polling[w] /\ HeldBy(w) = {}
  /\ proc' = [proc EXCEPT ![w] = "down"]
  /\ UNCHANGED <<row, att, polling, disruptions>>

\* The grace period or the second signal ends a draining process, and a
\* crash any other, with jobs in flight or a dequeue outstanding.
Crash(w) ==
  /\ proc[w] # "down" /\ Disrupt
  /\ proc' = [proc EXCEPT ![w] = "down"]
  /\ polling' = [polling EXCEPT ![w] = FALSE]
  /\ Forget(w)
  /\ UNCHANGED row

\* The orchestrator starts the process again, under the same workerId.
Restart(w) ==
  /\ proc[w] = "down"
  /\ proc' = [proc EXCEPT ![w] = "up"]
  /\ UNCHANGED <<row, att, polling, disruptions>>

-----------------------------------------------------------------------------
(* runJob: one attempt, from handler to report *)

SetAttempt(j, n, a) == att' = [att EXCEPT ![j][n] = a]

\* executeJob returns, and the tenant transaction it ran in commits.
HandlerReturns(j, n, v) ==
  /\ att[j][n].phase = "handler"
  /\ SetAttempt(j, n, [att[j][n] EXCEPT !.phase = v])
  /\ UNCHANGED <<row, proc, polling, disruptions>>

\* The transaction or the report throws: the run loop logs it, and the row
\* stays leased.
ExecutionError(j, n) ==
  /\ Active(j, n) /\ Disrupt
  /\ SetAttempt(j, n, NoAttempt)
  /\ UNCHANGED <<row, proc, polling>>

\* A report changes the row only under Owns; either way the attempt is over.
Report(j, n, v, r) ==
  /\ att[j][n].phase = v
  /\ row' = IF Owns(att[j][n].worker, j) THEN [row EXCEPT ![j] = r] ELSE row
  /\ SetAttempt(j, n, NoAttempt)
  /\ UNCHANGED <<proc, polling, disruptions>>

Complete(j, n) == Report(j, n, "succeeded", Released(row[j], "succeeded"))

Kill(j, n) == Report(j, n, "permanent", Released(row[j], "dead"))

\* Mutant of AfterFailure: the ceiling is off by one.
AfterFailure_OffByOne(r) ==
  IF r.attempts > MaxAttempts THEN Released(r, "dead")
                              ELSE Released(r, "failed")

\* fail_job: a failure at the ceiling is final, any other is retried after a
\* backoff.
AfterFailure(r) ==
  IF r.attempts >= MaxAttempts THEN Released(r, "dead")
                               ELSE Released(r, "failed")

Fail(j, n) == Report(j, n, "failed", AfterFailure(row[j]))

\* heartbeat_job: checks who holds the lease, and not whether it expired.
Heartbeat(j, n) ==
  /\ att[j][n].phase = "handler" /\ Owns(att[j][n].worker, j)
  /\ row' = [row EXCEPT ![j].lease = "live"]
  /\ UNCHANGED <<att, proc, polling, disruptions>>

-----------------------------------------------------------------------------
(* The passage of time *)

\* The lease of the current attempt runs out.  While the attempt is still
\* working, that is a slow attempt and counts as a disruption.
LeaseExpires(j) ==
  /\ row[j].status = "running" /\ row[j].lease = "live"
  /\ row' = [row EXCEPT ![j].lease = "expired"]
  /\ IF Active(j, Current(j)) THEN Disrupt ELSE UNCHANGED disruptions
  /\ UNCHANGED <<att, proc, polling>>

\* run_at is reached.
BecomesDue(j) ==
  /\ row[j].status \in Waiting /\ ~row[j].due
  /\ row' = [row EXCEPT ![j].due = TRUE]
  /\ UNCHANGED <<att, proc, polling, disruptions>>

-----------------------------------------------------------------------------

Init ==
  /\ row = [j \in Jobs |-> NoRow]
  /\ att = [j \in Jobs |-> [n \in AttemptNos |-> NoAttempt]]
  /\ proc = [w \in Workers |-> "up"]
  /\ polling = [w \in Workers |-> FALSE]
  /\ disruptions = 0

RowStep ==
  \/ \E k \in Keys : Enqueue(k)
  \/ \E k \in RolloutKeys : ReplanRollout(k)
  \/ ClearMigrations \/ CancelQueued

WorkerStep(w) ==
  Poll(w) \/ Dequeue(w) \/ Stop(w) \/ Drained(w) \/ Crash(w) \/ Restart(w)

Reported(j, n) == Complete(j, n) \/ Fail(j, n) \/ Kill(j, n)

AttemptStep(j, n) ==
  \/ \E v \in Verdicts : HandlerReturns(j, n, v)
  \/ ExecutionError(j, n)
  \/ Reported(j, n)
  \/ Heartbeat(j, n)

Next ==
  \/ RowStep
  \/ \E w \in Workers : WorkerStep(w)
  \/ \E j \in Jobs, n \in AttemptNos : AttemptStep(j, n)
  \/ \E j \in Jobs : LeaseExpires(j) \/ BecomesDue(j)

Spec == Init /\ [][Next]_vars

\* A process that is up keeps polling and running what it holds, handlers
\* return, the orchestrator restarts what went down, and clocks advance.
\* Nothing obliges anyone to enqueue, cancel, stop, crash or heartbeat.
Fairness ==
  /\ \A w \in Workers : /\ SF_vars(Poll(w)) /\ WF_vars(Dequeue(w))
                        /\ WF_vars(Drained(w)) /\ WF_vars(Restart(w))
  /\ \A j \in Jobs, n \in AttemptNos :
       /\ WF_vars(\E v \in Verdicts : HandlerReturns(j, n, v))
       /\ WF_vars(Reported(j, n))
  /\ \A j \in Jobs : /\ WF_vars(BecomesDue(j))
                     /\ WF_vars(LeaseExpires(j) /\ ~Active(j, Current(j)))

-----------------------------------------------------------------------------
(* Properties *)

TypeOK ==
  /\ row \in [Jobs -> Row]
  /\ att \in [Jobs -> [AttemptNos -> Attempt]]
  /\ proc \in [Workers -> {"up", "draining", "down"}]
  /\ polling \in [Workers -> BOOLEAN]
  /\ disruptions \in 0 .. MaxDisruptions

\* A row that was taken `attempts' times is at most `disruptions' past its
\* ceiling: a reported failure never buys a start beyond max_attempts, and
\* every reclaim of an expired lease is paid for by a crash, a lost
\* connection or a slow attempt (fail_job, dequeue_jobs).
BoundedRetry ==
  \A j \in Jobs : row[j].attempts <= MaxAttempts + disruptions

\* What makes the check on leased_by mean anything: the worker a running
\* row is leased to is the worker of its latest attempt, if that attempt is
\* still in anybody's memory, and no attempt is later than the row says.
LeaseNamesLatestAttempt ==
  \A j \in Jobs, n \in AttemptNos : Active(j, n) =>
    /\ n <= Current(j)
    /\ n = Current(j) /\ row[j].status = "running" =>
         row[j].leasedBy = att[j][n].worker

\* Two attempts at the same migration, of one row or of two rows with the
\* same key, are never under way together unless something was disrupted:
\* the lease, the dedupe key and replan's status filter together keep a
\* migration to one executor ("pending and running jobs are never touched").
MigrationExecutesAlone ==
  disruptions = 0 =>
    \A i, j \in Jobs, m, n \in AttemptNos :
      /\ Active(i, m) /\ Active(j, n)
      /\ row[i].key = row[j].key /\ row[i].key \in MigrationKeys
      => i = j /\ m = n

\* An outcome is final: no late report, reclaim, cancellation or second
\* enqueue changes a finished row, and an operator's delete never removes a
\* migration that succeeded.
OutcomeIsFinal ==
  [][\A j \in Jobs : row[j].status \in Finished =>
       \/ row'[j] = row[j]
       \/ /\ row'[j].status = "deleted"
          /\ row[j].status = "succeeded" => row[j].key \in RolloutKeys]_vars

\* When an attempt ends and its row stops running in the same step, that
\* attempt's worker held the lease: a worker whose lease somebody else
\* reclaimed cannot report an outcome for a job it no longer owns.
OnlyLeaseHolderReports ==
  [][\A j \in Jobs, n \in AttemptNos :
       /\ Active(j, n) /\ att'[j][n] = NoAttempt
       /\ row[j].status = "running" /\ row'[j].status # "running"
       => att[j][n].worker = row[j].leasedBy]_vars

\* No job is lost to a dead worker: once disruptions stop, every job that
\* was enqueued reaches an outcome or is deleted by an operator.
EveryJobSettles ==
  \A j \in Jobs :
    row[j].status \in Waiting \cup {"running"}
      ~> row[j].status \in Finished \cup {"deleted"}

\* The job table keeps the promise of JobLifecycle.
LifecycleState(j) ==
  CASE row[j].status = "absent"     -> "none"
    [] row[j].status \in Waiting    -> "waiting"
    [] OTHER                        -> row[j].status

Lifecycle == INSTANCE JobLifecycle
               WITH state <- [j \in Jobs |-> LifecycleState(j)]

ImplementsLifecycle == Lifecycle!Spec
=============================================================================
