# Driftless: a TLA+ verification project

Driftless watches upstream packages, plans a migration for each downstream
repository an incompatible release breaks, has a model write it, checks the
diff against a deterministic policy, and opens a pull request.  What it
promises is about failure: no pull request is lost or opened twice, nobody who
opted out is contacted, no job is lost to a dead worker, no queue retries
forever.  The modules here are translated from the code (`src/` below is the
root of the repository) and say which of those promises it keeps.

- `PROJECT.json` lists the components, runs, theorems, hazards and findings, and
  for every definition the lines it models (`map`).
- Run a model: `tlc -config MCJobQueue_safety.cfg MCJobQueue`.
  Check a proof: `tlapm JobQueueProofs.tla`.

## 1. The system

Two programs (`src/main/run-server.ts`, `src/main/run-worker.ts`) share one
Postgres database; any number of each may run.  Everything durable is a row.

| Component | State | Operations | Talks to |
|---|---|---|---|
| Job queue (`004_jobs.sql`, `workflow/queue.ts`) | `job` rows: status, attempts, lease, key | enqueue, dequeue, heartbeat, complete, fail, kill | workers; triggers that enqueue; webhooks and `replan` that cancel and delete |
| Worker process (`main/worker.ts`) | in-flight jobs, accepting or draining | poll, launch a batch, stop, drain | queue |
| Step runtime (`workflow/runtime.ts`) | `job_step` rows; the steps of the attempt | `ctx.step`: look up, call, record | the handler's transaction |
| Database client (`db/client.ts`) | two connection pools | `withTenant`, `withPlatformContext` | everything |
| Outbound guard (`outbound/guard.ts`, `002`) | `outbound_write` rows, kill switch, ceilings | authorise (brakes, then claim), resolve | migrate-repository |
| Suppression (`outbound/suppression.ts`, `005`) | suppressions, opt-out tokens | mint, redeem, check | guard, opt-out page |
| migrate-repository | none of its own | nine steps from context to recorded pull request | all of the above, agent, policy, forge |
| Forge client (`forge/github-forge.ts`) | the remote: branch, pull requests | create or find a branch and its pull request | GitHub, maintainers |
| plan-rollout, approval trigger, replan | `upstream_change.approved_at`, rollout job | tick, assess, enqueue the canary wave, replan | queue |
| Sweep scheduler, detect-changes | `watched_package` clocks, recorded changes | claim due packages, enqueue, corroborate, record | queue |
| Installation webhooks (`http/webhook*.ts`, `006`, `011`, `013`) | deliveries, installations, consumers, enrolments | claim a delivery, enrol, revoke, suspend, reinstate | queue (cancels jobs) |
| Billing (`012`, `http/billing-webhook.ts`, `billing/*`) | events, subscriptions, enrolment references | claim an event, provision, release; entitlement and limits | guard |
| Audit chain (`003`, `audit/*`) | hash-chained entries, checkpoints | append, export, verify | webhooks, credentials |
| Credentials (`github/*`) | broker sessions | mint, hand out, revoke | migrate-repository, sandbox |
| Rate limiter (`http/rate-limit.ts`) | windows, in one process | check, evict | `/checkout` |
| Migration agent and diff policy (`agent/*`, `policy/*`) | none | read, propose, edit, diff, parse, judge | migrate-repository |
| Pure algorithms (`detect/*`, `discover/*`) | none | versions, ranges, corroboration, surfaces, impact, priority | detect-changes, plan-rollout |

Hard to test, component by component (`hazards` gives each its line):

- **Queue and workers**: leases that expire under a live worker, late reports,
  processes that die between any two steps, an operator who replans meanwhile.
  Right if: only the lease holder reports, outcomes are final, a migration
  executes alone, every job settles.
- **Runtime and migrate-repository**: overlapping attempts that share step records;
  effects that commit before the record of the step does; answers that are replayed
  after they stopped being true; a base that moves between two jobs.  Right if:
  attempts agree on what each step returned, what is published was vetted, links
  work, and what the database says of a pull request is true.
- **Guard and forge**: three systems that commit separately and lose responses;
  ceilings counted by jobs that do not see each other.  Right if: a branch gets
  one pull request, a resolved write stays resolved, a ceiling is overshot by no
  more than runs at once.
- **Pool**: everyone waiting on everyone.
- **Sweeps and rollouts**: clocks that advance before the work is queued, keys
  that are used once, repositories that move while they are read, two operators.
  Right if: no sweep is suppressed, a baseline ends up analysed, an approval is
  acted on, a plan is queued in full and says what is true of its commit.
- **Detection**: a registry that changes between two looks, fetches that fail,
  versions below 1.0.0, ranges that npm reads and not this code.  Right if: what is
  stored agrees with the verdict, a range admits what npm takes it to admit, and the
  stated impact is what the next install does.
- **Enrolment and billing**: events delivered twice, late and out of order, a
  browser racing a webhook, handlers that die with a claim.  Right if: one tenant
  per subscription, nobody filed under another's tenant, no event lost that could
  be retried, nothing reinstated by a redelivery.
- **Audit, limiter, generation**: concurrent appends, evicted windows, edits that
  touch the last line.  Right if: tokens are accounted for, any rewriting is
  found, spending is bounded, what was allowed was inspected.

## 2. The plan

Written:

1. `JobLifecycle`: what the queue promises, with no leases or processes.
2. `JobQueue`: rows, leases, workers; shown to implement `JobLifecycle`, with
   `JobQueueProofs`.
3. `MigrationPipeline`: runtime, workflow, guard, opt-out and forge together, on
   top of `JobLifecycle`.
4. `ConnectionPool` and `ConnectionPoolProofs`.
5. `Sweeps` and `Rollout`: from a clock to a recorded change, and from an approval
   to the first wave of migrations.
6. `Versions`, `Corroboration`; `ChangeDetection` and `Consumers` over them.
7. `Billing`; `Enrolment`, which extends it: both write the tenants' rows.
8. `Outbound`: the guard's counters and switches as state.
9. `RateLimiter`, `AuditChain`, `UnifiedDiff`, `MigrationAgent`.

10. The proofs: `JobQueueProofs`, `ConnectionPoolProofs`, `MigrationPipelineProofs`;
    `AccountsProofs` (`Billing` and `Enrolment`); `ControlsProofs` (`Outbound`,
    `RateLimiter`, `AuditChain`); `FanOutProofs` (`Sweeps`, `Rollout` and what
    `MCRollout` makes of them); `OperationsProofs` (`UnifiedDiff`, `MigrationAgent`
    and the types of `MCOperations`); `PlatformProofs` (`Versions`, `ChangeDetection`,
    `Consumers` and the types of `MCPlatform`).

Every invariant and action property that a run expects to hold is also proved;
liveness is not, which section 6 explains.  Left: the jobs of a whole change side
by side (`Rollout` ends where its migrations are queued), and the order in which the
first deliveries about one installation arrive.

## 3. The modules

### JobLifecycle
A row is submitted once, waits, runs, may wait again and ends in one outcome;
an operator may delete it.  Eight lines of actions; the contract on which
`MigrationPipeline` builds.

### JobQueue
`row[j]` is the row with identity `j` (`lease` and `due` stand for the two
comparisons with `now()`), `att[j][n]` what the worker that leased attempt `n`
knows of it, `proc` and `polling` the worker processes.

| Action | Code |
|---|---|
| `Enqueue`, `Dequeue`, `Complete`, `Fail`, `Heartbeat` | the SQL functions, one transaction each |
| `Kill` | `Queue.#kill` |
| `Poll`, `Take`, `Stop`, `Drained` | `startWorker`, `drain` |
| `HandlerReturns`, `ExecutionError` | `runJob`, and its `catch` in the run loop |
| `Crash`, `Restart` | a second signal, an expired grace period, a kill; the orchestrator |
| `CancelQueued` | `revoke` in `webhook-apply.ts` |
| `ReplanRollout`, `ClearMigrations` | the two statements of `scripts/replan.ts`, which commit one by one; the second with `--retry-migrations` |
| `LeaseExpires`, `BecomesDue` | the clock |

A dequeue takes any full batch (priorities are not modelled, so every order is
allowed).  `SKIP LOCKED` needs nothing: dequeues are atomic, and one that finds
a row locked by another statement is a dequeue before or after it.  The one lock
that lasts, that of a handler's transaction on its own job row, belongs to the
step records and is modelled in `MigrationPipeline` (`Locked`); here a job may
be reclaimed although it would be passed over, which only adds behaviours.
`Restart` reuses the worker's name: names are host name and process id, which a
restarted container repeats.

### MigrationPipeline
One repository and one change, so one branch; several jobs, which differ in the
base commit.  `run[j][n]` is the attempt in memory: the step it is at and where
in it (`Phases`), what it was given for each step so far (`seen`), which records
are its own and uncommitted (`own`), and its transaction.  `log` is the committed
`job_step` table, `write` the claims, `tokens` the opt-out tokens; `branch`,
`refs`, `prs` and `open` are the forge.

Every `ctx.step` is `Lookup`, the step's function (`CheckBrakes` and `Claim`,
`Generate`, `RecordRefusal`, `MintToken`, `FindBranch`, `CreateRef`,
`CreatePullRequest`, `RecordSuccess`) and `Record`.  Functions commit on
connections of their own at once; records commit with the handler (`Commit`),
and only then is the outcome reported (`Report`).  A report is accepted from the
worker that holds the lease, and the queue tells workers apart, not attempts: an
older attempt may be the same worker's (`MayHoldLease`).  `Crash`, `Throws` (before or
after the effect: a lost response), `LoseConnection` and `RecordFails` can hit
at any point.  Time is whether a claim has expired and, through `Reclaim`,
whether a lease has.

Abstractions: the agent returns any diff of `Diffs`; the policy is a function of the
diff (`evaluateDiff` is pure); the kill switch, the subscription and the ceilings
are one refusal that may come at any time (`Outbound` has them); blobs, trees and
commits are left out because nothing can be seen of them before the ref exists.  An
opt-out may come at any time, by an earlier pull request's link.  A crash hits one
attempt; that of a process running two is two crashes.

### ConnectionPool
`phase[c]` says how far each client is, `holder[x]` who has checked out
connection `x`, `queue` the pending `connect()` calls.  `Runners` are the jobs the
process can hold; `Ticks` are the approval trigger and the scheduler, which
enqueue through the same pool.  A handler keeps its connection from `Begin` to
`Ends`, and takes a second for each step (`StepBegins`, `StepEnds`).  The
platform pool is left out: its holders wait for nothing else.

### Sweeps
One package; `watch` is its row, `tick[s]` what the scheduler of process `s` has
claimed and not enqueued, `sweeps` the `detect-changes` jobs by key.  Time never
ends, so it is kept relative: the age of the last sweep, and how many buckets ago
each claim was made.  `ClaimDue` is `claim_due_sweeps`, `EnqueueSweep` the rest of
`tick`, `LoseSweep` its `catch` or a crash, `WatchPackage` and `Pause` the operator.
What a sweep does to the change's row is `RecordSweep`.

### Rollout
One change, its repositories, its operators. Each `ctx.step` of `planRollout` is an
action or, where it reads many repositories, one per repository (`ReadManifest`,
`EnqueueMigration`); `attempt` is what the attempt remembers, `records` what is
committed. `Describe` pins the commit that `ReadManifest` reads at, and
`RepositoryMoves` pushes, archives and suspends in between. `Find` and
`EnqueueRollout` are the trigger's tick, `DeleteRollout` and `ClearMigrations` the
two statements of `replan`, with anything in between. `Resweep` is all that `Sweeps`
and `ChangeDetection` do to the row. Candidates are capped by age (`Oldest`), the
wave is the best by impact and stars (`Rank`).

### Versions, Corroboration, ChangeDetection, Consumers
`Versions` is `semver.ts` and `range.ts`; a range is what its author wrote, and
`Parsed` what the parser makes of it.  `Corroboration` is the verdict on evidence,
the difference of two surfaces, and canary sizes.  `ChangeDetection` takes one
sweep through its steps while the registry moves (`Publish`, `Deprecate`,
`Unpublish`, `PublishTypes`) and fetches fail.

`Consumers` is one repository: what it declares and locks, what `assessRepository`
says, and what an install does.  The install is npm's, and so is its reading of the
range (`NpmReads`, `NpmAdmits`): by the components that were written, where
`range.ts` fills in zeros and computes bounds.  Nothing of the one is defined by the
other, which gives `RangesMeanWhatTheySay` and `ImpactComesTrue` something to compare.
Where they differ (`Misread`: `^0`, `^0.0`, `^0.x`, a bare `~`, a partial version after
`>` or `<=`) neither property says anything, and `EveryPredictionComesTrue` says what
goes wrong (section 7).  npm's exclusion of prereleases plays no part: an install takes
the highest stable version.

### Billing and Enrolment
`Billing`: Stripe changes a subscription and delivers one event per change until
it is answered; a delivery is `Claim`, `Resolve`, `Provision`, or `ProvisionFails`
and `ReleaseClaim`.  `Resolve` reads which tenant the subscription has and
`Provision` writes, because two functions that run at once do not see each
other's tenant; `Violates` is the unique index that stops the second.
`Enrolment` extends it with GitHub's deliveries (`Receive`, `LookUp`, `CountRoom`,
`Grant`, `Adjust`, `Park`, in any order) and the browser's `/setup` (`Arrive`,
`Take`, `Enrol`, `Consume`): each of these is a transaction of its own.

### Outbound
Several jobs of one installation against the brakes.  `PassBrakes` is the reads of
`authoriseOutboundWrite`, `ClaimWrite` its claim, with any other job between the
two.  `AttemptFails` commits the memoised grant, `ClaimExpires` makes a claim
reclaimable.  `AttemptDies` keeps the claim and whatever an attempt before it
committed: a grant that is in `job_step` survives any crash, one that is not is
asked for again.  `Slots` counts the attempts under way, those that outlived their
lease included.  Writes whose grant was held over a
failed attempt (`heldOver`) are outside the bound on open pull requests: nothing
checks the ceiling again for them.

### RateLimiter, AuditChain
`RateLimiter` is `check` and `#evict`.  `AuditChain` is `mintInstallationToken`
between its two audit entries, the trigger that chains them (`TakeHead` to
`CommitEntry` holds the lock of the tenant's head), checkpoints in a customer's
hands, and `verifyChain`; hashes are the payloads they hash.  `Rewritings` leaves
out, swaps, alters and rehashes entries.

### UnifiedDiff, MigrationAgent
Texts are sequences of tokens with a newline among them; `Plusses` and `Dashes` are
the tokens that make an added or a removed line look like a file header to the
parser. `UnifiedDiff` formats and parses; every loop of the code is a function of
the number of turns taken (`Splitting`, `Walk`, `PrintedAll`, `Reading`, `Fitting`,
`Applied`), with an operator for one turn (`Split`, `Advance`, `Printed`,
`ReadLine`, `Include`, `Edited`). `MigrationAgent` goes from a tree and an arbitrary
proposal to the verdict: what is read and decoded, the radius, what fits the prompt,
which anchors apply, the diff, and every check of the policy over tokens that stand
for its patterns. A file is admitted by the size the listing gives and counted by
that of its decoded text; they differ where bytes that are no UTF-8 become longer
(`Bytes`). `AllowedWasInspected` is about every line but those that look like
headers; `NothingIsSkipped` is about those too, and fails (section 7).

## 4. The runs

| Run | Instance | Result |
|---|---|---|
| `queue_safety` | 2 rows, 2 keys (migration, rollout), 2 workers, ceiling 2, batch 2, concurrency 1, 2 disruptions | seven safety and refinement properties hold |
| `pipeline` | 1 job, 3 attempts, 2 faults, allowed and rejected diffs; or 2 jobs on 2 base commits, 2 attempts, 1 fault, allowed and escalated diffs | eight properties hold (1.4 million states) |
| `rollout` | 2 repositories, 2 operators, 1 trigger, 2 pieces of trouble; 1 package, 2 schedulers, 2 disruptions | safety, `ApprovalIsActedOn`, `AnalysisFollowsBaseline` hold |
| `platform` | 4 releases and 3 changes upstream; 9 declarations, 4 edits; 1 installation with 2 repositories, 2 events, 2 customers; 3 writes over 2 slots; 3 addresses, 4 ticks; 2 mints, 2 checkpoints, 1 loss | ten properties hold |
| `operations` | 1 subscription, 2 changes, 2 mishaps; the queue with 1 row, 2 workers, 2 disruptions; a pool of 3 connections, 3 runners, 3 ticks, concurrency 1, batch 2; some 450 proposals over 15 trees | seven properties hold, three of them liveness |
| `pipeline_skipped`, `pipeline_optout` | `pipeline` with 2 attempts and 1 fault | **violated**, see section 7 |
| `pipeline_moved_base` | `pipeline` without faults | **violated** |
| `enrolment_revocation` | `platform`, enrolment only | **violated** |
| `range_partials` | `platform`, consumers only, with `^0`, `<=0.2`, `~0.2.3` | **violated** |
| `billing_inference` | `operations`, billing only, no mishaps, fair | **violated** |
| `agent_skipped` | `operations`, the agent only | **violated** |

`queue_safety` is the queue with everything that may happen to it; `operations` has
it again, smaller and without symmetry, for what it owes under fairness.

`MCRollout`, `MCPlatform` and `MCOperations` check several components with one run
each.  Their components share no state, so `focus`, chosen at the start, says which
one moves and the others stay at rest: the states are the sum of theirs, not the
product.  A component at rest has nothing pending, so that no fairness obliges it
(`QueueAtRest`: no worker was ever started).  In `MCMigrationPipeline` `focus` chooses
between one job that is retried and two jobs side by side.
Components that do share state are checked together: the enrolment with the
tenants and subscriptions billing left (`BilledInit`), the pipeline with the guard
and the forge.

Bounds.  Two rows, because a key is used again only through a second row, and
two attempts of one migration can be on one row or on two.  Two workers, because
a lease has a holder and one other.  Two disruptions, so that a reclaimed attempt
can be disrupted again and a late report can meet a second reclaim.  Ceiling 2
tells a first failure from a last one.  Three attempts of one pipeline job,
because a third meets what a second left half done; two faults, so that recovery
itself fails.  A batch of 2 over a concurrency of 1 is the smallest overshoot of
the run loop.

Two schedulers, because a claim is late only beside another; intervals of one bucket
and of one and a half, the shortest the table accepts and one that is not a
multiple.  Two repositories, one that a push takes out of the change's way and one
that it brings in.  Two operators race for one approval.  Both candidates fit the
ceiling of candidates, so a third piece of trouble adds repetitions only.  In the
registry, a 0.x line, a removed export, a changed signature, a patch without
declarations and a pre-release; the declarations of `MCRanges` are one per branch of
the parser, those of `MCPartials` one that is misread below, one above, and one that
is not.  Two events of one installation are the smallest reordering, and a plan with
room for one repository fewer than the installation may grant fills.  Three writes
over two slots and ceilings of one: two overshoot together, the third comes after.
Three addresses over room for two evict; global 3 over 2 per client binds
separately.  Two mints are the smallest fork of a chain.

The canary is replaced by everyone (`MCEveryone`): with two repositories
`canarySize` is two.  The pool in `operations` scales the defaults down: concurrency 4 and
batch 5 make 8 jobs in flight over 10 connections; 1 and 2 make 2 over 3.

The bounds are the constants that begin with `Max` and say "bound"; `MaxAttempts`,
`MaxCandidates`, `MaxTracked`, the agent's budgets, `BatchSize` and `Concurrency`
are the program's own.

Deadlock is checked for the queue, in `queue_safety`.  The other models stop when their
bounds are used up, so their runs say `CHECK_DEADLOCK FALSE`; that the pool never
stands still is `NoCircularWait` and `EveryRequestIsServed`.

Each property has a mutant of the code that breaks it, defined beside the
definition it changes.

## 5. Fairness

`JobQueue!Fairness`.  `Poll` is strongly fair: the loop polls again whenever it
has capacity, but jobs may come and go between two looks.  `Dequeue`, `Drained`,
reports and `Restart` are weakly fair: a statement in progress ends, an awaited
promise is resumed, the orchestrator restarts what exited.  Handlers return:
model and network calls have timeouts, statements have one of 30 seconds.  The
clock goes on.  Nobody is obliged to enqueue, cancel, replan, stop, crash or
send a heartbeat; no handler of this code sends one.  `EveryJobSettles` needs
the disruptions to stop, which their bound makes them do.

`ConnectionPool!Fairness`.  Whoever was launched asks for a connection (`Begin`); a
statement ends (`StepEnds`, `Reports`, and `Ends` of a tick, whose transaction is
one statement).  `Ends` of a handler is strongly fair because `ctx.step` refuses a
key twice, so that a handler has finitely many steps and cannot go on taking nested
connections for ever.

`SweepsFairness`.  Time passes, jobs run, and each scheduler claims or enqueues: it
is a timer of a process that is restarted.  The operator, crashes and failed
enqueues are free, and bounded.

`RolloutFairness`.  The steps of a running rollout and its next attempt (the
queue's `EveryJobSettles`), and the tick of each trigger.  Operators owe nothing.

`BillingFairness`.  Stripe delivers an unanswered event again until it is handled,
and a handler that has started ends.  In `EventsAreProvisioned` the events of a
handler that died, whose release failed, or that was answered as a duplicate while
its first delivery was failing are exempt: the code loses those
(`forsaken`).

## 6. What is proved

Every theorem is about the module's own specification, for every value of its
constants that the assumptions allow, bounds included.  What is assumed: constants
that stand for "nothing" are no members of what they are nothing of
(`KeyAssumption`, `WorkerAssumption`, `ClientAssumption`, `NoneAssumption`,
`AuditAssumption`, part of `BillingAssumption` and `RolloutAssumption`); numbers are
numbers, the components of a version included (`ReleaseAssumption`,
`ConsumerAssumption`); a declaration consists of versions of one to three
components, with a prerelease after three numbers only (`RangeAssumption`); texts
and what the model proposes are made of tokens, newline, plusses and dashes among
them (`DiffAssumption`, `AgentAssumption`); the plan of the customers in place is
one that is sold (`StarterIsSold`); a baseline is a stable version; and what the
schema or the configuration checks: at least one attempt (`job_attempts_sane`, in
`BoundAssumption`, `PipelineBounds`, `RolloutAssumption`), intervals between a
bucket and a longest one (`watched_package_interval_sane`, in `IntervalAssumption`),
one client's allowance within everybody's (`RateLimiterAssumption`), distinct ages
(`RolloutAssumption`).  Finiteness is assumed of the pool's runners and connections
alone (`SizeAssumption`), because counting needs it; elsewhere what is counted is
shown to be finite, as it only grows by single steps from nothing.

An argument by induction on data is replaced by one on steps (what has been built so
far is sound), by a least counterexample (`LeastElement` in `ControlsProofs`,
`FanOutProofs` and `OperationsProofs`), or by a set of numbers that has zero and
with each number the next (`UpTo` in `OperationsProofs`).  That a loop written as a
recursive function has a value after every turn follows from its finite prefixes
(`LoopExists`).

- `JobQueueProofs`.  `IInv` is `TypeOK`, `BoundedRetry`,
  `LeaseNamesLatestAttempt` and `RetryPaidFor`.  The last is what makes the others
  inductive: a row that can be started again without a disruption has not used up
  its ceiling, so a start beyond it costs one.  From it: `TypeCorrect`,
  `RetryIsBounded`, `LeaseIsAttempts`; the action properties `OutcomesAreFinal`
  and `LostLeaseCannotReport`, by looking at every action that touches a row;
  `MigrationsExecuteAlone`, through `SoleExecutor` (while
  nothing is disrupted a running row has exactly its latest attempt, with a live
  lease); and `QueueImplementsLifecycle`, where every step maps to one of
  `JobLifecycle` or to a stutter, a reclaim among the latter.
- `ConnectionPoolProofs`.  `IInv` says that whoever is in line waits and is in line
  once, that only a client in a holding phase holds a connection, one unless it runs
  a nested transaction and never three, that ticks never nest, and that the jobs in
  flight are at most `Concurrency - 1 + BatchSize`.  `PoolNeverDeadlocks` assumes
  `PoolIsLargeEnough` (more connections than jobs in flight) and concludes
  `NoCircularWait` by counting: connections that are all held by clients awaiting
  another would need as many jobs in flight.
- `MigrationPipelineProofs`.  `PipelineIInv` says what an attempt may know.
  Whatever it was given for a step is true of the world (`Honest`): a token was
  stored, a pull request was opened, a verdict is about the diff it was given.
  Truth only grows, so that needs a look only where it is made.  While an
  attempt's transaction lives, what it was given is in the log or its own
  (`Agrees`), and no other live transaction has that step (`Sole`): that is the
  row lock on the log, and `ReplaysAgree` follows.  `DiffsWereVetted` and
  `LinksWork` are `ForgeSound`: what an attempt takes to the forge it was given
  honestly.  `OnePullRequest` and `GrantsCounted` count: pull requests and those about
  to open one are as many as references created at most, those with the attempts
  that have not passed the branch no more than attempts started (`PullsCounted`);
  and the holders of a grant are no more than the claim's own counter
  (`ClaimsCounted`).
- `ControlsProofs`.  In `Outbound` the ceilings are read before they are used, so
  neither bound is inductive.  What is: claims of the hour *together with* the jobs
  that passed the brakes and have not claimed (`HourlyOK`), and pull requests opened
  at the first try *together with* those still at their first try (`OpenOK`); a job
  passes the brakes only below the ceiling, and the others that passed are in slots.
  In `RateLimiter`, windows do not overlap, so a stretch of one window's length meets
  two at most: what passed in the present one is what it counted
  (`PresentBounded`), one length before it no more than one allowance
  (`PreviousBounded`), and before that the bound itself (`PastBounded`).  Evictions
  touch the addresses only, which is why they cannot loosen it.
  In `AuditChain`, whoever appends has the head's lock (`HeadIsLocked`) and has
  prepared the next entry (`Prepared`), so the chain stays linked (`Linked`) and a
  checkpoint stays that of its entry (`Anchored`).  An intent is committed before its
  token is requested (`IntentFirst`).  `VerificationExact` then takes each rewriting in
  turn and names the check that fails; hashes are injective because they are what
  they hash.
- `FanOutProofs`.  In `Sweeps`, claims are told apart by their bucket: a claim
  restarts the clock, and the next waits for an interval, which is a bucket long at
  least (`ClaimsSinceBucketBegan`, `ClaimsApart`).  In `Rollout`, what is memoised is
  true: every target's impact is that of the commit it names, and what is recorded
  as enqueued is queued or was cleared by an operator (`MemoSound`, of the committed
  records and of the attempt's own).  A retry goes on from the records, so
  `ImpactsAreTrue` and `WaveIsQueued` hold whatever crashed.
- `AccountsProofs`.  `TenancySpec` interleaves `Billing` and `Enrolment`, which no run
  does.  A row that names a subscription, or its reference, is under a slug of the
  subscription's customer (`CustomersKept`); so is what a handler resolved, which is
  why `OneTenantEach` survives two handlers that do not see each other's row.  What
  comes to `/setup` comes with such a reference, so a delivery finds a tenant only by
  what that customer brought (`DeliveriesFiled`, `SetupsFiled`): `FiledUnderCustomer`.
- `OperationsProofs`.  `AllowedInspected` is about two programs that have to agree:
  one prints a diff, the other reads it.  Between them is a path (`Path`): operations
  that follow the old lines and the new ones at once, so that an equal line is a line
  of both at its two places.  `diffLines` yields a path whichever way its matrix or its
  shortcut goes (`WalkPath`, `DiffLinesPath`), rewriting the last line keeps it one
  (`ReopenedPath`), and two files that differ have one that shows (`UnchangedPath`,
  `ToLinesInjective`).  What the policy has read after `k` operations is then, by
  `ToldStep`, balanced (added less removed lines of a text are what the new file has
  more of it), covers what is new, and numbers lines by their place.  The printed hunk
  headers matter to the last only, and not where a line that looks like a header
  was passed over.  `AgentIInv` adds that a generation is the outcome of its tree: what
  was edited is in the radius and was read.
- `PlatformProofs`.  In `ChangeDetection`, a verdict that was reached is the one on
  the evidence the sweep gathered (`VerdictFollows`), and the row of a sweep that
  ended is what that evidence is recorded as (`RowFollows`); so `ReassessmentSound`,
  which is about what a rollout makes of the row later, needs no look at the
  registry.  In `Consumers`, a lockfile has a copy at the top (`Installed`), so the one
  version that can be told from it is the one that runs, which is what "current" rests
  on (`LockedIsInstalled`); the other cases of `PredictionsComeTrue` follow from the
  next install taking the highest published version that npm takes the declaration to
  admit, and from `RangesMeanTheirNotation`, which says that this is what `range.ts`
  takes it to admit, unless it is misread.  That goes from the comparators a token is
  parsed to, over what they admit among stable versions (`IntervalAdmits`), to npm's
  reading by the components that were written: a bound that raises one component of a
  lower bound is agreement up to it (`RaisedBound`).  No premise of it relates the two
  readings; the misread forms are excluded one by one, and `range_partials` shows that
  the exclusion cannot be dropped.
  In `Versions`, precedence compares releases, then prereleases identifier by
  identifier; two lists of identifiers differ at a first place (`ListsTotal`), and of
  two comparisons in a row the earlier place decides (`ListsTransitive`).  So it is a
  strict total order (`PrecedenceIsTotal`), and the highest of finitely many versions
  is one of them (`LatestIsOne`): what the next sweep is about and what the next
  install takes do not depend on the registry's order (`TargetsDetermined`).

Proved only: `InFlightIsBounded`, a lemma of the pool's argument, and what is said of
the order of versions.

`FanOutTypeOK`, `PlatformTypeOK` (detection, consumers, accounts, brakes, limiter,
chain) and `OperationsTypeOK` (billing, pool, agent; the queue's is that of
`queue_safety`) are conjunctions over the components of their run.  Their parts are
proved of each component's own specification, and the conjunctions of the runs'
specifications (`FanOutTypeCorrect`, `PlatformTypeCorrect`, `OperationsTypeCorrect`)
from the same inductive invariants side by side.  For `PlatformTypeCorrect` the
customers already in place have to be shown to satisfy the accounts' invariant
(`BilledInitially`): a subscription is one tenant's because its customer's slug is
one.

Only model-checked: liveness, which is out of the prover's reach
(`EveryJobSettles`, `EveryRequestIsServed`, `ApprovalIsActedOn`,
`AnalysisFollowsBaseline`, `EventsAreProvisioned`), and what section 7 says is
violated.

## 7. Where the code and its documents disagree

1. `SkippedIsWritten`: a crash after the claim makes the retry report success
   with nothing written.  All records of an attempt are one transaction; the
   claim is another.
2. `OptOutIsHonoured`: a memoised grant outlives an opt-out.
3. `RevocationIsHonoured`: a revocation that arrives while its installation is
   only parked is dropped, and `/setup` enrols the parked copy as live.
4. `InferenceIsTemporary`: a checkout event delivered after the cancellation
   leaves the tenant active, and no further event corrects it.
5. `MovedBaseIsWritten`: the claim is keyed by the base commit, the branch is not, so
   the job of a base that has moved finds the branch of the earlier one and reports
   its pull request as its own.
6. `EveryPredictionComesTrue`: `range.ts` reads some partial versions otherwise than
   npm, so a repository is told of a change that it cannot reach it, and takes it.
7. `NothingIsSkipped`: a changed line that looks like a file header is passed over by
   the policy's parser inside a hunk, and the diff is allowed.

`PROJECT.json` quotes the lines each contradicts.  What the models show besides, as
`hazards` with a note and no run of their own: a reclaimed job is started past
`max_attempts`; a transient refusal is memoised until the job is dead; a concurrency
of 6 or more lets handlers fill the pool their steps wait on; a rollout that runs
between the two statements of `replan` finds the keys of the dead migrations still
taken, and leaves those repositories out; writes granted and held over a failure
overshoot the ceiling of open pull requests without bound; two grants at once exceed
a plan.

## 8. Not modelled, and why

Row-level security (a static policy, tested against the database), text (pull
request bodies, pages, prompts), the TypeScript compiler and the unpacking of
archives (a constant map from versions to surfaces, which may fail), signatures,
the sandbox's processes (the agent's verifier reports not-run), code search
(suggestions to an operator), the humanloop gate (an optional client whose answer
is an approval), the credential broker and its helper (constructed by no program),
single-tenant enrolment by a default provider, and unpaid checkouts.

Smaller omissions inside what is modelled.  `Rollout`: the permanent failures for a
change that is not found (`plan-rollout.ts:210-214`) and one without its two versions
(243-247), because no program queues the one or records the other.  `Billing`: an event
without an actionable subscription, which is claimed and answered and changes nothing
else (`billing-webhook.ts:106-109`); and the eight lower-cased characters of the
customer's id at the end of a slug (`provisioning.ts:88`), where two customers who agreed
in those and in their name would share one; a slug stands for its customer here.
`Outbound`: suppressions that expire, which the table allows and nothing writes.
`MigrationPipeline`: jobs of several changes, whose branches differ.
`components` says for each part what is missing.  `Queue.start`, a second poll
loop, is called by no program.
