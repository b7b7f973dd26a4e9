-------------------------- MODULE MigrationPipeline --------------------------
(***************************************************************************)
(* The migrate-repository workflow, from a leased job to a pull request:   *)
(* src/workflows/migrate-repository.ts (the steps and their order),        *)
(* src/workflow/runtime.ts (step memoisation), queue.ts runJob (one        *)
(* transaction around the handler, another for the report),                *)
(* src/outbound/guard.ts with migrations/002_outbound_writes.sql (brakes   *)
(* and the idempotency claim), src/outbound/suppression.ts (opt-out        *)
(* tokens) and src/forge/github-forge.ts (branch and pull request).        *)
(*                                                                         *)
(* One repository and one upstream change, hence one branch; the jobs      *)
(* differ in the base commit they were planned against.  The queue is the  *)
(* contract JobQueue implements, JobLifecycle.  A step's function commits  *)
(* its own effects at once; the step record joins the transaction of the   *)
(* handler, and is there for later attempts only once that commits.        *)
(***************************************************************************)
EXTENDS Naturals, Sequences, FiniteSets

CONSTANTS
  Jobs,         \* migrate-repository rows
  Claims,       \* idempotency keys: base commits, which is also the dedupe key
  Diffs,        \* what the agent may generate
  Verdict,      \* evaluateDiff: allow, reject or escalate, for each diff
  MaxAttempts,  \* job.max_attempts
  MaxStarts,    \* bound: attempts, over all jobs
  MaxFaults,    \* bound: crashes, slow attempts, lost connections, errors
  None          \* no row, no result

ASSUME VerdictAssumption ==
  Verdict \in [Diffs -> {"allow", "reject", "escalate"}]
ASSUME PipelineBounds ==
  /\ {MaxAttempts, MaxStarts} \subseteq Nat \ {0}
  /\ MaxFaults \in Nat

VARIABLES
  state,      \* state[j]: the row's state, as JobLifecycle has it
  key,        \* key[j]: the claim key in the job's input
  starts,     \* starts[j]: job.attempts
  result,     \* result[j]: how the handler of a succeeded job ended
  log,        \* log[j][k]: the committed job_step row of step k
  run,        \* run[j][n]: the n-th attempt, in a worker's memory
  write,      \* write[c]: the outbound_write row with key c
  tokens,     \* opt_out_token rows
  suppressed, \* the maintainer opted out
  revoked,    \* the installation is suspended or removed
  branch,     \* the diff the branch carries on the forge, or None
  refs,       \* how many times the branch was created
  prs,        \* every pull request opened for the branch
  open,       \* the number of the open one, or None
  faults      \* how many faults have happened

rowVars   == <<state, key, starts, result, log>>
storeVars == <<write, tokens>>
forgeVars == <<branch, refs, prs, open>>
worldVars == <<suppressed, revoked>>
vars      == <<rowVars, run, storeVars, worldVars, forgeVars, faults>>

Lifecycle == INSTANCE JobLifecycle

-----------------------------------------------------------------------------
(* Data *)

AttemptNos == 1 .. MaxStarts

Steps == {"load-context", "authorise-write", "generate-migration",
          "evaluate-policy", "record-rejection", "record-escalation",
          "mint-opt-out-token", "open-pr", "record-result"}

\* How a handler ends, and what runJob makes of it.
Succeeds == {"opened", "already-written", "suppressed", "no-changes",
             "escalated"}
Fails    == {"refused", "error"}
Kills    == {"rejected", "no-migration", "unavailable"}
Ends     == Succeeds \cup Fails \cup Kills

\* Where in a step an attempt is: at the lookup, in the function, between
\* its checks and its claim, before the branch or the pull request is
\* created, holding an unrecorded result; and past the last step, before
\* the commit and before the report.
Phases == {"none", "lookup", "function", "claim", "ref", "pull", "result",
           "returned", "committed"}

Tokens == Jobs \X AttemptNos

Results(k) ==
  CASE k = "authorise-write"    -> {"granted", "already-written", "suppressed",
                                    "refused"}
    [] k = "generate-migration" -> Diffs
    [] k = "evaluate-policy"    -> {"allow", "reject", "escalate"}
    [] k = "mint-opt-out-token" -> Tokens
    [] k = "open-pr"            -> AttemptNos
    [] OTHER                    -> {"done"}

\* What is known of each step: a log, or what a handler was given.
StepLog(f) ==
  /\ f = [k \in Steps |-> f[k]]
  /\ \A k \in Steps : f[k] = None \/ f[k] \in Results(k)

ASSUME NoneAssumption ==
  None \notin Nat \cup Ends /\ \A k \in Steps : None \notin Results(k)

NoSteps == [k \in Steps |-> None]

\* seen: what the handler was given for each step; own: the steps this
\* attempt recorded; tx: its transaction.
NoAttempt == [phase |-> "none", at |-> "load-context", out |-> None,
              seen |-> NoSteps, own |-> {}, tx |-> "none"]
Fresh     == [NoAttempt EXCEPT !.phase = "lookup", !.tx = "open"]

Writes  == [status : {"none", "claimed", "succeeded", "failed"},
            expired : BOOLEAN, attempts : Nat, pr : AttemptNos \cup {None}]
NoWrite == [status |-> "none", expired |-> FALSE, attempts |-> 0, pr |-> None]

Present(j)   == state[j] \notin {"none", "deleted"}
Active(j, n) == run[j][n].phase # "none"

Fault == faults < MaxFaults /\ faults' = faults + 1

SetRun(j, n, r) == run' = [run EXCEPT ![j][n] = r]

In(j, n, k, p) == run[j][n].at = k /\ run[j][n].phase = p

\* A step record takes a lock on its job row, by its foreign key, that lasts
\* as long as the transaction; FOR UPDATE SKIP LOCKED passes such a row over.
Locked(j) ==
  \E n \in AttemptNos : run[j][n].tx = "open" /\ run[j][n].own # {}

\* Where the handler goes once step k has returned v.
Following(k, v) ==
  CASE k = "load-context"       -> "authorise-write"
    [] k = "authorise-write"    -> IF v = "granted" THEN "generate-migration"
                                                    ELSE v
    [] k = "generate-migration" -> "evaluate-policy"
    [] k = "evaluate-policy"    -> CASE v = "reject"   -> "record-rejection"
                                     [] v = "escalate" -> "record-escalation"
                                     [] OTHER          -> "mint-opt-out-token"
    [] k = "record-rejection"   -> "rejected"
    [] k = "record-escalation"  -> "escalated"
    [] k = "mint-opt-out-token" -> "open-pr"
    [] k = "open-pr"            -> "record-result"
    [] k = "record-result"      -> "opened"

End(r, e) == [r EXCEPT !.phase = "returned", !.at = e, !.out = None]

\* ctx.step hands v to the handler, which runs on to its next step or end.
Given(r, v) ==
  LET to == Following(r.at, v)
      s  == [r EXCEPT !.seen[r.at] = v, !.out = None]
  IN  IF to \in Steps THEN [s EXCEPT !.at = to, !.phase = "lookup"]
                      ELSE End(s, to)

\* The step's function returns v, not recorded yet.
Returns(r, v) == [r EXCEPT !.phase = "result", !.out = v]

-----------------------------------------------------------------------------
(* The job row *)

\* plan-rollout enqueues a migration; a present row with the key wins.
Submit(j, c) ==
  /\ \A i \in Jobs : Present(i) => key[i] # c
  /\ Lifecycle!Submit(j)
  /\ key' = [key EXCEPT ![j] = c]
  /\ UNCHANGED <<starts, result, log, run, storeVars, worldVars, forgeVars,
                 faults>>

\* The installation is revoked: queued jobs are cancelled, running ones not.
Revoke ==
  /\ revoked' = TRUE
  /\ Lifecycle!Cancel({j \in Jobs : state[j] = "waiting"})
  /\ UNCHANGED <<key, starts, result, log, run, storeVars, suppressed,
                 forgeVars, faults>>

\* unsuspend, or a reinstatement.
Reinstate ==
  /\ revoked /\ revoked' = FALSE
  /\ UNCHANGED <<rowVars, run, storeVars, suppressed, forgeVars, faults>>

\* replan --retry-migrations clears the change's dead and cancelled rows,
\* once nobody holds a lock on one; job_step rows go with the job.
Clear ==
  LET S == {j \in Jobs : state[j] \in {"dead", "cancelled"}}
  IN  /\ S # {} /\ \A j \in S : ~Locked(j)
      /\ Lifecycle!Remove(S)
      /\ log' = [j \in Jobs |-> IF j \in S THEN NoSteps ELSE log[j]]
      /\ UNCHANGED <<key, starts, result, run, storeVars, worldVars, forgeVars,
                     faults>>

\* The attempts so far, over all jobs.
Started == {p \in Jobs \X AttemptNos : p[2] <= starts[p[1]]}

NewAttempt(j) ==
  /\ Cardinality(Started) < MaxStarts
  /\ starts' = [starts EXCEPT ![j] = @ + 1]
  /\ SetRun(j, starts[j] + 1, Fresh)
  /\ UNCHANGED <<key, result, log, storeVars, worldVars, forgeVars>>

Start(j) ==
  Lifecycle!Start({j}) /\ ~Locked(j) /\ NewAttempt(j) /\ UNCHANGED faults

\* The lease expired: the attempt before is dead, or slow, which is a fault.
Reclaim(j) ==
  /\ state[j] = "running" /\ ~Locked(j)
  /\ NewAttempt(j)
  /\ IF Active(j, starts[j]) THEN Fault ELSE UNCHANGED faults
  /\ UNCHANGED state

-----------------------------------------------------------------------------
(* ctx.step: lookup, function, record *)

\* The function of the step is called.  Those of two steps only read and
\* compute, and are modelled by their outcomes: loadContext refuses a revoked
\* installation, and an archived or unknown repository at any time.
Called(r) ==
  CASE r.at = "load-context" ->
         {End(r, "unavailable")} \cup
           (IF revoked THEN {} ELSE {Returns(r, "done")})
    [] r.at = "evaluate-policy" ->
         {Returns(r, Verdict[r.seen["generate-migration"]])}
    [] OTHER -> {[r EXCEPT !.phase = "function"]}

Lookup(j, n) ==
  LET r == run[j][n]
      v == log[j][r.at]
  IN  /\ r.phase = "lookup" /\ r.tx = "open"
      /\ \E s \in (IF v = None THEN Called(r) ELSE {Given(r, v)}) :
           SetRun(j, n, s)
      /\ UNCHANGED <<rowVars, storeVars, worldVars, forgeVars, faults>>

\* Mutant of Record: an attempt goes on with its own result.
Record_KeepsOwn(j, n) ==
  LET r == run[j][n]
      v == log[j][r.at]
  IN  /\ r.phase = "result" /\ r.tx = "open" /\ state[j] # "deleted"
      /\ IF v # None
         THEN SetRun(j, n, Given(r, r.out))
         ELSE /\ \A m \in AttemptNos :
                   run[j][m].tx = "open" => r.at \notin run[j][m].own
              /\ SetRun(j, n, Given([r EXCEPT !.own = @ \cup {r.at}], r.out))
      /\ UNCHANGED <<rowVars, storeVars, worldVars, forgeVars, faults>>

\* record_job_step: the first record of a step wins, and waits for whoever
\* holds an uncommitted one.
Record(j, n) ==
  LET r == run[j][n]
      v == log[j][r.at]
  IN  /\ r.phase = "result" /\ r.tx = "open" /\ state[j] # "deleted"
      /\ IF v # None
         THEN SetRun(j, n, Given(r, v))
         ELSE /\ \A m \in AttemptNos :
                   run[j][m].tx = "open" => r.at \notin run[j][m].own
              /\ SetRun(j, n, Given([r EXCEPT !.own = @ \cup {r.at}], r.out))
      /\ UNCHANGED <<rowVars, storeVars, worldVars, forgeVars, faults>>

\* The wait outlasts the statement timeout, or the job row is gone: the
\* transaction is aborted, and its commit will do nothing.
RecordFails(j, n) ==
  LET r == run[j][n]
  IN  /\ r.phase = "result" /\ r.tx = "open"
      /\ \/ state[j] = "deleted"
         \/ \E m \in AttemptNos : run[j][m].tx = "open" /\ r.at \in run[j][m].own
      /\ SetRun(j, n, [End(r, "error") EXCEPT !.tx = "aborted"])
      /\ UNCHANGED <<rowVars, storeVars, worldVars, forgeVars, faults>>

\* The function throws, before its effect or after it: a lost response.
Throws(j, n) ==
  LET r == run[j][n]
  IN  /\ r.phase \in {"function", "claim", "ref", "pull", "result"}
      /\ r.at # "evaluate-policy"
      /\ Fault
      /\ SetRun(j, n, End(r, "error"))
      /\ UNCHANGED <<rowVars, storeVars, worldVars, forgeVars>>

-----------------------------------------------------------------------------
(* The functions of the steps *)

\* authoriseOutboundWrite, up to the claim.  The kill switch, the
\* subscription and the ceilings may be found either way at any time.
CheckBrakes(j, n) ==
  /\ In(j, n, "authorise-write", "function")
  /\ \/ SetRun(j, n, Returns(run[j][n], "refused"))
     \/ suppressed /\ SetRun(j, n, Returns(run[j][n], "suppressed"))
     \/ ~suppressed /\ SetRun(j, n, [run[j][n] EXCEPT !.phase = "claim"])
  /\ UNCHANGED <<rowVars, storeVars, worldVars, forgeVars, faults>>

\* A claim nobody holds: no row yet, or a claim that expired.
Claimable(w) == w.status = "none" \/ (w.status = "claimed" /\ w.expired)

\* Mutant of Claim: a row nobody resolved is granted to whoever asks.
Claim_Unresolved(j, n) ==
  LET w == write[key[j]]
  IN  /\ In(j, n, "authorise-write", "claim")
      /\ IF w.status = "none"
         THEN write' = [write EXCEPT ![key[j]] =
                          [w EXCEPT !.status = "claimed", !.attempts = @ + 1]]
         ELSE UNCHANGED write
      /\ SetRun(j, n, Returns(run[j][n], IF w.status \in {"none", "claimed"}
                                         THEN "granted" ELSE "already-written"))
      /\ UNCHANGED <<rowVars, tokens, worldVars, forgeVars, faults>>

\* claim_outbound_write
Claim(j, n) ==
  LET w == write[key[j]]
  IN  /\ In(j, n, "authorise-write", "claim")
      /\ IF Claimable(w)
         THEN /\ write' = [write EXCEPT ![key[j]] =
                             [w EXCEPT !.status = "claimed", !.expired = FALSE,
                                       !.attempts = @ + 1]]
              /\ SetRun(j, n, Returns(run[j][n], "granted"))
         ELSE /\ SetRun(j, n, Returns(run[j][n], "already-written"))
              /\ UNCHANGED write
      /\ UNCHANGED <<rowVars, tokens, worldVars, forgeVars, faults>>

\* The agent proposes a diff, finds nothing to change, or gives up.
Generate(j, n) ==
  /\ In(j, n, "generate-migration", "function")
  /\ \/ \E d \in Diffs : SetRun(j, n, Returns(run[j][n], d))
     \/ \E e \in {"no-changes", "no-migration"} :
          SetRun(j, n, End(run[j][n], e))
  /\ UNCHANGED <<rowVars, storeVars, worldVars, forgeVars, faults>>

\* Mutants of Resolve: whatever the row's status, and not noticing it.
Resolve_Unguarded(j, n, st, pr) ==
  /\ write' = [write EXCEPT ![key[j]].status = st, ![key[j]].pr = pr]
  /\ SetRun(j, n, Returns(run[j][n], "done"))
  /\ UNCHANGED <<rowVars, tokens, worldVars, forgeVars, faults>>

Resolve_Silent(j, n, st, pr) ==
  /\ write' = IF write[key[j]].status = "claimed"
              THEN [write EXCEPT ![key[j]].status = st, ![key[j]].pr = pr]
              ELSE write
  /\ SetRun(j, n, Returns(run[j][n], "done"))
  /\ UNCHANGED <<rowVars, tokens, worldVars, forgeVars, faults>>

\* resolve_outbound_write raises when the row is not claimed.
Resolve(j, n, st, pr) ==
  LET r == run[j][n]
      w == write[key[j]]
  IN  /\ IF w.status = "claimed"
         THEN /\ write' = [write EXCEPT ![key[j]] =
                             [w EXCEPT !.status = st, !.pr = pr]]
              /\ SetRun(j, n, Returns(r, "done"))
         ELSE /\ SetRun(j, n, End(r, "error"))
              /\ UNCHANGED write
      /\ UNCHANGED <<rowVars, tokens, worldVars, forgeVars, faults>>

RecordRefusal(j, n) ==
  /\ \E k \in {"record-rejection", "record-escalation"} : In(j, n, k, "function")
  /\ Resolve(j, n, "failed", None)

\* Mutant of RecordSuccess: the result of another step.
RecordSuccess_WrongStep(j, n) ==
  /\ In(j, n, "record-result", "function")
  /\ Resolve(j, n, "succeeded", run[j][n].seen["generate-migration"])

RecordSuccess(j, n) ==
  /\ In(j, n, "record-result", "function")
  /\ Resolve(j, n, "succeeded", run[j][n].seen["open-pr"])

\* The hash of a fresh token is committed before the link is printed.
MintToken(j, n) ==
  /\ In(j, n, "mint-opt-out-token", "function")
  /\ tokens' = tokens \cup {<<j, n>>}
  /\ SetRun(j, n, Returns(run[j][n], <<j, n>>))
  /\ UNCHANGED <<rowVars, write, worldVars, forgeVars, faults>>

\* openPullRequest: a branch that exists is an earlier attempt's, and only
\* its open pull request will do.
FindBranch(j, n) ==
  LET r == run[j][n]
  IN  /\ In(j, n, "open-pr", "function")
      /\ SetRun(j, n, CASE branch = None -> [r EXCEPT !.phase = "ref"]
                        [] branch # None /\ open # None -> Returns(r, open)
                        [] OTHER -> End(r, "error"))
      /\ UNCHANGED <<rowVars, storeVars, worldVars, forgeVars, faults>>

\* Mutant of CreateRef: a ref that exists will do.
CreateRef_Tolerant(j, n) ==
  LET r == run[j][n]
  IN  /\ In(j, n, "open-pr", "ref")
      /\ IF branch = None
         THEN branch' = r.seen["generate-migration"] /\ refs' = refs + 1
         ELSE UNCHANGED <<branch, refs>>
      /\ SetRun(j, n, [r EXCEPT !.phase = "pull"])
      /\ UNCHANGED <<rowVars, storeVars, worldVars, prs, open, faults>>

CreateRef(j, n) ==
  LET r == run[j][n]
  IN  /\ In(j, n, "open-pr", "ref")
      /\ IF branch = None
         THEN /\ branch' = r.seen["generate-migration"] /\ refs' = refs + 1
              /\ SetRun(j, n, [r EXCEPT !.phase = "pull"])
         ELSE /\ SetRun(j, n, End(r, "error"))
              /\ UNCHANGED <<branch, refs>>
      /\ UNCHANGED <<rowVars, storeVars, worldVars, prs, open, faults>>

\* Mutant of CreatePullRequest: every attempt prints a token of its own.
CreatePullRequest_FreshToken(j, n) ==
  LET r == run[j][n]
  IN  /\ In(j, n, "open-pr", "pull")
      /\ IF branch # None /\ open = None
         THEN /\ prs' = Append(prs, [diff |-> branch, token |-> <<j, n>>])
              /\ open' = Len(prs) + 1
              /\ SetRun(j, n, Returns(r, Len(prs) + 1))
         ELSE /\ SetRun(j, n, IF open # None THEN Returns(r, open)
                                             ELSE End(r, "error"))
              /\ UNCHANGED <<prs, open>>
      /\ UNCHANGED <<rowVars, storeVars, worldVars, branch, refs, faults>>

\* The forge refuses a second open pull request for a branch, and one for a
\* branch that is gone; the first refusal resolves to the open one.
CreatePullRequest(j, n) ==
  LET r == run[j][n]
  IN  /\ In(j, n, "open-pr", "pull")
      /\ IF branch # None /\ open = None
         THEN /\ prs' = Append(prs, [diff  |-> branch,
                                     token |-> r.seen["mint-opt-out-token"]])
              /\ open' = Len(prs) + 1
              /\ SetRun(j, n, Returns(r, Len(prs) + 1))
         ELSE /\ SetRun(j, n, IF open # None THEN Returns(r, open)
                                             ELSE End(r, "error"))
              /\ UNCHANGED <<prs, open>>
      /\ UNCHANGED <<rowVars, storeVars, worldVars, branch, refs, faults>>

-----------------------------------------------------------------------------
(* runJob: commit, report, and the ways an attempt disappears *)

\* The transaction of the handler ends, with the steps the attempt recorded
\* unless it was aborted.
Commit(j, n) ==
  LET r == run[j][n]
  IN  /\ r.phase = "returned" /\ r.tx # "lost"
      /\ log' = IF r.tx = "open"
                THEN [log EXCEPT ![j] = [k \in Steps |->
                        IF k \in r.own THEN r.seen[k] ELSE log[j][k]]]
                ELSE log
      /\ SetRun(j, n, [NoAttempt EXCEPT !.phase = "committed", !.at = r.at])
      /\ UNCHANGED <<state, key, starts, result, storeVars, worldVars,
                     forgeVars, faults>>

\* leased_by names a worker, not an attempt: the latest attempt's worker holds
\* the lease, and an earlier attempt may well have been the same worker's.
MayHoldLease(j, n) == IF n = starts[j] THEN {TRUE} ELSE BOOLEAN

\* complete_job, fail_job or #kill, by the holder of the lease; from anybody
\* else the report changes nothing.
Report(j, n) ==
  LET e == run[j][n].at
  IN  \E holds \in MayHoldLease(j, n) :
      /\ run[j][n].phase = "committed"
      /\ IF state[j] = "running" /\ holds
         THEN /\ CASE e \in Succeeds -> Lifecycle!Finish(j, "succeeded")
                   [] e \in Kills    -> Lifecycle!Finish(j, "dead")
                   [] OTHER -> IF starts[j] >= MaxAttempts
                               THEN Lifecycle!Finish(j, "dead")
                               ELSE Lifecycle!Retry(j)
              /\ result' = [result EXCEPT ![j] = e]
         ELSE UNCHANGED <<state, result>>
      /\ SetRun(j, n, NoAttempt)
      /\ UNCHANGED <<key, starts, log, storeVars, worldVars, forgeVars, faults>>

\* The worker process dies: its transaction is rolled back, what it
\* committed elsewhere stays.
Crash(j, n) ==
  /\ Active(j, n)
  /\ Fault
  /\ SetRun(j, n, NoAttempt)
  /\ UNCHANGED <<rowVars, storeVars, worldVars, forgeVars>>

\* The idle connection of the handler's transaction is lost: its records are
\* rolled back, and the attempt finds out at its next query.
LoseConnection(j, n) ==
  /\ run[j][n].tx = "open"
  /\ Fault
  /\ SetRun(j, n, [run[j][n] EXCEPT !.tx = "lost"])
  /\ UNCHANGED <<rowVars, storeVars, worldVars, forgeVars>>

FindsConnectionLost(j, n) ==
  /\ run[j][n].tx = "lost" /\ run[j][n].phase \in {"lookup", "result", "returned"}
  /\ SetRun(j, n, NoAttempt)
  /\ UNCHANGED <<rowVars, storeVars, worldVars, forgeVars, faults>>

-----------------------------------------------------------------------------
(* Time, operators and maintainers *)

ClaimExpires(c) ==
  /\ write[c].status = "claimed" /\ ~write[c].expired
  /\ write' = [write EXCEPT ![c].expired = TRUE]
  /\ UNCHANGED <<rowVars, run, tokens, worldVars, forgeVars, faults>>

\* The link in one of our pull requests to this repository is clicked, or
\* in one for another change.  Opting out is permanent.
OptOut ==
  /\ ~suppressed /\ suppressed' = TRUE
  /\ UNCHANGED <<rowVars, run, storeVars, revoked, forgeVars, faults>>

\* The maintainer merges or closes the pull request.
ClosePullRequest ==
  /\ open # None /\ open' = None
  /\ UNCHANGED <<rowVars, run, storeVars, worldVars, branch, refs, prs, faults>>

\* Deleting the branch closes what is open on it.
DeleteBranch ==
  /\ branch # None /\ branch' = None /\ open' = None
  /\ UNCHANGED <<rowVars, run, storeVars, worldVars, refs, prs, faults>>

-----------------------------------------------------------------------------

Init ==
  /\ Lifecycle!Init
  /\ key = [j \in Jobs |-> None]
  /\ starts = [j \in Jobs |-> 0]
  /\ result = [j \in Jobs |-> None]
  /\ log = [j \in Jobs |-> NoSteps]
  /\ run = [j \in Jobs |-> [n \in AttemptNos |-> NoAttempt]]
  /\ write = [c \in Claims |-> NoWrite]
  /\ tokens = {}
  /\ suppressed = FALSE /\ revoked = FALSE
  /\ branch = None /\ refs = 0 /\ prs = <<>> /\ open = None
  /\ faults = 0

JobStep(j) ==
  \/ \E c \in Claims : Submit(j, c)
  \/ Start(j) \/ Reclaim(j)

StepFunction(j, n) ==
  \/ CheckBrakes(j, n) \/ Claim(j, n) \/ Generate(j, n)
  \/ RecordRefusal(j, n) \/ MintToken(j, n)
  \/ FindBranch(j, n) \/ CreateRef(j, n) \/ CreatePullRequest(j, n)
  \/ RecordSuccess(j, n)

Runtime(j, n) ==
  \/ Lookup(j, n) \/ Record(j, n) \/ RecordFails(j, n) \/ Throws(j, n)
  \/ Commit(j, n) \/ Report(j, n)

Failure(j, n) ==
  Crash(j, n) \/ LoseConnection(j, n) \/ FindsConnectionLost(j, n)

World ==
  \/ \E c \in Claims : ClaimExpires(c)
  \/ Revoke \/ Reinstate \/ Clear
  \/ OptOut \/ ClosePullRequest \/ DeleteBranch

Next ==
  \/ \E j \in Jobs : JobStep(j)
  \/ \E j \in Jobs, n \in AttemptNos :
       StepFunction(j, n) \/ Runtime(j, n) \/ Failure(j, n)
  \/ World

Spec == Init /\ [][Next]_vars

-----------------------------------------------------------------------------
(* Properties *)

AttemptOK(r) ==
  /\ r \in [phase : Phases, at : Steps \cup Ends, out : {r.out},
            seen : {r.seen}, own : SUBSET Steps,
            tx : {"none", "open", "aborted", "lost"}]
  /\ r.out = None \/ (r.at \in Steps /\ r.out \in Results(r.at))
  /\ StepLog(r.seen)

TypeOK ==
  /\ state \in [Jobs -> Lifecycle!States]
  /\ key \in [Jobs -> Claims \cup {None}]
  /\ starts \in [Jobs -> 0 .. MaxStarts]
  /\ result \in [Jobs -> Ends \cup {None}]
  /\ log = [j \in Jobs |-> log[j]] /\ \A j \in Jobs : StepLog(log[j])
  /\ run = [j \in Jobs |-> [n \in AttemptNos |-> run[j][n]]]
  /\ \A j \in Jobs, n \in AttemptNos : AttemptOK(run[j][n])
  /\ write \in [Claims -> Writes]
  /\ tokens \subseteq Tokens
  /\ {suppressed, revoked} \subseteq BOOLEAN
  /\ branch \in Diffs \cup {None} /\ refs \in Nat
  /\ prs \in Seq([diff : Diffs, token : Tokens])
  /\ open \in (1 .. Len(prs)) \cup {None}
  /\ faults \in 0 .. MaxFaults

\* However often jobs crash, overlap, lose responses and are retried, a
\* branch gets one pull request from the moment it is created: a closed one
\* is never opened again, and a second needs a maintainer's delete
\* (openPullRequest, reconcileExistingBranch).  The branch is named after
\* the change alone, so this holds of jobs on different bases too, which is
\* what MovedBaseIsWritten has against it.
OnePullRequestPerBranch == Len(prs) <= refs

\* Whoever clicks the opt-out link of a pull request finds it works, in
\* those a crashed attempt left behind too (step mint-opt-out-token).
PublishedLinksWork == \A i \in 1 .. Len(prs) : prs[i].token \in tokens

\* What was published passed the diff policy, although concurrent attempts
\* generate different diffs and the verdict a retry replays may be about
\* another attempt's ("the recorded result wins").
PublishedDiffsWereVetted ==
  \A i \in 1 .. Len(prs) : Verdict[prs[i].diff] = "allow"

\* Concurrent attempts of one job agree: what a live one was given for a
\* step is what was committed for it.
ReplayAgreesWithLog ==
  \A j \in Jobs, n \in AttemptNos, k \in Steps :
    /\ run[j][n].tx = "open" /\ state[j] # "deleted"
    /\ run[j][n].seen[k] # None /\ log[j][k] # None
    => run[j][n].seen[k] = log[j][k]

\* No two attempts own one write: an attempt that asked and was granted the
\* claim is one of those the row's attempts counter admits to, so a claim is
\* shared only through a reclaim that is visible in it.
GrantsAreCounted ==
  \A c \in Claims :
    Cardinality({p \in Jobs \X AttemptNos :
                   LET r == run[p[1]][p[2]]
                   IN  /\ key[p[1]] = c
                       /\ "authorise-write" \in r.own
                       /\ r.seen["authorise-write"] = "granted"})
      <= write[c].attempts

\* The table never claims a pull request that was not opened, and a job
\* reported as having opened one left its row resolved.
RecordsAreTrue ==
  /\ \A c \in Claims : write[c].status = "succeeded" =>
       write[c].pr \in 1 .. Len(prs)
  /\ \A j \in Jobs : result[j] = "opened" =>
       write[key[j]].status = "succeeded"

\* ADR-0004: "if the repository has moved on, it is a genuinely different
\* migration and should produce a new PR rather than being suppressed as a
\* duplicate": a job that reports a pull request opened names, in its row, one
\* opened from its own base.  The token of a pull request tells whose it is.
MovedBaseIsWritten ==
  \A j \in Jobs : result[j] = "opened" =>
    key[prs[write[key[j]].pr].token[1]] = key[j]

\* A resolved row is never resolved again or claimed again, by a slow
\* attempt, a retry or a job planned anew (resolve_outbound_write).
ResolvedIsFinal ==
  [][\A c \in Claims :
       write[c].status \in {"succeeded", "failed"} => write'[c] = write[c]]_vars

\* migrate-repository.ts: "Another attempt, or a previous run, already did
\* this": a job skipped as already written has its write resolved, or
\* somebody else is still at it.
SkippedIsWritten ==
  \A j \in Jobs : result[j] = "already-written" =>
    \/ write[key[j]].status \in {"succeeded", "failed"}
    \/ \E i \in Jobs, n \in AttemptNos : Active(i, n) /\ key[i] = key[j]

\* suppression.ts: "Checked before every outbound write": once the
\* maintainer opted out, no attempt gets past authorise-write.
OptOutIsHonoured ==
  [][\A j \in Jobs, n \in AttemptNos :
       suppressed /\ In(j, n, "authorise-write", "lookup") =>
         run'[j][n].seen["authorise-write"] # "granted"]_vars
=============================================================================
