------------------------------- MODULE Outbound -------------------------------
(***************************************************************************)
(* The brakes every outbound write passes, with everyone who works them:   *)
(* src/outbound/guard.ts, src/outbound/suppression.ts,                     *)
(* src/http/opt-out.ts, over migrations/002 and 005, for the jobs of one   *)
(* installation.  The brakes are read in one transaction and the claim is  *)
(* taken in the same one, but READ COMMITTED: what the others claim in     *)
(* between is not seen.  MigrationPipeline has what becomes of one job.    *)
(***************************************************************************)
EXTENDS Integers, FiniteSets

CONSTANTS
  Jobs,           \* each with a write of its own: a change and a base commit
  Targets,        \* repositories, each with opt-out links out
  TargetOf,       \* TargetOf[j]
  Slots,          \* attempts at once, those that outlived their lease included
  MaxPerHour,     \* max_writes_per_hour
  MaxOpen,        \* max_open_prs
  MaxSwitches     \* bound: what operators, payers, maintainers and clocks do

ASSUME OutboundAssumption ==
  /\ TargetOf \in [Jobs -> Targets]
  /\ {Slots, MaxPerHour, MaxOpen, MaxSwitches} \subseteq Nat \ {0}

VARIABLES
  halted,        \* outbound_kill_switch
  entitled,      \* Entitled, of Billing
  suppression,   \* the repositories with a row; no caller gives one an expiry
  write,         \* write[j]: its outbound_write row
  stage,         \* stage[j] of the job
  switches

outboundVars == <<halted, entitled, suppression, write, stage, switches>>

NoWrite == [status |-> "none", recent |-> FALSE, expired |-> FALSE, heldOver |-> FALSE, merged |-> FALSE]
Writes == [status : {"none", "claimed", "succeeded", "failed"},
           recent : BOOLEAN, expired : BOOLEAN, heldOver : BOOLEAN, merged : BOOLEAN]
Running == {"started", "cleared", "writing"}
Switch == switches < MaxSwitches /\ switches' = switches + 1
AtJobs == UNCHANGED <<halted, entitled, suppression, switches>>

-----------------------------------------------------------------------------
(* Operators, payers, maintainers, clocks *)

\* setKillSwitch.
FlipKillSwitch ==
  /\ Switch /\ halted' = ~halted
  /\ UNCHANGED <<entitled, suppression, write, stage>>

FlipEntitlement ==
  /\ Switch /\ entitled' = ~entitled
  /\ UNCHANGED <<halted, suppression, write, stage>>

\* handleOptOut, when the button is pressed; opening the page changes nothing,
\* and neither does pressing it again.
RedeemOptOut(r) ==
  /\ Switch /\ suppression' = suppression \cup {r}
  /\ UNCHANGED <<halted, entitled, write, stage>>

HourPasses ==
  /\ Switch
  /\ write' = [j \in Jobs |-> [write[j] EXCEPT !.recent = FALSE]]
  /\ UNCHANGED <<halted, entitled, suppression, stage>>

-----------------------------------------------------------------------------
(* authoriseOutboundWrite *)

\* A slot takes the job up, from its grant when it has one.
Start(j) ==
  /\ stage[j] \in {"queued", "granted"}
  /\ Cardinality({k \in Jobs : stage[k] \in Running}) < Slots
  /\ stage' = [stage EXCEPT ![j] = IF @ = "queued" THEN "started" ELSE "writing"]
  /\ UNCHANGED write /\ AtJobs

\* Every row counts that was claimed within the hour, and every write that
\* ever succeeded, merged or not.
WithinCeilings ==
  /\ Cardinality({k \in Jobs : write[k].recent}) < MaxPerHour
  /\ Cardinality({k \in Jobs : write[k].status = "succeeded"}) < MaxOpen

\* Mutant of Brakes: the ceilings are not read.
Brakes_NoCeilings(j) == ~halted /\ TargetOf[j] \notin suppression /\ entitled

\* Kill switch, suppression, entitlement, ceilings.
Brakes(j) ==
  /\ ~halted
  /\ TargetOf[j] \notin suppression
  /\ entitled
  /\ WithinCeilings

PassBrakes(j) ==
  /\ stage[j] = "started"
  /\ stage' = [stage EXCEPT ![j] = IF Brakes(j) THEN "cleared" ELSE "refused"]
  /\ UNCHANGED write /\ AtJobs

\* claim_outbound_write: a new row, or a claim that has expired.
ClaimWrite(j) ==
  /\ stage[j] = "cleared"
  /\ IF write[j].status = "none" \/ (write[j].status = "claimed" /\ write[j].expired)
     THEN /\ write' = [write EXCEPT ![j].status = "claimed", ![j].recent = TRUE, ![j].expired = FALSE]
          /\ stage' = [stage EXCEPT ![j] = "writing"]
     ELSE stage' = [stage EXCEPT ![j] = "refused"] /\ UNCHANGED write
  /\ AtJobs

\* recordOutboundResult: the pull request, or the refusal of its diff.
RecordResult(j, status) ==
  /\ stage[j] = "writing"
  /\ write' = [write EXCEPT ![j].status = status]
  /\ stage' = [stage EXCEPT ![j] = "done"]
  /\ AtJobs

\* The model or the forge fails: the grant is a step's result, and the retry
\* goes on from it without asking again.
AttemptFails(j) ==
  /\ stage[j] = "writing" /\ Switch
  /\ stage' = [stage EXCEPT ![j] = "granted"]
  /\ write' = [write EXCEPT ![j].heldOver = TRUE]
  /\ UNCHANGED <<halted, entitled, suppression>>

\* The process dies: the claim stays, and the retry asks for it, unless an
\* attempt before committed the grant.
AttemptDies(j) ==
  /\ stage[j] \in Running /\ Switch
  /\ stage' = [stage EXCEPT ![j] = IF write[j].heldOver THEN "granted" ELSE "queued"]
  /\ UNCHANGED <<halted, entitled, suppression, write>>

ClaimExpires(j) ==
  /\ write[j].status = "claimed" /\ ~write[j].expired /\ Switch
  /\ write' = [write EXCEPT ![j].expired = TRUE]
  /\ UNCHANGED <<halted, entitled, suppression, stage>>

\* recordPullRequestOutcome: nothing reads it.
Merge(j) ==
  /\ write[j].status = "succeeded" /\ ~write[j].merged
  /\ write' = [write EXCEPT ![j].merged = TRUE]
  /\ UNCHANGED stage /\ AtJobs

-----------------------------------------------------------------------------
OutboundInit ==
  /\ halted = FALSE /\ entitled = TRUE /\ switches = 0
  /\ suppression = {}
  /\ write = [j \in Jobs |-> NoWrite] /\ stage = [j \in Jobs |-> "queued"]

OutboundNext ==
  \/ FlipKillSwitch \/ FlipEntitlement \/ HourPasses
  \/ \E r \in Targets : RedeemOptOut(r)
  \/ \E j \in Jobs :
       \/ Start(j) \/ PassBrakes(j) \/ ClaimWrite(j) \/ Merge(j)
       \/ AttemptFails(j) \/ AttemptDies(j) \/ ClaimExpires(j)
       \/ \E status \in {"succeeded", "failed"} : RecordResult(j, status)

-----------------------------------------------------------------------------
(* Properties *)

OutboundTypeOK ==
  /\ halted \in BOOLEAN /\ entitled \in BOOLEAN
  /\ suppression \subseteq Targets
  /\ write \in [Jobs -> Writes] /\ switches \in 0 .. MaxSwitches
  /\ stage \in [Jobs -> Running \cup {"queued", "granted", "refused", "done"}]
  /\ \A j \in Jobs : stage[j] \in {"writing", "granted"} => write[j].status = "claimed"

\* Neither ceiling is overshot by more than the attempts that pass the brakes
\* at the same time, whatever crashes and is claimed anew
\* (src/outbound/guard.ts:118).  That of open pull requests: by those and by the
\* ones that were granted below it and failed at first.
OvershootIsBounded ==
  /\ Cardinality({j \in Jobs : write[j].recent}) <= MaxPerHour + Slots - 1
  /\ Cardinality({j \in Jobs : write[j].status = "succeeded" /\ ~write[j].heldOver}) <= MaxOpen + Slots - 1
=============================================================================
