------------------------------ MODULE Enrolment ------------------------------
(***************************************************************************)
(* How a GitHub installation becomes a tenant's, and stops being it:       *)
(* src/http/webhook.ts (the claim of a delivery), webhook-apply.ts,        *)
(* setup.ts, src/billing/limits.ts and their wiring in                     *)
(* src/main/run-server.ts, over migrations/006, 008, 011 and 013.          *)
(* Deliveries of GitHub and the customer's browser race; every numbered    *)
(* step is a transaction of its own.                                       *)
(*                                                                         *)
(* A self-serve deployment: no DEFAULT_PROVIDER_SLUG.  Revocation's effect *)
(* on queued jobs is JobQueue's CancelQueued; pull_request.closed and push *)
(* touch nothing here.                                                     *)
(***************************************************************************)
EXTENDS Billing

CONSTANTS
  Installations,
  Repositories,
  InstallationOf,  \* InstallationOf[r]
  Browsers,        \* requests to /setup that may be open at once
  MaxHooks         \* bound: what happens to installations at GitHub

VARIABLES
  forge,        \* forge[i]: the installation at GitHub
  hooks,        \* deliveries on their way
  seen,         \* webhook_delivery
  applying,     \* deliveries past their claim
  applied,      \* deliveries that have taken effect
  installation, \* installation[t][i]
  repository,   \* repository[t][r]
  pending,      \* pending_installation: {} or {the parked selection}
  setup,        \* setup[b]: a request to /setup
  brought       \* which customers brought which installation to /setup

enrolmentVars == <<forge, hooks, seen, applying, applied, installation, repository,
                   pending, setup, brought>>

ASSUME EnrolmentAssumption == MaxHooks \in Nat

GrantOf(i) == {r \in Repositories : InstallationOf[r] = i}
Shut == [at |-> "shut", install |-> "none", tenant |-> Nowhere, taken |-> {}]

-----------------------------------------------------------------------------
(* GitHub *)

AtForge == UNCHANGED <<seen, applying, applied, installation, repository, pending, setup, brought>>

Sends(i, state, type, repos) ==
  /\ forge[i].sent < MaxHooks
  /\ forge' = [forge EXCEPT ![i] = [state |-> state, sent |-> @.sent + 1]]
  /\ hooks' = hooks \cup {[install |-> i, n |-> forge[i].sent, type |-> type, repos |-> repos]}
  /\ AtForge

ForgeActs(i) ==
  \/ /\ forge[i].state = "absent"
     /\ \E repos \in SUBSET GrantOf(i) : Sends(i, "installed", "created", repos)
  \/ /\ forge[i].state = "installed"
     /\ \/ Sends(i, "absent", "revoked", {})
        \/ Sends(i, "suspended", "suspended", {})
        \/ \E r \in GrantOf(i) : Sends(i, "installed", "added", {r}) \/ Sends(i, "installed", "removed", {r})
  \/ forge[i].state = "suspended" /\ Sends(i, "installed", "unsuspended", {})

\* A delivery that was answered is sent again.
Redeliver(h) ==
  /\ h \in seen /\ h \notin hooks /\ Mishap
  /\ hooks' = hooks \cup {h}
  /\ UNCHANGED forge /\ AtForge

-----------------------------------------------------------------------------
(* handleWebhook and applyForgeEvent *)

AtWebhook == UNCHANGED <<forge, setup, brought>>
Took(d, at, tenant, accepted) ==
  (applying \ {d}) \cup {[d EXCEPT !.at = at, !.tenant = tenant, !.accepted = accepted]}

\* Mutants of Receive: the claim is not written, and not looked at.
Receive_Unwritten(h) ==
  /\ h \in hooks /\ h \notin seen
  /\ applying' = applying \cup {[hook |-> h, at |-> "claimed", tenant |-> Nowhere, accepted |-> {}]}
  /\ UNCHANGED <<hooks, seen, applied, installation, repository, pending, mishaps>> /\ AtWebhook

Receive_Unclaimed(h) ==
  /\ h \in hooks /\ \A d \in applying : d.hook # h
  /\ seen' = seen \cup {h}
  /\ applying' = applying \cup {[hook |-> h, at |-> "claimed", tenant |-> Nowhere, accepted |-> {}]}
  /\ UNCHANGED <<hooks, applied, installation, repository, pending, mishaps>> /\ AtWebhook

\* 1. claim_webhook_delivery; a delivery that was claimed before is answered.
Receive(h) ==
  /\ h \in hooks
  /\ IF h \in seen
     THEN hooks' = hooks \ {h} /\ UNCHANGED <<seen, applying>>
     ELSE /\ seen' = seen \cup {h}
          /\ applying' = applying \cup {[hook |-> h, at |-> "claimed", tenant |-> Nowhere, accepted |-> {}]}
          /\ UNCHANGED hooks
  /\ UNCHANGED <<applied, installation, repository, pending, mishaps>> /\ AtWebhook

Holders(i) == {t \in Tenants : installation[t][i] # "none"}

\* Mutant of LookUp: what no tenant has goes to any of them.
LookUp_AnyTenant(d) ==
  /\ d.at = "claimed"
  /\ \E t \in IF Holders(d.hook.install) = {} THEN {u \in Tenants : provider[u].exists} ELSE Holders(d.hook.install) :
       applying' = Took(d, "known", t, {})
  /\ UNCHANGED <<hooks, seen, applied, installation, repository, pending, mishaps>> /\ AtWebhook

\* 2. provider_for_installation: any tenant that has the installation.
LookUp(d) ==
  /\ d.at = "claimed"
  /\ \E t \in IF Holders(d.hook.install) = {} THEN {Nowhere} ELSE Holders(d.hook.install) :
       applying' = Took(d, "known", t, {})
  /\ UNCHANGED <<hooks, seen, applied, installation, repository, pending, mishaps>> /\ AtWebhook

Live(t) == {r \in Repositories : repository[t][r] = "live"}

\* applyRepositoryLimit: what is known, and new ones while there is room; a
\* tenant without a subscription has no limit.
Acceptable(t, repos) ==
  LET room == IF subscription[t].plan = "none" THEN Cardinality(repos)
              ELSE Plans[subscription[t].plan] - Cardinality(Live(t))
      new == repos \ Live(t)
      taken == IF room < 0 THEN 0 ELSE IF room > Cardinality(new) THEN Cardinality(new) ELSE room
  IN  {(repos \cap Live(t)) \cup some : some \in {u \in SUBSET new : Cardinality(u) = taken}}

Grants(d) == d.hook.type \in {"created", "added"}

\* 3. The limit is read ...
CountRoom(d) ==
  /\ d.at = "known" /\ d.tenant # Nowhere /\ Grants(d)
  /\ \E accepted \in Acceptable(d.tenant, d.hook.repos) :
       applying' = Took(d, "counted", d.tenant, accepted)
  /\ UNCHANGED <<hooks, seen, applied, installation, repository, pending, mishaps>> /\ AtWebhook

Answered(d) ==
  /\ applying' = applying \ {d} /\ hooks' = hooks \ {d.hook} /\ applied' = applied \cup {d.hook}
  /\ UNCHANGED <<seen, mishaps>> /\ AtWebhook

\* ... and the grant recorded, in one transaction with it: reinstate, addRepositories.
Grant(d) ==
  /\ d.at = "counted"
  /\ repository' = [repository EXCEPT ![d.tenant] =
       [r \in Repositories |-> IF r \in d.accepted THEN "live" ELSE @[r]]]
  /\ installation' = IF d.hook.type = "created"
                     THEN [installation EXCEPT ![d.tenant][d.hook.install] = "live"]
                     ELSE installation
  /\ UNCHANGED pending /\ Answered(d)

\* 3. The other events of an installation we know: revoke, unsuspend, removeRepositories.
Adjust(d) ==
  LET t == d.tenant
      i == d.hook.install
  IN  /\ d.at = "known" /\ t # Nowhere /\ ~Grants(d)
      /\ installation' = CASE d.hook.type = "removed" -> installation
                           [] d.hook.type = "unsuspended" -> [installation EXCEPT ![t][i] = "live"]
                           [] OTHER -> [installation EXCEPT ![t][i] = "suspended"]
      /\ repository' = [repository EXCEPT ![t] =
           [r \in Repositories |-> IF d.hook.type = "removed" /\ r \in d.hook.repos /\ @[r] = "live"
                                   THEN "archived" ELSE @[r]]]
      /\ UNCHANGED pending /\ Answered(d)

\* 3. Unknown: a new installation is parked, anything else means nothing.
Park(d) ==
  /\ d.at = "known" /\ d.tenant = Nowhere
  /\ pending' = IF d.hook.type = "created" THEN [pending EXCEPT ![d.hook.install] = {d.hook.repos}]
                                           ELSE pending
  /\ UNCHANGED <<installation, repository>> /\ Answered(d)

\* It throws, or the process dies: the claim of the delivery stays.
HookDies(d) ==
  /\ Mishap
  /\ applying' = applying \ {d}
  /\ UNCHANGED <<hooks, seen, applied, installation, repository, pending>> /\ AtWebhook

-----------------------------------------------------------------------------
(* handleSetup *)

AtSetup == UNCHANGED <<forge, hooks, seen, applying, applied>>
Goes(b, at) == setup' = [setup EXCEPT ![b].at = at]

\* GitHub sends the customer of subscription s here, with what was on the link.
Arrive(b, i, s) ==
  /\ setup[b].at = "shut" /\ forge[i].sent > 0 /\ stripe[s].status # "none"
  /\ \E t \in Tenants :
       /\ provider[t].ref = s
       /\ setup' = [setup EXCEPT ![b] = [Shut EXCEPT !.at = "bound", !.install = i, !.tenant = t]]
  /\ brought' = brought \cup {<<CustomerOf[s], i>>}
  /\ UNCHANGED <<provider, installation, repository, pending, mishaps>> /\ AtSetup

\* takePendingInstallation: deleted as it is returned.
Take(b) ==
  /\ setup[b].at = "bound"
  /\ setup' = [setup EXCEPT ![b].at = "taken", ![b].taken = pending[setup[b].install]]
  /\ pending' = [pending EXCEPT ![setup[b].install] = {}]
  /\ UNCHANGED <<provider, installation, repository, brought, mishaps>> /\ AtSetup

\* recordEnrolment.
Enrol(b) ==
  LET t == setup[b].tenant
  IN  /\ setup[b].at = "taken" /\ Goes(b, "enrolled")
      /\ installation' = [installation EXCEPT ![t][setup[b].install] = "live"]
      /\ \E accepted \in Acceptable(t, UNION setup[b].taken) :
           repository' = [repository EXCEPT ![t] =
             [r \in Repositories |-> IF r \in accepted THEN "live" ELSE @[r]]]
      /\ UNCHANGED <<provider, pending, brought, mishaps>> /\ AtSetup

\* consumeEnrolmentRef, whichever reference it is by now.
Consume(b) ==
  /\ setup[b].at = "enrolled"
  /\ provider' = [provider EXCEPT ![setup[b].tenant].ref = NoRef]
  /\ setup' = [setup EXCEPT ![b] = Shut]
  /\ UNCHANGED <<installation, repository, pending, brought, mishaps>> /\ AtSetup

SetupDies(b) ==
  /\ setup[b].at # "shut" /\ Mishap
  /\ setup' = [setup EXCEPT ![b] = Shut]
  /\ UNCHANGED <<provider, installation, repository, pending, brought>> /\ AtSetup

-----------------------------------------------------------------------------
EnrolmentInit ==
  /\ forge = [i \in Installations |-> [state |-> "absent", sent |-> 0]]
  /\ hooks = {} /\ seen = {} /\ applying = {} /\ applied = {}
  /\ installation = [t \in Tenants |-> [i \in Installations |-> "none"]]
  /\ repository = [t \in Tenants |-> [r \in Repositories |-> "none"]]
  /\ pending = [i \in Installations |-> {}]
  /\ setup = [b \in Browsers |-> Shut] /\ brought = {}

HandlingBilling == <<stripe, unanswered, claims, handling, provisioned, forsaken, subscription>>

EnrolmentNext ==
  /\ UNCHANGED HandlingBilling
  /\ \/ /\ UNCHANGED provider
        /\ \/ \E i \in Installations : ForgeActs(i) /\ UNCHANGED mishaps
           \/ \E h \in seen : Redeliver(h)
           \/ \E h \in hooks : Receive(h)
           \/ \E d \in applying : LookUp(d) \/ CountRoom(d) \/ Grant(d) \/ Adjust(d) \/ Park(d) \/ HookDies(d)
     \/ \E b \in Browsers :
          \/ \E i \in Installations, s \in Subscriptions : Arrive(b, i, s)
          \/ Take(b) \/ Enrol(b) \/ Consume(b) \/ SetupDies(b)

-----------------------------------------------------------------------------
(* Properties *)

HookRecords == [install : Installations, n : 0..MaxHooks, repos : SUBSET Repositories,
                type : {"created", "revoked", "suspended", "unsuspended", "added", "removed"}]

EnrolmentTypeOK ==
  /\ forge \in [Installations -> [state : {"absent", "installed", "suspended"}, sent : 0..MaxHooks]]
  /\ hooks \subseteq HookRecords /\ seen \subseteq HookRecords /\ applied \subseteq seen
  /\ applying \subseteq [hook : seen, at : {"claimed", "known", "counted"},
                         tenant : Tenants \cup {Nowhere}, accepted : SUBSET Repositories]
  /\ installation \in [Tenants -> [Installations -> {"none", "live", "suspended"}]]
  /\ repository \in [Tenants -> [Repositories -> {"none", "live", "archived"}]]
  /\ pending \in [Installations -> SUBSET SUBSET Repositories]
  /\ \A i \in Installations : pending[i] \subseteq SUBSET GrantOf(i) /\ Cardinality(pending[i]) <= 1
  /\ setup \in [Browsers -> [at : {"shut", "bound", "taken", "enrolled"}, install : Installations \cup {"none"},
                             tenant : Tenants \cup {Nowhere}, taken : SUBSET SUBSET Repositories]]
  /\ brought \subseteq {CustomerOf[s] : s \in Subscriptions} \X Installations

\* One customer's installation and repositories are never filed under another
\* tenant, whichever of the browser and the delivery comes first
\* (src/http/setup.ts:14).
FiledUnderThePayer ==
  \A t \in Tenants : \A i \in Installations :
    (installation[t][i] # "none" \/ \E r \in GrantOf(i) : repository[t][r] # "none")
      => <<t[1], i>> \in brought

\* An installation that was revoked or suspended is re-enabled only by a
\* delivery that never took effect before, or by its customer at /setup: a
\* redelivery does not (migrations/006_webhooks.sql:6).
RedeliveryNeverReinstates ==
  [][\A t \in Tenants : \A i \in Installations :
       (installation[t][i] = "suspended" /\ installation'[t][i] = "live")
         => applied' # applied \/ setup' # setup]_<<enrolmentVars, billingVars>>

Quiet == hooks = {} /\ applying = {} /\ \A b \in Browsers : setup[b].at = "shut"

\* Once everything is delivered and handled, an installation the customer
\* revoked is not live (src/http/webhook-apply.ts:15).
RevocationIsHonoured ==
  Quiet => \A t \in Tenants : \A i \in Installations :
             forge[i].state # "installed" => installation[t][i] # "live"
=============================================================================
