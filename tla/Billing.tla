------------------------------- MODULE Billing -------------------------------
(***************************************************************************)
(* From what happens to a subscription at Stripe to the rows of a tenant:  *)
(* src/http/billing-webhook.ts, src/billing/provisioning.ts and            *)
(* provision_subscription of migrations/012_billing and 013.  Stripe       *)
(* delivers an event until it is answered with a 2xx, in any order, and    *)
(* again while an earlier delivery is still being handled.                 *)
(*                                                                         *)
(* Signatures and payloads are taken as good: what fails them is answered  *)
(* before anything is claimed.  Checkouts are paid at once.                *)
(***************************************************************************)
EXTENDS Integers, FiniteSets

CONSTANTS
  Subscriptions,
  CustomerOf,   \* CustomerOf[s]
  Plans,        \* Plans[p]: the repositories of plan p
  MaxVersions,   \* bound: what happens to subscriptions at Stripe
  MaxMishaps    \* bound: failures, crashes, lost answers, overlapping deliveries

VARIABLES
  stripe,       \* stripe[s]: the subscription at Stripe
  unanswered,   \* events Stripe keeps delivering
  claims,       \* billing_event
  handling,     \* deliveries past their claim
  provisioned,  \* events whose provision_subscription has committed
  forsaken,     \* events whose handler died, whose release failed, or whose
                \* second delivery was answered while the first was handled
  provider,     \* provider[t]: the tenant's row
  subscription, \* subscription[t]: its subscription row
  mishaps

billingVars == <<stripe, unanswered, claims, handling, provisioned, forsaken,
                 provider, subscription, mishaps>>

\* slugFor: the customer's id is part of it, and the address when it is known.
SlugFor(hasEmail, customer) == <<customer, hasEmail>>
Tenants == {SlugFor(hasEmail, CustomerOf[s]) : hasEmail \in BOOLEAN, s \in Subscriptions}
Nowhere == <<"no tenant">>

NoRef == "no reference"
NoSubscription == [sub |-> "none", status |-> "none", plan |-> "none", dated |-> FALSE]
Unsold == [status |-> "none", plan |-> "none", version |-> 0, overdue |-> FALSE]

\* No subscription has one of these for its name.
ASSUME BillingAssumption ==
  /\ NoRef \notin Subscriptions /\ "none" \notin Subscriptions
  /\ MaxVersions \in Nat \ {0} /\ MaxMishaps \in Nat

Mishap == mishaps < MaxMishaps /\ mishaps' = mishaps + 1

-----------------------------------------------------------------------------
(* Stripe *)

Event(s, kind, status) ==
  [sub |-> s, n |-> stripe'[s].version, kind |-> kind, status |-> status, plan |-> stripe'[s].plan]

AtStripe == UNCHANGED <<claims, handling, provisioned, forsaken, provider, subscription, mishaps>>

\* startCheckout and a payment: the session and the subscription, one event each.
Buy(s, plan) ==
  /\ stripe[s].status = "none"
  /\ stripe' = [stripe EXCEPT ![s] = [Unsold EXCEPT !.status = "active", !.plan = plan, !.version = 1]]
  /\ unanswered' = unanswered \cup {Event(s, "checkout", "active"), Event(s, "subscription", "active")}
  /\ AtStripe

Moves == {<<"active", "past_due">>, <<"past_due", "active">>,
          <<"active", "canceled">>, <<"past_due", "canceled">>}

Renew(s, status) ==
  /\ <<stripe[s].status, status>> \in Moves
  /\ stripe[s].version < MaxVersions
  /\ stripe' = [stripe EXCEPT ![s].status = status, ![s].version = @ + 1, ![s].overdue = FALSE]
  /\ unanswered' = unanswered \cup {Event(s, "subscription", status)}
  /\ AtStripe

\* Seven days past the period that was paid.
GraceEnds(s) ==
  /\ stripe[s].status = "past_due" /\ ~stripe[s].overdue
  /\ stripe' = [stripe EXCEPT ![s].overdue = TRUE]
  /\ UNCHANGED unanswered /\ AtStripe

-----------------------------------------------------------------------------
(* handleBillingWebhook *)

Handled(e) == \E h \in handling : h.event = e

\* claimEvent, by the primary key.
Claim(e) ==
  /\ e \in unanswered /\ e \notin claims
  /\ claims' = claims \cup {e}
  /\ handling' = handling \cup {[event |-> e, at |-> "claimed", tenant |-> Nowhere]}
  /\ UNCHANGED <<stripe, unanswered, provisioned, forsaken, provider, subscription, mishaps>>

\* A duplicate is answered with 200, whatever becomes of the first.
Duplicate(e) ==
  /\ e \in unanswered /\ e \in claims
  /\ unanswered' = unanswered \ {e}
  /\ IF Handled(e) THEN Mishap /\ forsaken' = forsaken \cup {e}
                   ELSE UNCHANGED <<forsaken, mishaps>>
  /\ UNCHANGED <<stripe, claims, handling, provisioned, provider, subscription>>

Moved(h, at, tenant) == (handling \ {h}) \cup {[h EXCEPT !.at = at, !.tenant = tenant]}

\* provision_subscription: a tenant that has the subscription wins over the slug.
Resolve(h) ==
  LET e == h.event
      owners == {t \in Tenants : subscription[t].sub = e.sub}
      slug == SlugFor(e.kind = "checkout", CustomerOf[e.sub])
  IN  /\ h.at = "claimed"
      /\ handling' = Moved(h, "resolved", IF owners = {} THEN slug ELSE CHOOSE t \in owners : TRUE)
      /\ UNCHANGED <<stripe, unanswered, claims, provisioned, forsaken, provider, subscription, mishaps>>

\* The row an event asks for: a session says active and knows no period.
RowOf(e) == [sub |-> e.sub, status |-> e.status, plan |-> e.plan, dated |-> e.kind = "subscription"]

\* COALESCE: the first reference is kept until it is consumed.
RefKept(t, e) ==
  IF e.kind = "checkout" /\ provider[t].ref = NoRef THEN e.sub ELSE provider[t].ref

\* Upsert by tenant.
Upserted(t, e) ==
  /\ provider' = [provider EXCEPT ![t] = [exists |-> TRUE, ref |-> RefKept(t, e)]]
  /\ subscription' = [subscription EXCEPT ![t] = RowOf(e)]
  /\ provisioned' = provisioned \cup {e}

\* Mutant of Violates: without the index on subscriptions.
Violates_References(t, e) == \E u \in Tenants \ {t} : RefKept(t, e) # NoRef /\ provider[u].ref = RefKept(t, e)

\* stripe_subscription_id and enrolment_ref_hash are unique.
Violates(t, e) ==
  \E u \in Tenants \ {t} :
    \/ subscription[u].sub = e.sub
    \/ RefKept(t, e) # NoRef /\ provider[u].ref = RefKept(t, e)

\* The function commits, and Stripe is answered.
Provision(h) ==
  /\ h.at = "resolved" /\ ~Violates(h.tenant, h.event)
  /\ Upserted(h.tenant, h.event)
  /\ handling' = handling \ {h}
  /\ unanswered' = unanswered \ {h.event}
  /\ UNCHANGED <<stripe, claims, forsaken, mishaps>>

\* It throws: the index refuses the row, the database fails, or the
\* connection does after the commit.
ProvisionFails(h) ==
  /\ handling' = Moved(h, "failed", h.tenant)
  /\ \/ /\ h.at = "resolved" /\ Violates(h.tenant, h.event)
        /\ UNCHANGED <<provisioned, provider, subscription, mishaps>>
     \/ /\ h.at \in {"claimed", "resolved"} /\ Mishap
        /\ UNCHANGED <<provisioned, provider, subscription>>
     \/ /\ h.at = "resolved" /\ ~Violates(h.tenant, h.event) /\ Mishap
        /\ Upserted(h.tenant, h.event)
  /\ UNCHANGED <<stripe, unanswered, claims, forsaken>>

\* Mutant of ReleaseClaim: the claim outlives the failure.
ReleaseClaim_Kept(h) ==
  /\ h.at = "failed"
  /\ handling' = handling \ {h}
  /\ UNCHANGED <<stripe, unanswered, claims, provisioned, forsaken, provider, subscription, mishaps>>

\* releaseEvent, and 500.
ReleaseClaim(h) ==
  /\ h.at = "failed"
  /\ handling' = handling \ {h}
  /\ claims' = claims \ {h.event}
  /\ UNCHANGED <<stripe, unanswered, provisioned, forsaken, provider, subscription, mishaps>>

ReleaseFails(h) ==
  /\ h.at = "failed" /\ Mishap
  /\ handling' = handling \ {h}
  /\ forsaken' = forsaken \cup {h.event}
  /\ UNCHANGED <<stripe, unanswered, claims, provisioned, provider, subscription>>

\* The process dies with every delivery it handles.
ServerCrashes ==
  /\ handling # {} /\ Mishap
  /\ handling' = {}
  /\ forsaken' = forsaken \cup {h.event : h \in handling}
  /\ UNCHANGED <<stripe, unanswered, claims, provisioned, provider, subscription>>

-----------------------------------------------------------------------------
BillingInit ==
  /\ stripe = [s \in Subscriptions |-> Unsold]
  /\ unanswered = {} /\ claims = {} /\ handling = {} /\ provisioned = {} /\ forsaken = {}
  /\ provider = [t \in Tenants |-> [exists |-> FALSE, ref |-> NoRef]]
  /\ subscription = [t \in Tenants |-> NoSubscription]
  /\ mishaps = 0

\* A delivery is taken up and goes on.
Handle(e) ==
  \/ Claim(e)
  \/ \E h \in handling : h.event = e /\ (Resolve(h) \/ Provision(h) \/ ReleaseClaim(h))

Events ==
  {e \in [sub : Subscriptions, n : 1..MaxVersions, kind : {"checkout", "subscription"},
           status : {"active", "past_due", "canceled"}, plan : DOMAIN Plans] :
     (e.n = 1 <=> e.status = "active" /\ e.n < 3) /\ (e.kind = "checkout" => e.n = 1)}

BillingNext ==
  \/ \E s \in Subscriptions :
       \/ \E plan \in DOMAIN Plans : Buy(s, plan)
       \/ \E status \in {"active", "past_due", "canceled"} : Renew(s, status)
       \/ GraceEnds(s)
  \/ \E e \in unanswered : Claim(e) \/ Duplicate(e)
  \/ \E h \in handling : Resolve(h) \/ Provision(h) \/ ProvisionFails(h) \/ ReleaseClaim(h) \/ ReleaseFails(h)
  \/ ServerCrashes

\* Stripe delivers until it is answered; a handler that runs goes on, into its
\* catch block when the index refuses the row.
BillingFairness ==
  \A e \in Events :
    WF_billingVars(Handle(e) \/ Duplicate(e)
                   \/ \E h \in handling : h.event = e /\ h.at = "resolved"
                         /\ Violates(h.tenant, e) /\ ProvisionFails(h))

-----------------------------------------------------------------------------
(* src/billing/entitlement.ts *)

\* decideEntitlement of a tenant's row.
Entitled(t) ==
  LET row == subscription[t]
  IN  \/ row.status = "active"
      \/ row.status = "past_due" /\ row.dated /\ ~stripe[row.sub].overdue

-----------------------------------------------------------------------------
(* Properties *)

Statuses == {"none", "active", "past_due", "canceled"}
PlanNames == DOMAIN Plans \cup {"none"}

BillingTypeOK ==
  /\ stripe \in [Subscriptions -> [status : Statuses, plan : PlanNames, version : 0..MaxVersions,
                                   overdue : BOOLEAN]]
  /\ unanswered \subseteq Events /\ claims \subseteq Events /\ provisioned \subseteq Events
  /\ forsaken \subseteq Events
  /\ handling \subseteq [event : claims, at : {"claimed", "resolved", "failed"}, tenant : Tenants \cup {Nowhere}]
  /\ provider \in [Tenants -> [exists : BOOLEAN, ref : Subscriptions \cup {NoRef}]]
  /\ subscription \in [Tenants -> [sub : Subscriptions \cup {"none"}, status : Statuses,
                                   plan : PlanNames, dated : BOOLEAN]]
  /\ \A t \in Tenants : ~provider[t].exists => provider[t].ref = NoRef /\ subscription[t] = NoSubscription
  /\ mishaps \in 0..MaxMishaps

\* A subscription pays for one tenant, although the two events of a purchase
\* are provisioned at the same time under two slugs
\* (src/http/billing-webhook.ts:23, src/billing/provisioning.ts:73).
OneTenantPerSubscription ==
  \A t, u \in Tenants :
    subscription[t].sub = subscription[u].sub /\ subscription[t].sub # "none" => t = u

\* However often provisioning fails, an event is provisioned in the end, unless
\* its own handler died, could not release its claim, or was overtaken by a
\* redelivery (src/http/billing-webhook.ts:110).
EventsAreProvisioned ==
  \A e \in Events : e \in unanswered ~> e \in provisioned \cup forsaken

\* What a session inferred is corrected: a subscription that was canceled stops
\* entitling (src/http/billing-webhook.ts:19).
InferenceIsTemporary ==
  \A s \in Subscriptions :
    stripe[s].status = "canceled" ~> \A t \in Tenants : subscription[t].sub = s => ~Entitled(t)
=============================================================================
