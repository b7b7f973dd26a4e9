---------------------------- MODULE AccountsProofs ----------------------------
(***************************************************************************)
(* What holds of Billing and Enrolment together, each going on while the   *)
(* other does, for every number of subscriptions, installations and        *)
(* browsers, and whatever happens at Stripe and at GitHub.                 *)
(***************************************************************************)
EXTENDS Enrolment, FiniteSetTheorems, TLAPS

tenancyVars == <<enrolmentVars, billingVars>>
TenancyInit == BillingInit /\ EnrolmentInit
TenancyNext == (BillingNext /\ UNCHANGED enrolmentVars) \/ EnrolmentNext
TenancySpec == TenancyInit /\ [][TenancyNext]_tenancyVars

-----------------------------------------------------------------------------
(* The inductive invariant.  Every row that names a subscription or its     *)
(* reference is under a slug of the subscription's customer, so what comes  *)
(* back to /setup with the reference comes from that customer; a delivery   *)
(* finds a tenant only by what the customer brought there before.           *)

\* What a subscription has gone through to be where it is.
StripeOK ==
  \A s \in Subscriptions :
    /\ stripe[s].status # "none" => stripe[s].version >= 1 /\ stripe[s].plan \in DOMAIN Plans
    /\ stripe[s].status = "past_due" => stripe[s].version >= 2

CustomersKept ==
  /\ \A t \in Tenants :
       /\ provider[t].ref # NoRef => t[1] = CustomerOf[provider[t].ref]
       /\ subscription[t].sub # "none" => t[1] = CustomerOf[subscription[t].sub]
  /\ \A h \in handling :
       h.at = "resolved" => h.tenant \in Tenants /\ h.tenant[1] = CustomerOf[h.event.sub]

OneHandler == \A h, k \in handling : h.event = k.event => h = k

BillingIInv == BillingTypeOK /\ StripeOK /\ CustomersKept /\ OneHandler /\ OneTenantPerSubscription

OneApplier ==
  /\ \A d, e \in applying : d.hook = e.hook => d = e
  /\ \A d \in applying : d.hook \notin applied

\* A delivery names repositories of its own installation.
HooksOwn == \A h \in hooks \cup seen : h.repos \subseteq GrantOf(h.install)

DeliveriesFiled ==
  \A d \in applying :
    /\ d.tenant # Nowhere => d.tenant \in Tenants /\ <<d.tenant[1], d.hook.install>> \in brought
    /\ d.at = "counted" => d.tenant # Nowhere
    /\ d.accepted \subseteq GrantOf(d.hook.install)

SetupsFiled ==
  \A b \in Browsers :
    setup[b].at # "shut" =>
      /\ setup[b].tenant \in Tenants /\ setup[b].install \in Installations
      /\ <<setup[b].tenant[1], setup[b].install>> \in brought
      /\ UNION setup[b].taken \subseteq GrantOf(setup[b].install)

EnrolmentIInv ==
  /\ EnrolmentTypeOK /\ OneApplier /\ HooksOwn
  /\ DeliveriesFiled /\ SetupsFiled /\ FiledUnderThePayer

TenancyIInv == BillingIInv /\ EnrolmentIInv

-----------------------------------------------------------------------------
(* Billing: the invariant by what it is about *)

StripeRecords == [status : Statuses, plan : PlanNames, version : 0..MaxVersions, overdue : BOOLEAN]
HandlingsOf(es) == [event : es, at : {"claimed", "resolved", "failed"}, tenant : Tenants \cup {Nowhere}]
ProviderRows == [exists : BOOLEAN, ref : Subscriptions \cup {NoRef}]
SubscriptionRows == [sub : Subscriptions \cup {"none"}, status : Statuses, plan : PlanNames, dated : BOOLEAN]

AtStripeOK == stripe \in [Subscriptions -> StripeRecords] /\ StripeOK
EventsOK ==
  unanswered \subseteq Events /\ claims \subseteq Events /\ provisioned \subseteq Events /\ forsaken \subseteq Events

HandlingsOK ==
  /\ handling \subseteq HandlingsOf(claims) /\ OneHandler
  /\ \A h \in handling :
       h.at = "resolved" => h.tenant \in Tenants /\ h.tenant[1] = CustomerOf[h.event.sub]

ProvidersOK ==
  /\ provider \in [Tenants -> ProviderRows]
  /\ \A t \in Tenants : provider[t].ref # NoRef => t[1] = CustomerOf[provider[t].ref]

SubscriptionsOK ==
  /\ subscription \in [Tenants -> SubscriptionRows]
  /\ \A t \in Tenants : subscription[t].sub # "none" => t[1] = CustomerOf[subscription[t].sub]
  /\ OneTenantPerSubscription

ExistingOK ==
  \A t \in Tenants : ~provider[t].exists => provider[t].ref = NoRef /\ subscription[t] = NoSubscription

LEMMA BillingInParts ==
  BillingIInv <=> /\ AtStripeOK /\ EventsOK /\ HandlingsOK /\ ProvidersOK /\ SubscriptionsOK
                  /\ ExistingOK /\ mishaps \in 0..MaxMishaps
BY DEF BillingIInv, BillingTypeOK, CustomersKept, AtStripeOK, EventsOK, HandlingsOK, ProvidersOK,
   SubscriptionsOK, ExistingOK, StripeRecords, HandlingsOf, ProviderRows, SubscriptionRows

\* The same of the state after a step.
LEMMA BillingInPartsNext ==
  BillingIInv' <=> /\ AtStripeOK' /\ EventsOK' /\ HandlingsOK' /\ ProvidersOK' /\ SubscriptionsOK'
                   /\ ExistingOK' /\ mishaps' \in 0..MaxMishaps
BY DEF BillingIInv, BillingTypeOK, CustomersKept, AtStripeOK, EventsOK, HandlingsOK, ProvidersOK,
   SubscriptionsOK, ExistingOK, StripeRecords, HandlingsOf, ProviderRows, SubscriptionRows

LEMMA NamesApart ==
  /\ NoRef \notin Subscriptions /\ "none" \notin Subscriptions
  /\ MaxVersions \in Nat /\ MaxVersions > 0 /\ MaxMishaps \in Nat
BY BillingAssumption

LEMMA MishapsInBounds ==
  ASSUME mishaps \in 0..MaxMishaps, Mishap \/ UNCHANGED mishaps
  PROVE  mishaps' \in 0..MaxMishaps
BY NamesApart DEF Mishap

LEMMA EventFields ==
  ASSUME NEW e \in Events
  PROVE  /\ e.sub \in Subscriptions /\ e.plan \in DOMAIN Plans
         /\ e.kind \in {"checkout", "subscription"} /\ e.status \in Statuses
BY DEF Events, Statuses

LEMMA SlugOfCustomer ==
  ASSUME NEW s \in Subscriptions, NEW b \in BOOLEAN
  PROVE  SlugFor(b, CustomerOf[s]) \in Tenants /\ SlugFor(b, CustomerOf[s])[1] = CustomerOf[s]
BY DEF SlugFor, Tenants

-----------------------------------------------------------------------------
(* Billing: one lemma for each kind of action *)

\* At Stripe: what is sent is an event.
LEMMA StripeKeeps ==
  ASSUME BillingIInv, AtStripeOK', unanswered' \subseteq Events, AtStripe
  PROVE  BillingIInv'
<1>1. UNCHANGED <<claims, handling, provisioned, forsaken, provider, subscription, mishaps>>
  BY DEF AtStripe
<1> QED
  BY <1>1, BillingInParts, BillingInPartsNext
     DEF EventsOK, HandlingsOK, OneHandler, ProvidersOK, SubscriptionsOK, OneTenantPerSubscription, ExistingOK

\* One subscription changes, and the others do not.
LEMMA StripeMoves ==
  ASSUME AtStripeOK, NEW s \in Subscriptions, NEW r \in StripeRecords, stripe' = [stripe EXCEPT ![s] = r],
         r.status # "none" => r.version >= 1 /\ r.plan \in DOMAIN Plans,
         r.status = "past_due" => r.version >= 2
  PROVE  AtStripeOK' /\ stripe'[s] = r
<1>1. stripe' \in [Subscriptions -> StripeRecords] /\ stripe'[s] = r
      /\ \A x \in Subscriptions \ {s} : stripe'[x] = stripe[x]
  BY DEF AtStripeOK
<1>2. StripeOK'
  BY <1>1 DEF AtStripeOK, StripeOK
<1> QED
  BY <1>1, <1>2 DEF AtStripeOK

LEMMA BuyKeeps ==
  ASSUME BillingIInv, NEW s \in Subscriptions, NEW plan \in DOMAIN Plans, Buy(s, plan)
  PROVE  BillingIInv'
<1>1. AtStripeOK /\ EventsOK
  BY BillingInParts
<1>2. PICK r : r = [Unsold EXCEPT !.status = "active", !.plan = plan, !.version = 1]
  OBVIOUS
<1>3. r \in StripeRecords /\ r.status = "active" /\ r.plan = plan /\ r.version = 1
  <2>1. r = [status |-> "active", plan |-> plan, version |-> 1, overdue |-> FALSE]
    BY <1>2 DEF Unsold
  <2> QED
    BY <2>1, NamesApart DEF StripeRecords, Statuses, PlanNames
<1>4. stripe' = [stripe EXCEPT ![s] = r] /\ AtStripe
      /\ unanswered' = unanswered \cup {Event(s, "checkout", "active"), Event(s, "subscription", "active")}
  BY <1>2 DEF Buy
<1>5. AtStripeOK' /\ stripe'[s] = r
  <2>1. /\ r.status # "none" => r.version >= 1 /\ r.plan \in DOMAIN Plans
        /\ r.status = "past_due" => r.version >= 2
    BY <1>3
  <2> QED
    BY <1>1, <1>3, <1>4, <2>1, StripeMoves
<1>6. \A kind \in {"checkout", "subscription"} : Event(s, kind, "active") \in Events
  <2> TAKE kind \in {"checkout", "subscription"}
  <2>1. Event(s, kind, "active") = [sub |-> s, n |-> 1, kind |-> kind, status |-> "active", plan |-> plan]
    BY <1>3, <1>5 DEF Event
  <2> QED
    BY <2>1, NamesApart DEF Events
<1> QED
  BY <1>1, <1>4, <1>5, <1>6, StripeKeeps DEF EventsOK

LEMMA RenewKeeps ==
  ASSUME BillingIInv, NEW s \in Subscriptions, NEW status \in {"active", "past_due", "canceled"}, Renew(s, status)
  PROVE  BillingIInv'
<1>1. AtStripeOK /\ EventsOK
  BY BillingInParts
<1>2. PICK old \in StripeRecords : old = stripe[s]
  BY <1>1 DEF AtStripeOK
<1>3. PICK v : v = old.version + 1
  OBVIOUS
<1>4. <<old.status, status>> \in Moves /\ old.version < MaxVersions
  BY <1>2 DEF Renew
<1>5. /\ v \in 0..MaxVersions /\ v >= 2 /\ old.plan \in DOMAIN Plans
      /\ status = "active" => v >= 3
  <2>1. old.version \in 0..MaxVersions
    BY DEF StripeRecords
  <2>2. old.status \in {"active", "past_due"} /\ (status = "active" => old.status = "past_due")
    BY <1>4 DEF Moves
  <2>3. /\ old.status # "none" => old.version >= 1 /\ old.plan \in DOMAIN Plans
        /\ old.status = "past_due" => old.version >= 2
    BY <1>1, <1>2 DEF AtStripeOK, StripeOK
  <2> QED
    BY <1>3, <1>4, <2>1, <2>2, <2>3, NamesApart
<1>6. PICK r : r = [old EXCEPT !.status = status, !.version = v, !.overdue = FALSE]
  OBVIOUS
<1>7. r \in StripeRecords /\ r.status = status /\ r.plan = old.plan /\ r.version = v
  BY <1>5, <1>6 DEF StripeRecords, Statuses
<1>8. stripe' = [stripe EXCEPT ![s] = r] /\ AtStripe
      /\ unanswered' = unanswered \cup {Event(s, "subscription", status)}
  BY <1>1, <1>2, <1>3, <1>6 DEF Renew, AtStripeOK
<1>9. AtStripeOK' /\ stripe'[s] = r
  <2>1. /\ r.status # "none" => r.version >= 1 /\ r.plan \in DOMAIN Plans
        /\ r.status = "past_due" => r.version >= 2
    BY <1>5, <1>7
  <2> QED
    BY <1>1, <1>7, <1>8, <2>1, StripeMoves
<1>10. Event(s, "subscription", status) \in Events
  <2>1. Event(s, "subscription", status)
          = [sub |-> s, n |-> v, kind |-> "subscription", status |-> status, plan |-> old.plan]
    BY <1>7, <1>9 DEF Event
  <2> QED
    BY <1>5, <2>1, NamesApart DEF Events
<1> QED
  BY <1>1, <1>8, <1>9, <1>10, StripeKeeps DEF EventsOK

LEMMA GraceKeeps ==
  ASSUME BillingIInv, NEW s \in Subscriptions, GraceEnds(s)
  PROVE  BillingIInv'
<1>1. AtStripeOK /\ EventsOK
  BY BillingInParts
<1>2. PICK old \in StripeRecords : old = stripe[s]
  BY <1>1 DEF AtStripeOK
<1>3. PICK r : r = [old EXCEPT !.overdue = TRUE]
  OBVIOUS
<1>4. r \in StripeRecords /\ r.status = old.status /\ r.plan = old.plan /\ r.version = old.version
  BY <1>3 DEF StripeRecords
<1>5. stripe' = [stripe EXCEPT ![s] = r] /\ AtStripe /\ UNCHANGED unanswered
  BY <1>1, <1>2, <1>3 DEF GraceEnds, AtStripeOK
<1>6. AtStripeOK'
  BY <1>1, <1>2, <1>4, <1>5, StripeMoves DEF AtStripeOK, StripeOK
<1> QED
  BY <1>1, <1>5, <1>6, StripeKeeps DEF EventsOK

\* At the webhook: the rows of the tenants apart.
LEMMA WebhookKeeps ==
  ASSUME BillingIInv, UNCHANGED <<stripe, provider, subscription>>, Mishap \/ UNCHANGED mishaps,
         EventsOK', HandlingsOK'
  PROVE  BillingIInv'
<1>1. mishaps' \in 0..MaxMishaps
  BY BillingInParts, MishapsInBounds
<1> QED
  BY <1>1, BillingInParts, BillingInPartsNext
     DEF AtStripeOK, StripeOK, ProvidersOK, SubscriptionsOK, OneTenantPerSubscription, ExistingOK

LEMMA HandlingFields ==
  ASSUME HandlingsOK, EventsOK, NEW h \in handling
  PROVE  /\ h.event \in claims /\ h.event \in Events /\ h.event.sub \in Subscriptions
         /\ h.tenant \in Tenants \cup {Nowhere}
         /\ h.at = "resolved" => h.tenant \in Tenants /\ h.tenant[1] = CustomerOf[h.event.sub]
<1>1. h \in HandlingsOf(claims)
  BY DEF HandlingsOK
<1>2. h.event \in claims /\ h.tenant \in Tenants \cup {Nowhere}
  BY <1>1 DEF HandlingsOf
<1> QED
  BY <1>2, EventFields DEF HandlingsOK, EventsOK

\* A delivery goes on.
LEMMA DeliveryMoves ==
  ASSUME HandlingsOK, NEW h \in handling,
         NEW at \in {"claimed", "resolved", "failed"}, NEW tenant \in Tenants \cup {Nowhere},
         at = "resolved" => tenant \in Tenants /\ tenant[1] = CustomerOf[h.event.sub],
         handling' = Moved(h, at, tenant), UNCHANGED claims
  PROVE  HandlingsOK'
<1>1. h \in HandlingsOf(claims)
  BY DEF HandlingsOK
<1>2. PICK k : k = [h EXCEPT !.at = at, !.tenant = tenant]
  OBVIOUS
<1>3. k \in HandlingsOf(claims) /\ k.event = h.event /\ k.at = at /\ k.tenant = tenant
  BY <1>1, <1>2 DEF HandlingsOf
<1>4. handling' = (handling \ {h}) \cup {k}
  BY <1>2 DEF Moved
<1>5. handling' \subseteq HandlingsOf(claims')
  BY <1>3, <1>4 DEF HandlingsOK
<1>6. OneHandler'
  BY <1>3, <1>4 DEF HandlingsOK, OneHandler
<1>7. \A x \in handling' :
        x.at = "resolved" => x.tenant \in Tenants /\ x.tenant[1] = CustomerOf[x.event.sub]
  BY <1>3, <1>4 DEF HandlingsOK
<1> QED
  BY <1>5, <1>6, <1>7 DEF HandlingsOK

\* A delivery is over, and its claim may be given up: no other has it.
LEMMA DeliveryEnds ==
  ASSUME HandlingsOK, NEW h \in handling, handling' = handling \ {h},
         claims' = claims \/ claims' = claims \ {h.event}
  PROVE  HandlingsOK'
<1>1. \A k \in handling' : k \in HandlingsOf(claims) /\ k.event \in claims' /\ k \in handling
  <2> TAKE k \in handling'
  <2>1. k \in handling /\ k # h /\ k \in HandlingsOf(claims)
    BY DEF HandlingsOK
  <2>2. k.event # h.event /\ k.event \in claims
    BY <2>1 DEF HandlingsOK, OneHandler, HandlingsOf
  <2> QED
    BY <2>1, <2>2
<1>2. \A k \in handling' : k \in HandlingsOf(claims')
  BY <1>1 DEF HandlingsOf
<1> QED
  BY <1>1, <1>2 DEF HandlingsOK, OneHandler

LEMMA ClaimKeeps ==
  ASSUME BillingIInv, NEW e \in unanswered, Claim(e)
  PROVE  BillingIInv'
<1>1. EventsOK /\ HandlingsOK
  BY BillingInParts
<1>2. PICK k : k = [event |-> e, at |-> "claimed", tenant |-> Nowhere]
  OBVIOUS
<1>3. /\ e \notin claims /\ claims' = claims \cup {e} /\ handling' = handling \cup {k}
      /\ UNCHANGED <<stripe, unanswered, provisioned, forsaken, provider, subscription, mishaps>>
  BY <1>2 DEF Claim
<1>4. k \in HandlingsOf(claims') /\ k.event = e /\ k.at = "claimed"
  BY <1>2, <1>3 DEF HandlingsOf
<1>5. \A h \in handling : h \in HandlingsOf(claims') /\ h.event # e
  BY <1>1, <1>3 DEF HandlingsOK, HandlingsOf
<1>6. handling' \subseteq HandlingsOf(claims') /\ OneHandler'
  BY <1>1, <1>3, <1>4, <1>5 DEF HandlingsOK, OneHandler
<1>7. HandlingsOK'
  BY <1>1, <1>3, <1>4, <1>6 DEF HandlingsOK
<1>8. EventsOK'
  BY <1>1, <1>3 DEF EventsOK
<1> QED
  BY <1>3, <1>7, <1>8, WebhookKeeps

LEMMA DuplicateKeeps ==
  ASSUME BillingIInv, NEW e \in unanswered, Duplicate(e)
  PROVE  BillingIInv'
<1>1. EventsOK /\ HandlingsOK
  BY BillingInParts
<1>2. /\ UNCHANGED <<stripe, claims, handling, provisioned, provider, subscription>>
      /\ unanswered' = unanswered \ {e} /\ (Mishap \/ UNCHANGED mishaps)
      /\ forsaken' = forsaken \cup {e} \/ forsaken' = forsaken
  BY DEF Duplicate
<1>3. EventsOK' /\ HandlingsOK'
  BY <1>1, <1>2 DEF EventsOK, HandlingsOK, OneHandler
<1> QED
  BY <1>2, <1>3, WebhookKeeps

\* The tenant found is one of the subscription's customer: the one that has the
\* subscription, or the slug's.
LEMMA ResolveKeeps ==
  ASSUME BillingIInv, NEW h \in handling, Resolve(h)
  PROVE  BillingIInv'
<1>1. EventsOK /\ HandlingsOK /\ SubscriptionsOK
  BY BillingInParts
<1>2. PICK e \in Events : e = h.event
  BY <1>1, HandlingFields
<1>3. PICK owners : owners = {t \in Tenants : subscription[t].sub = e.sub}
  OBVIOUS
<1>4. PICK slug : slug = SlugFor(e.kind = "checkout", CustomerOf[e.sub])
  OBVIOUS
<1>5. PICK tenant : tenant = IF owners = {} THEN slug ELSE CHOOSE t \in owners : TRUE
  OBVIOUS
<1>6. tenant \in Tenants /\ tenant[1] = CustomerOf[e.sub]
  <2>1. e.sub \in Subscriptions /\ (e.kind = "checkout") \in BOOLEAN
    BY EventFields
  <2>2. CASE owners = {}
    BY <1>4, <1>5, <2>1, <2>2, SlugOfCustomer
  <2>3. CASE owners # {}
    <3>1. tenant \in owners
      BY <1>5, <2>3
    <3>2. tenant \in Tenants /\ subscription[tenant].sub = e.sub
      BY <1>3, <3>1
    <3> QED
      BY <1>1, <2>1, <3>2, NamesApart DEF SubscriptionsOK
  <2> QED
    BY <2>2, <2>3
<1>7. /\ handling' = Moved(h, "resolved", tenant)
      /\ UNCHANGED <<stripe, unanswered, claims, provisioned, forsaken, provider, subscription, mishaps>>
  BY <1>2, <1>3, <1>4, <1>5 DEF Resolve
<1>8. HandlingsOK'
  BY <1>1, <1>2, <1>6, <1>7, DeliveryMoves
<1>9. EventsOK'
  BY <1>1, <1>7 DEF EventsOK
<1> QED
  BY <1>7, <1>8, <1>9, WebhookKeeps

\* What is written is the customer's, and the indices let no second tenant have it.
LEMMA UpsertKeeps ==
  ASSUME ProvidersOK, SubscriptionsOK, ExistingOK,
         NEW t \in Tenants, NEW e \in Events, t[1] = CustomerOf[e.sub],
         ~Violates(t, e), Upserted(t, e)
  PROVE  ProvidersOK' /\ SubscriptionsOK' /\ ExistingOK'
<1>1. PICK ref : ref = RefKept(t, e)
  OBVIOUS
<1>2. provider[t] \in ProviderRows
  BY DEF ProvidersOK
<1>3. e.sub \in Subscriptions /\ e.plan \in DOMAIN Plans /\ e.status \in Statuses /\ e.kind \in {"checkout", "subscription"}
  BY EventFields
<1>4. ref \in Subscriptions \cup {NoRef} /\ (ref # NoRef => t[1] = CustomerOf[ref])
  BY <1>1, <1>2, <1>3 DEF RefKept, ProvidersOK, ProviderRows
<1>5. PICK p : p = [exists |-> TRUE, ref |-> ref]
  OBVIOUS
<1>6. p \in ProviderRows /\ p.exists = TRUE /\ p.ref = ref
  BY <1>4, <1>5 DEF ProviderRows
<1>7. PICK r : r = RowOf(e)
  OBVIOUS
<1>8. r \in SubscriptionRows /\ r.sub = e.sub
  <2>1. (e.kind = "subscription") \in BOOLEAN
    OBVIOUS
  <2> QED
    BY <1>3, <1>7, <2>1 DEF RowOf, SubscriptionRows, PlanNames
<1>9. provider' = [provider EXCEPT ![t] = p] /\ subscription' = [subscription EXCEPT ![t] = r]
  BY <1>1, <1>5, <1>7 DEF Upserted
<1>10. /\ provider' \in [Tenants -> ProviderRows] /\ subscription' \in [Tenants -> SubscriptionRows]
       /\ provider'[t] = p /\ \A u \in Tenants \ {t} : provider'[u] = provider[u]
       /\ subscription'[t] = r /\ \A u \in Tenants \ {t} : subscription'[u] = subscription[u]
  BY <1>6, <1>8, <1>9 DEF ProvidersOK, SubscriptionsOK
<1>11. ProvidersOK'
  BY <1>4, <1>6, <1>10 DEF ProvidersOK
<1>12. \A u \in Tenants \ {t} : subscription[u].sub # e.sub
  BY DEF Violates
<1>13. OneTenantPerSubscription'
  BY <1>8, <1>10, <1>12 DEF SubscriptionsOK, OneTenantPerSubscription
<1>14. SubscriptionsOK'
  BY <1>8, <1>10, <1>13 DEF SubscriptionsOK
<1>15. ExistingOK'
  BY <1>6, <1>10 DEF ExistingOK
<1> QED
  BY <1>11, <1>14, <1>15

LEMMA ProvisionKeeps ==
  ASSUME BillingIInv, NEW h \in handling, Provision(h)
  PROVE  BillingIInv'
<1>1. AtStripeOK /\ EventsOK /\ HandlingsOK /\ ProvidersOK /\ SubscriptionsOK /\ ExistingOK /\ mishaps \in 0..MaxMishaps
  BY BillingInParts
<1>2. /\ h.at = "resolved" /\ ~Violates(h.tenant, h.event) /\ Upserted(h.tenant, h.event)
      /\ handling' = handling \ {h} /\ unanswered' = unanswered \ {h.event}
      /\ UNCHANGED <<stripe, claims, forsaken, mishaps>>
  BY DEF Provision
<1>3. ProvidersOK' /\ SubscriptionsOK' /\ ExistingOK'
  BY <1>1, <1>2, HandlingFields, UpsertKeeps
<1>4. HandlingsOK'
  BY <1>1, <1>2, DeliveryEnds
<1>5. EventsOK'
  BY <1>1, <1>2, HandlingFields DEF EventsOK, Upserted
<1>6. AtStripeOK' /\ mishaps' \in 0..MaxMishaps
  BY <1>1, <1>2 DEF AtStripeOK, StripeOK
<1> QED
  BY <1>3, <1>4, <1>5, <1>6, BillingInPartsNext

LEMMA ProvisionFailsKeeps ==
  ASSUME BillingIInv, NEW h \in handling, ProvisionFails(h)
  PROVE  BillingIInv'
<1>1. AtStripeOK /\ EventsOK /\ HandlingsOK /\ ProvidersOK /\ SubscriptionsOK /\ ExistingOK /\ mishaps \in 0..MaxMishaps
  BY BillingInParts
<1>2. handling' = Moved(h, "failed", h.tenant) /\ UNCHANGED <<stripe, unanswered, claims, forsaken>>
  BY DEF ProvisionFails
<1>3. HandlingsOK'
  BY <1>1, <1>2, HandlingFields, DeliveryMoves
<1>4. CASE UNCHANGED <<provisioned, provider, subscription>> /\ (Mishap \/ UNCHANGED mishaps)
  <2>1. EventsOK'
    BY <1>1, <1>2, <1>4 DEF EventsOK
  <2> QED
    BY <1>2, <1>3, <1>4, <2>1, WebhookKeeps
<1>5. CASE /\ h.at = "resolved" /\ ~Violates(h.tenant, h.event) /\ Mishap
           /\ Upserted(h.tenant, h.event)
  <2>1. ProvidersOK' /\ SubscriptionsOK' /\ ExistingOK'
    BY <1>1, <1>5, HandlingFields, UpsertKeeps
  <2>2. EventsOK'
    BY <1>1, <1>2, <1>5, HandlingFields DEF EventsOK, Upserted
  <2>3. AtStripeOK' /\ mishaps' \in 0..MaxMishaps
    BY <1>1, <1>2, <1>5, MishapsInBounds DEF AtStripeOK, StripeOK
  <2> QED
    BY <1>3, <2>1, <2>2, <2>3, BillingInPartsNext
<1> QED
  BY <1>4, <1>5 DEF ProvisionFails

LEMMA ReleaseKeeps ==
  ASSUME BillingIInv, NEW h \in handling, ReleaseClaim(h) \/ ReleaseFails(h)
  PROVE  BillingIInv'
<1>1. EventsOK /\ HandlingsOK
  BY BillingInParts
<1>2. /\ handling' = handling \ {h} /\ (claims' = claims \/ claims' = claims \ {h.event})
      /\ forsaken' = forsaken \/ forsaken' = forsaken \cup {h.event}
      /\ UNCHANGED <<stripe, unanswered, provisioned, provider, subscription>> /\ (Mishap \/ UNCHANGED mishaps)
  BY DEF ReleaseClaim, ReleaseFails
<1>3. HandlingsOK'
  BY <1>1, <1>2, DeliveryEnds
<1>4. EventsOK'
  BY <1>1, <1>2, HandlingFields DEF EventsOK
<1> QED
  BY <1>2, <1>3, <1>4, WebhookKeeps

LEMMA CrashKeepsBilling ==
  ASSUME BillingIInv, ServerCrashes
  PROVE  BillingIInv'
<1>1. EventsOK /\ HandlingsOK
  BY BillingInParts
<1>2. /\ handling' = {} /\ forsaken' = forsaken \cup {h.event : h \in handling} /\ Mishap
      /\ UNCHANGED <<stripe, unanswered, claims, provisioned, provider, subscription>>
  BY DEF ServerCrashes
<1>3. HandlingsOK'
  BY <1>2 DEF HandlingsOK, OneHandler
<1>4. EventsOK'
  BY <1>1, <1>2, HandlingFields DEF EventsOK
<1> QED
  BY <1>2, <1>3, <1>4, WebhookKeeps

LEMMA BillingPreserved ==
  ASSUME BillingIInv, BillingNext
  PROVE  BillingIInv'
BY BuyKeeps, RenewKeeps, GraceKeeps, ClaimKeeps, DuplicateKeeps, ResolveKeeps, ProvisionKeeps,
   ProvisionFailsKeeps, ReleaseKeeps, CrashKeepsBilling DEF BillingNext

LEMMA BillingInitially == BillingInit => BillingIInv
<1> SUFFICES ASSUME BillingInit PROVE BillingIInv
  OBVIOUS
<1>1. AtStripeOK
  <2>1. stripe = [s \in Subscriptions |-> Unsold]
    BY DEF BillingInit
  <2>2. Unsold \in StripeRecords /\ Unsold.status = "none"
    BY NamesApart DEF Unsold, StripeRecords, Statuses, PlanNames
  <2>3. \A s \in Subscriptions : stripe[s].status = "none"
    BY <2>1, <2>2
  <2> QED
    BY <2>1, <2>2, <2>3 DEF AtStripeOK, StripeOK
<1>2. EventsOK /\ HandlingsOK
  BY DEF BillingInit, EventsOK, HandlingsOK, OneHandler
<1>3. ProvidersOK
  <2>1. provider = [t \in Tenants |-> [exists |-> FALSE, ref |-> NoRef]]
    BY DEF BillingInit
  <2>2. [exists |-> FALSE, ref |-> NoRef] \in ProviderRows
    BY DEF ProviderRows
  <2> QED
    BY <2>1, <2>2 DEF ProvidersOK
<1>4. SubscriptionsOK
  <2>1. subscription = [t \in Tenants |-> NoSubscription]
    BY DEF BillingInit
  <2>2. NoSubscription \in SubscriptionRows /\ NoSubscription.sub = "none"
    BY DEF NoSubscription, SubscriptionRows, Statuses, PlanNames
  <2> QED
    BY <2>1, <2>2 DEF SubscriptionsOK, OneTenantPerSubscription
<1>5. ExistingOK
  BY DEF BillingInit, ExistingOK
<1>6. mishaps = 0
  BY DEF BillingInit
<1>7. mishaps \in 0..MaxMishaps
  BY <1>6, NamesApart
<1> QED
  BY <1>1, <1>2, <1>3, <1>4, <1>5, <1>7, BillingInParts

-----------------------------------------------------------------------------
(* Enrolment: the invariant by what it is about *)

HooksOK == hooks \subseteq HookRecords /\ seen \subseteq HookRecords /\ HooksOwn

ApplyRecords(hs) ==
  [hook : hs, at : {"claimed", "known", "counted"}, tenant : Tenants \cup {Nowhere}, accepted : SUBSET Repositories]

ApplyingOK ==
  /\ applying \subseteq ApplyRecords(seen) /\ applied \subseteq seen
  /\ OneApplier /\ DeliveriesFiled

InstallationRows == [Installations -> {"none", "live", "suspended"}]
RepositoryRows == [Repositories -> {"none", "live", "archived"}]

FiledOK ==
  /\ installation \in [Tenants -> InstallationRows] /\ repository \in [Tenants -> RepositoryRows]
  /\ FiledUnderThePayer

PendingOK ==
  /\ pending \in [Installations -> SUBSET SUBSET Repositories]
  /\ \A i \in Installations : pending[i] \subseteq SUBSET GrantOf(i) /\ Cardinality(pending[i]) <= 1

SetupRecords == [at : {"shut", "bound", "taken", "enrolled"}, install : Installations \cup {"none"},
                 tenant : Tenants \cup {Nowhere}, taken : SUBSET SUBSET Repositories]
SetupOK == setup \in [Browsers -> SetupRecords] /\ SetupsFiled

ForgeRecords == [state : {"absent", "installed", "suspended"}, sent : 0..MaxHooks]
ForgeOK == forge \in [Installations -> ForgeRecords]
BroughtOK == brought \subseteq {CustomerOf[s] : s \in Subscriptions} \X Installations

LEMMA EnrolmentInParts ==
  EnrolmentIInv <=> ForgeOK /\ HooksOK /\ ApplyingOK /\ FiledOK /\ PendingOK /\ SetupOK /\ BroughtOK
BY DEF EnrolmentIInv, EnrolmentTypeOK, ForgeOK, HooksOK, ApplyingOK, FiledOK, PendingOK, SetupOK, BroughtOK,
   ApplyRecords, InstallationRows, RepositoryRows, SetupRecords, ForgeRecords

\* The same of the state after a step.
LEMMA EnrolmentInPartsNext ==
  EnrolmentIInv' <=> ForgeOK' /\ HooksOK' /\ ApplyingOK' /\ FiledOK' /\ PendingOK' /\ SetupOK' /\ BroughtOK'
BY DEF EnrolmentIInv, EnrolmentTypeOK, ForgeOK, HooksOK, ApplyingOK, FiledOK, PendingOK, SetupOK, BroughtOK,
   ApplyRecords, InstallationRows, RepositoryRows, SetupRecords, ForgeRecords

LEMMA PartsUntouched ==
  /\ UNCHANGED forge /\ ForgeOK => ForgeOK'
  /\ UNCHANGED <<hooks, seen>> /\ HooksOK => HooksOK'
  /\ UNCHANGED <<seen, applying, applied, brought>> /\ ApplyingOK => ApplyingOK'
  /\ UNCHANGED <<installation, repository, brought>> /\ FiledOK => FiledOK'
  /\ UNCHANGED pending /\ PendingOK => PendingOK'
  /\ UNCHANGED <<setup, brought>> /\ SetupOK => SetupOK'
  /\ UNCHANGED brought /\ BroughtOK => BroughtOK'
BY DEF ForgeOK, HooksOK, HooksOwn, ApplyingOK, OneApplier, DeliveriesFiled, FiledOK, FiledUnderThePayer,
   PendingOK, SetupOK, SetupsFiled, BroughtOK

LEMMA GrantsAreRepositories ==
  ASSUME NEW i PROVE GrantOf(i) \subseteq Repositories /\ \A r \in GrantOf(i) : InstallationOf[r] = i
BY DEF GrantOf

LEMMA HookFields ==
  ASSUME NEW h \in HookRecords
  PROVE  h.install \in Installations /\ h.repos \subseteq Repositories
BY DEF HookRecords

LEMMA ApplyFields ==
  ASSUME ApplyingOK, HooksOK, NEW d \in applying
  PROVE  /\ d \in ApplyRecords(seen) /\ d.hook \in seen /\ d.hook.install \in Installations
         /\ d.tenant \in Tenants \cup {Nowhere} /\ d.accepted \subseteq Repositories
         /\ d.hook.repos \subseteq GrantOf(d.hook.install)
<1>1. d \in ApplyRecords(seen)
  BY DEF ApplyingOK
<1>2. d.hook \in seen /\ d.tenant \in Tenants \cup {Nowhere} /\ d.accepted \subseteq Repositories
  BY <1>1 DEF ApplyRecords
<1> QED
  BY <1>1, <1>2, HookFields DEF HooksOK, HooksOwn

\* What is taken up to a limit is among what was asked for.
LEMMA AcceptedWasAsked ==
  ASSUME NEW t, NEW repos, NEW accepted \in Acceptable(t, repos)
  PROVE  accepted \subseteq repos
<1>1. PICK some : some \subseteq repos \ Live(t) /\ accepted = (repos \cap Live(t)) \cup some
  BY DEF Acceptable
<1> QED
  BY <1>1

-----------------------------------------------------------------------------
(* Enrolment: GitHub, and the claim of a delivery *)

LEMMA SendsKeeps ==
  ASSUME EnrolmentIInv, NEW i \in Installations,
         NEW state \in {"absent", "installed", "suspended"},
         NEW type \in {"created", "revoked", "suspended", "unsuspended", "added", "removed"},
         NEW repos \in SUBSET GrantOf(i), Sends(i, state, type, repos)
  PROVE  EnrolmentIInv'
<1>1. ForgeOK /\ HooksOK /\ ApplyingOK /\ FiledOK /\ PendingOK /\ SetupOK /\ BroughtOK
  BY EnrolmentInParts
<1>2. PICK n : n = forge[i].sent
  OBVIOUS
<1>3. n \in 0..MaxHooks /\ n < MaxHooks
  BY <1>1, <1>2 DEF Sends, ForgeOK, ForgeRecords
<1>4. PICK f : f = [state |-> state, sent |-> n + 1]
  OBVIOUS
<1>5. f \in ForgeRecords
  BY <1>3, <1>4, EnrolmentAssumption DEF ForgeRecords
<1>6. forge' = [forge EXCEPT ![i] = f]
  BY <1>1, <1>2, <1>4 DEF Sends, ForgeOK
<1>7. ForgeOK'
  BY <1>1, <1>5, <1>6 DEF ForgeOK
<1>8. PICK h : h = [install |-> i, n |-> n, type |-> type, repos |-> repos]
  OBVIOUS
<1>9. h \in HookRecords /\ h.install = i /\ h.repos = repos
  BY <1>3, <1>8, GrantsAreRepositories DEF HookRecords
<1>10. hooks' = hooks \cup {h} /\ AtForge
  BY <1>2, <1>8 DEF Sends
<1>11. UNCHANGED <<seen, applying, applied, installation, repository, pending, setup, brought>>
  BY <1>10 DEF AtForge
<1>12. HooksOK'
  BY <1>1, <1>9, <1>10, <1>11 DEF HooksOK, HooksOwn
<1> QED
  BY <1>1, <1>7, <1>11, <1>12, PartsUntouched, EnrolmentInPartsNext

LEMMA ForgeKeeps ==
  ASSUME EnrolmentIInv, NEW i \in Installations, ForgeActs(i)
  PROVE  EnrolmentIInv'
<1>1. ASSUME NEW repos \in SUBSET GrantOf(i), Sends(i, "installed", "created", repos) PROVE EnrolmentIInv'
  BY <1>1, SendsKeeps
<1>2. CASE Sends(i, "absent", "revoked", {}) \/ Sends(i, "suspended", "suspended", {})
           \/ Sends(i, "installed", "unsuspended", {})
  BY <1>2, SendsKeeps
<1>3. ASSUME NEW r \in GrantOf(i), Sends(i, "installed", "added", {r}) \/ Sends(i, "installed", "removed", {r})
      PROVE  EnrolmentIInv'
  <2>1. {r} \in SUBSET GrantOf(i)
    OBVIOUS
  <2> QED
    BY <1>3, <2>1, SendsKeeps
<1> QED
  BY <1>1, <1>2, <1>3 DEF ForgeActs

LEMMA RedeliverKeeps ==
  ASSUME EnrolmentIInv, NEW h \in seen, Redeliver(h)
  PROVE  EnrolmentIInv'
<1>1. ForgeOK /\ HooksOK /\ ApplyingOK /\ FiledOK /\ PendingOK /\ SetupOK /\ BroughtOK
  BY EnrolmentInParts
<1>2. hooks' = hooks \cup {h} /\ UNCHANGED forge
      /\ UNCHANGED <<seen, applying, applied, installation, repository, pending, setup, brought>>
  BY DEF Redeliver, AtForge
<1>3. HooksOK'
  BY <1>1, <1>2 DEF HooksOK, HooksOwn
<1> QED
  BY <1>1, <1>2, <1>3, PartsUntouched, EnrolmentInPartsNext

\* A delivery is claimed once, so no other handles it and none has applied it.
LEMMA ReceiveKeeps ==
  ASSUME EnrolmentIInv, NEW h \in hooks, Receive(h)
  PROVE  EnrolmentIInv'
<1>1. ForgeOK /\ HooksOK /\ ApplyingOK /\ FiledOK /\ PendingOK /\ SetupOK /\ BroughtOK
  BY EnrolmentInParts
<1>2. UNCHANGED <<applied, installation, repository, pending, forge, setup, brought>>
  BY DEF Receive, AtWebhook
<1>3. CASE h \in seen
  <2>1. hooks' = hooks \ {h} /\ UNCHANGED <<seen, applying>>
    BY <1>3 DEF Receive
  <2>2. HooksOK'
    BY <1>1, <2>1 DEF HooksOK, HooksOwn
  <2> QED
    BY <1>1, <1>2, <2>1, <2>2, PartsUntouched, EnrolmentInPartsNext
<1>4. CASE h \notin seen
  <2>1. PICK d : d = [hook |-> h, at |-> "claimed", tenant |-> Nowhere, accepted |-> {}]
    OBVIOUS
  <2>2. seen' = seen \cup {h} /\ applying' = applying \cup {d} /\ UNCHANGED hooks
    BY <1>4, <2>1 DEF Receive
  <2>3. HooksOK'
    BY <1>1, <2>2 DEF HooksOK, HooksOwn
  <2>4. d \in ApplyRecords(seen') /\ d.hook = h /\ d.at = "claimed" /\ d.tenant = Nowhere /\ d.accepted = {}
    BY <2>1, <2>2 DEF ApplyRecords
  <2>5. \A e \in applying : e \in ApplyRecords(seen') /\ e.hook # h
    BY <1>1, <1>4, <2>2 DEF ApplyingOK, ApplyRecords
  <2>6. OneApplier'
    BY <1>1, <1>2, <1>4, <2>2, <2>4, <2>5 DEF ApplyingOK, OneApplier
  <2>7. DeliveriesFiled'
    BY <1>1, <1>2, <2>2, <2>4 DEF ApplyingOK, DeliveriesFiled
  <2>8. ApplyingOK'
    BY <1>1, <1>2, <2>2, <2>4, <2>5, <2>6, <2>7 DEF ApplyingOK
  <2> QED
    BY <1>1, <1>2, <2>3, <2>8, PartsUntouched, EnrolmentInPartsNext
<1> QED
  BY <1>3, <1>4

\* A delivery goes on, with what it has found.
LEMMA TookKeeps ==
  ASSUME EnrolmentIInv, NEW d \in applying,
         NEW at \in {"known", "counted"}, NEW tenant \in Tenants \cup {Nowhere}, NEW accepted \in SUBSET Repositories,
         applying' = Took(d, at, tenant, accepted), AtWebhook,
         UNCHANGED <<hooks, seen, applied, installation, repository, pending>>,
         tenant # Nowhere => tenant \in Tenants /\ <<tenant[1], d.hook.install>> \in brought,
         at = "counted" => tenant # Nowhere,
         accepted \subseteq GrantOf(d.hook.install)
  PROVE  EnrolmentIInv'
<1>1. ForgeOK /\ HooksOK /\ ApplyingOK /\ FiledOK /\ PendingOK /\ SetupOK /\ BroughtOK
  BY EnrolmentInParts
<1>2. UNCHANGED <<forge, setup, brought>>
  BY DEF AtWebhook
<1>3. PICK e : e = [d EXCEPT !.at = at, !.tenant = tenant, !.accepted = accepted]
  OBVIOUS
<1>4. d \in ApplyRecords(seen)
  BY <1>1 DEF ApplyingOK
<1>5. e \in ApplyRecords(seen) /\ e.hook = d.hook /\ e.at = at /\ e.tenant = tenant /\ e.accepted = accepted
  BY <1>3, <1>4 DEF ApplyRecords
<1>6. applying' = (applying \ {d}) \cup {e}
  BY <1>3 DEF Took
<1>7. OneApplier'
  BY <1>1, <1>5, <1>6 DEF ApplyingOK, OneApplier
<1>8. DeliveriesFiled'
  BY <1>1, <1>2, <1>5, <1>6 DEF ApplyingOK, DeliveriesFiled
<1>9. ApplyingOK'
  BY <1>1, <1>5, <1>6, <1>7, <1>8 DEF ApplyingOK
<1> QED
  BY <1>1, <1>2, <1>9, PartsUntouched, EnrolmentInPartsNext

\* A tenant that has the installation has it by its customer's doing.
LEMMA LookUpKeeps ==
  ASSUME EnrolmentIInv, NEW d \in applying, LookUp(d)
  PROVE  EnrolmentIInv'
<1>1. HooksOK /\ ApplyingOK /\ FiledOK
  BY EnrolmentInParts
<1>2. PICK i \in Installations : i = d.hook.install
  BY <1>1, ApplyFields
<1>3. PICK t \in IF Holders(i) = {} THEN {Nowhere} ELSE Holders(i) : applying' = Took(d, "known", t, {})
  BY <1>2 DEF LookUp
<1>4. t = Nowhere \/ (t \in Tenants /\ installation[t][i] # "none")
  <2>1. t = Nowhere \/ t \in Holders(i)
    BY <1>3
  <2> QED
    BY <2>1 DEF Holders
<1>5. t # Nowhere => t \in Tenants /\ <<t[1], i>> \in brought
  BY <1>1, <1>4 DEF FiledOK, FiledUnderThePayer
<1>6. t \in Tenants \cup {Nowhere} /\ {} \in SUBSET Repositories
  BY <1>4
<1> QED
  BY <1>2, <1>3, <1>5, <1>6, TookKeeps DEF LookUp

LEMMA CountKeeps ==
  ASSUME EnrolmentIInv, NEW d \in applying, CountRoom(d)
  PROVE  EnrolmentIInv'
<1>1. HooksOK /\ ApplyingOK
  BY EnrolmentInParts
<1>2. PICK accepted \in Acceptable(d.tenant, d.hook.repos) : applying' = Took(d, "counted", d.tenant, accepted)
  BY DEF CountRoom
<1>3. accepted \subseteq GrantOf(d.hook.install) /\ accepted \subseteq Repositories
  BY <1>1, <1>2, AcceptedWasAsked, ApplyFields, GrantsAreRepositories
<1>4. d.tenant # Nowhere /\ d.tenant \in Tenants \cup {Nowhere}
  BY <1>1, ApplyFields DEF CountRoom
<1>5. d.tenant \in Tenants /\ <<d.tenant[1], d.hook.install>> \in brought
  BY <1>1, <1>4 DEF ApplyingOK, DeliveriesFiled
<1> QED
  BY <1>2, <1>3, <1>4, <1>5, TookKeeps DEF CountRoom

-----------------------------------------------------------------------------
(* Enrolment: what is written to a tenant *)

\* Only rows of t for i and its repositories come into being.
WrittenFor(t, i) ==
  /\ installation' \in [Tenants -> InstallationRows] /\ repository' \in [Tenants -> RepositoryRows]
  /\ \A u \in Tenants, j \in Installations :
       installation'[u][j] # "none" => installation[u][j] # "none" \/ (u = t /\ j = i)
  /\ \A u \in Tenants, r \in Repositories :
       repository'[u][r] # "none" => repository[u][r] # "none" \/ (u = t /\ r \in GrantOf(i))

LEMMA WritingKeepsFiled ==
  ASSUME FiledOK, NEW t \in Tenants, NEW i \in Installations, <<t[1], i>> \in brought,
         UNCHANGED brought, WrittenFor(t, i)
  PROVE  FiledOK'
<1>1. ASSUME NEW u \in Tenants, NEW j \in Installations, installation'[u][j] # "none"
      PROVE  <<u[1], j>> \in brought
  BY <1>1 DEF WrittenFor, FiledOK, FiledUnderThePayer
<1>2. ASSUME NEW u \in Tenants, NEW j \in Installations, NEW r \in GrantOf(j), repository'[u][r] # "none"
      PROVE  <<u[1], j>> \in brought
  <2>1. r \in Repositories /\ InstallationOf[r] = j
    BY GrantsAreRepositories
  <2>2. CASE repository[u][r] # "none"
    BY <2>2 DEF FiledOK, FiledUnderThePayer
  <2>3. CASE u = t /\ r \in GrantOf(i)
    BY <2>1, <2>3, GrantsAreRepositories
  <2> QED
    BY <1>2, <2>1, <2>2, <2>3 DEF WrittenFor
<1> QED
  BY <1>1, <1>2 DEF WrittenFor, FiledOK, FiledUnderThePayer

LEMMA InstallationSet ==
  ASSUME FiledOK, NEW t \in Tenants, NEW i \in Installations, NEW v \in {"live", "suspended"},
         installation' = [installation EXCEPT ![t][i] = v]
  PROVE  /\ installation' \in [Tenants -> InstallationRows]
         /\ \A u \in Tenants, j \in Installations :
              installation'[u][j] # "none" => installation[u][j] # "none" \/ (u = t /\ j = i)
<1>1. installation \in [Tenants -> InstallationRows] /\ installation[t] \in InstallationRows
  BY DEF FiledOK
<1>2. PICK row : row = [installation[t] EXCEPT ![i] = v]
  OBVIOUS
<1>3. row \in InstallationRows /\ \A j \in Installations \ {i} : row[j] = installation[t][j]
  BY <1>1, <1>2 DEF InstallationRows
<1>4. installation' = [installation EXCEPT ![t] = row]
  BY <1>1, <1>2
<1>5. installation'[t] = row /\ \A u \in Tenants \ {t} : installation'[u] = installation[u]
  BY <1>1, <1>4
<1>6. installation' \in [Tenants -> InstallationRows]
  BY <1>1, <1>3, <1>4
<1> QED
  BY <1>3, <1>5, <1>6

\* What is granted is what was accepted, or was there.
LEMMA RepositoriesSet ==
  ASSUME FiledOK, NEW t \in Tenants, NEW i \in Installations, NEW row \in RepositoryRows,
         \A r \in Repositories : row[r] # "none" => repository[t][r] # "none" \/ r \in GrantOf(i),
         repository' = [repository EXCEPT ![t] = row]
  PROVE  /\ repository' \in [Tenants -> RepositoryRows]
         /\ \A u \in Tenants, r \in Repositories :
              repository'[u][r] # "none" => repository[u][r] # "none" \/ (u = t /\ r \in GrantOf(i))
<1>1. repository \in [Tenants -> RepositoryRows]
  BY DEF FiledOK
<1>2. repository'[t] = row /\ \A u \in Tenants \ {t} : repository'[u] = repository[u]
  BY <1>1
<1> QED
  BY <1>1, <1>2

LEMMA AcceptedSet ==
  ASSUME FiledOK, NEW t \in Tenants, NEW i \in Installations, NEW accepted \in SUBSET GrantOf(i),
         repository' = [repository EXCEPT ![t] = [r \in Repositories |-> IF r \in accepted THEN "live" ELSE @[r]]]
  PROVE  /\ repository' \in [Tenants -> RepositoryRows]
         /\ \A u \in Tenants, r \in Repositories :
              repository'[u][r] # "none" => repository[u][r] # "none" \/ (u = t /\ r \in GrantOf(i))
<1>1. repository \in [Tenants -> RepositoryRows] /\ repository[t] \in RepositoryRows
  BY DEF FiledOK
<1>2. PICK row : row = [r \in Repositories |-> IF r \in accepted THEN "live" ELSE repository[t][r]]
  OBVIOUS
<1>3. row \in RepositoryRows
      /\ \A r \in Repositories : row[r] # "none" => repository[t][r] # "none" \/ r \in GrantOf(i)
  BY <1>1, <1>2 DEF RepositoryRows
<1>4. repository' = [repository EXCEPT ![t] = row]
  BY <1>1, <1>2
<1> QED
  BY <1>3, <1>4, RepositoriesSet

\* A delivery has taken effect, and no other has its claim.
LEMMA AnsweredKeeps ==
  ASSUME EnrolmentIInv, NEW d \in applying, Answered(d), FiledOK', PendingOK'
  PROVE  EnrolmentIInv'
<1>1. ForgeOK /\ HooksOK /\ ApplyingOK /\ FiledOK /\ PendingOK /\ SetupOK /\ BroughtOK
  BY EnrolmentInParts
<1>2. /\ applying' = applying \ {d} /\ hooks' = hooks \ {d.hook} /\ applied' = applied \cup {d.hook}
      /\ UNCHANGED <<seen, forge, setup, brought>>
  BY DEF Answered, AtWebhook
<1>3. HooksOK'
  BY <1>1, <1>2 DEF HooksOK, HooksOwn
<1>4. d.hook \in seen
  BY <1>1, ApplyFields
<1>5. OneApplier'
  BY <1>1, <1>2 DEF ApplyingOK, OneApplier
<1>6. DeliveriesFiled'
  BY <1>1, <1>2 DEF ApplyingOK, DeliveriesFiled
<1>7. ApplyingOK'
  BY <1>1, <1>2, <1>4, <1>5, <1>6 DEF ApplyingOK
<1> QED
  BY <1>1, <1>2, <1>3, <1>7, PartsUntouched, EnrolmentInPartsNext

\* A delivery that has a tenant has one whose customer brought the installation.
LEMMA TenantOfDelivery ==
  ASSUME ApplyingOK, HooksOK, NEW d \in applying, d.tenant # Nowhere
  PROVE  d.tenant \in Tenants /\ d.hook.install \in Installations /\ <<d.tenant[1], d.hook.install>> \in brought
BY ApplyFields DEF ApplyingOK, DeliveriesFiled

LEMMA GrantKeeps ==
  ASSUME EnrolmentIInv, NEW d \in applying, Grant(d)
  PROVE  EnrolmentIInv'
<1>1. HooksOK /\ ApplyingOK /\ FiledOK /\ PendingOK
  BY EnrolmentInParts
<1>2. d.tenant # Nowhere /\ d.accepted \subseteq GrantOf(d.hook.install)
  BY <1>1 DEF Grant, ApplyingOK, DeliveriesFiled
<1>3. PICK t \in Tenants, i \in Installations : t = d.tenant /\ i = d.hook.install /\ <<t[1], i>> \in brought
  BY <1>1, <1>2, TenantOfDelivery
<1>4. PICK accepted \in SUBSET GrantOf(i) : accepted = d.accepted
  BY <1>2, <1>3
<1>5. /\ repository' = [repository EXCEPT ![t] = [r \in Repositories |-> IF r \in accepted THEN "live" ELSE @[r]]]
      /\ installation' = [installation EXCEPT ![t][i] = "live"] \/ UNCHANGED installation
      /\ UNCHANGED pending /\ Answered(d)
  BY <1>3, <1>4 DEF Grant
<1>6. /\ repository' \in [Tenants -> RepositoryRows]
      /\ \A u \in Tenants, r \in Repositories :
           repository'[u][r] # "none" => repository[u][r] # "none" \/ (u = t /\ r \in GrantOf(i))
  BY <1>1, <1>5, AcceptedSet
<1>7. /\ installation' \in [Tenants -> InstallationRows]
      /\ \A u \in Tenants, j \in Installations :
           installation'[u][j] # "none" => installation[u][j] # "none" \/ (u = t /\ j = i)
  <2>1. CASE installation' = [installation EXCEPT ![t][i] = "live"]
    BY <1>1, <2>1, InstallationSet
  <2>2. CASE UNCHANGED installation
    BY <1>1, <2>2 DEF FiledOK
  <2> QED
    BY <1>5, <2>1, <2>2
<1>8. FiledOK'
  BY <1>1, <1>3, <1>5, <1>6, <1>7, WritingKeepsFiled DEF WrittenFor, Answered, AtWebhook
<1> QED
  BY <1>1, <1>5, <1>8, PartsUntouched, AnsweredKeeps

LEMMA AdjustKeeps ==
  ASSUME EnrolmentIInv, NEW d \in applying, Adjust(d)
  PROVE  EnrolmentIInv'
<1>1. HooksOK /\ ApplyingOK /\ FiledOK /\ PendingOK
  BY EnrolmentInParts
<1>2. PICK t \in Tenants, i \in Installations : t = d.tenant /\ i = d.hook.install /\ <<t[1], i>> \in brought
  BY <1>1, TenantOfDelivery DEF Adjust
<1>3. /\ \/ UNCHANGED installation
         \/ installation' = [installation EXCEPT ![t][i] = "live"]
         \/ installation' = [installation EXCEPT ![t][i] = "suspended"]
      /\ repository' = [repository EXCEPT ![t] =
           [r \in Repositories |-> IF d.hook.type = "removed" /\ r \in d.hook.repos /\ @[r] = "live"
                                   THEN "archived" ELSE @[r]]]
      /\ UNCHANGED pending /\ Answered(d)
  BY <1>2 DEF Adjust
<1>4. PICK row : row = [r \in Repositories |-> IF d.hook.type = "removed" /\ r \in d.hook.repos /\ repository[t][r] = "live"
                                                 THEN "archived" ELSE repository[t][r]]
  OBVIOUS
<1>5. repository \in [Tenants -> RepositoryRows] /\ repository[t] \in RepositoryRows
  BY <1>1 DEF FiledOK
<1>6. row \in RepositoryRows /\ \A r \in Repositories : row[r] # "none" => repository[t][r] # "none" \/ r \in GrantOf(i)
  BY <1>4, <1>5 DEF RepositoryRows
<1>7. repository' = [repository EXCEPT ![t] = row]
  BY <1>3, <1>4, <1>5
<1>8. /\ repository' \in [Tenants -> RepositoryRows]
      /\ \A u \in Tenants, r \in Repositories :
           repository'[u][r] # "none" => repository[u][r] # "none" \/ (u = t /\ r \in GrantOf(i))
  <2>1. row \in RepositoryRows
    BY <1>6
  <2>2. \A r \in Repositories : row[r] # "none" => repository[t][r] # "none" \/ r \in GrantOf(i)
    BY <1>6
  <2> QED
    BY <1>1, <1>2, <1>7, <2>1, <2>2, RepositoriesSet
<1>9. /\ installation' \in [Tenants -> InstallationRows]
      /\ \A u \in Tenants, j \in Installations :
           installation'[u][j] # "none" => installation[u][j] # "none" \/ (u = t /\ j = i)
  <2>1. CASE UNCHANGED installation
    BY <1>1, <2>1 DEF FiledOK
  <2>2. CASE installation' = [installation EXCEPT ![t][i] = "live"]
    BY <1>1, <2>2, InstallationSet
  <2>3. CASE installation' = [installation EXCEPT ![t][i] = "suspended"]
    BY <1>1, <2>3, InstallationSet
  <2> QED
    BY <1>3, <2>1, <2>2, <2>3
<1>10. FiledOK'
  BY <1>1, <1>2, <1>3, <1>8, <1>9, WritingKeepsFiled DEF WrittenFor, Answered, AtWebhook
<1> QED
  BY <1>1, <1>3, <1>10, PartsUntouched, AnsweredKeeps

\* What is parked is one selection, of the installation's own repositories.
LEMMA PendingSet ==
  ASSUME PendingOK, NEW i \in Installations, NEW parked \in SUBSET SUBSET GrantOf(i), Cardinality(parked) <= 1,
         pending' = [pending EXCEPT ![i] = parked]
  PROVE  PendingOK'
<1>1. parked \in SUBSET SUBSET Repositories
  BY GrantsAreRepositories
<1>2. pending'[i] = parked /\ \A j \in Installations \ {i} : pending'[j] = pending[j]
  BY DEF PendingOK
<1> QED
  BY <1>1, <1>2 DEF PendingOK

LEMMA ParkKeeps ==
  ASSUME EnrolmentIInv, NEW d \in applying, Park(d)
  PROVE  EnrolmentIInv'
<1>1. HooksOK /\ ApplyingOK /\ FiledOK /\ PendingOK
  BY EnrolmentInParts
<1>2. UNCHANGED <<installation, repository>> /\ Answered(d) /\ UNCHANGED brought
  BY DEF Park, Answered, AtWebhook
<1>3. FiledOK'
  BY <1>1, <1>2, PartsUntouched
<1>4. CASE UNCHANGED pending
  BY <1>1, <1>2, <1>3, <1>4, PartsUntouched, AnsweredKeeps
<1>5. CASE pending' = [pending EXCEPT ![d.hook.install] = {d.hook.repos}]
  <2>1. d.hook.install \in Installations /\ d.hook.repos \subseteq GrantOf(d.hook.install)
    BY <1>1, ApplyFields
  <2>2. Cardinality({d.hook.repos}) <= 1
    <3>1. Cardinality({d.hook.repos}) = 1
      BY FS_Singleton
    <3> QED
      BY <3>1
  <2>3. PendingOK'
    BY <1>1, <1>5, <2>1, <2>2, PendingSet
  <2> QED
    BY <1>2, <1>3, <2>3, AnsweredKeeps
<1> QED
  BY <1>4, <1>5 DEF Park

LEMMA HookDiesKeeps ==
  ASSUME EnrolmentIInv, NEW d \in applying, HookDies(d)
  PROVE  EnrolmentIInv'
<1>1. ForgeOK /\ HooksOK /\ ApplyingOK /\ FiledOK /\ PendingOK /\ SetupOK /\ BroughtOK
  BY EnrolmentInParts
<1>2. /\ applying' = applying \ {d}
      /\ UNCHANGED <<hooks, seen, applied, installation, repository, pending, forge, setup, brought>>
  BY DEF HookDies, AtWebhook
<1>3. ApplyingOK'
  BY <1>1, <1>2 DEF ApplyingOK, OneApplier, DeliveriesFiled
<1> QED
  BY <1>1, <1>2, <1>3, PartsUntouched, EnrolmentInPartsNext

-----------------------------------------------------------------------------
(* Enrolment: the browser at /setup *)

\* One request goes on, and the others do not.
LEMMA SetupMoves ==
  ASSUME SetupOK, NEW b \in Browsers, NEW r \in SetupRecords, setup' = [setup EXCEPT ![b] = r],
         brought \subseteq brought',
         r.at # "shut" =>
           /\ r.tenant \in Tenants /\ r.install \in Installations /\ <<r.tenant[1], r.install>> \in brought'
           /\ UNION r.taken \subseteq GrantOf(r.install)
  PROVE  SetupOK'
<1>1. /\ setup' \in [Browsers -> SetupRecords] /\ setup'[b] = r
      /\ \A c \in Browsers \ {b} : setup'[c] = setup[c]
  BY DEF SetupOK
<1>2. SetupsFiled'
  BY <1>1 DEF SetupOK, SetupsFiled
<1> QED
  BY <1>1, <1>2 DEF SetupOK

LEMMA ShutIsShut == Shut \in SetupRecords /\ Shut.at = "shut"
BY DEF Shut, SetupRecords

LEMMA SetupFields ==
  ASSUME SetupOK, NEW b \in Browsers
  PROVE  /\ setup[b] \in SetupRecords
         /\ setup[b].at # "shut" =>
              /\ setup[b].tenant \in Tenants /\ setup[b].install \in Installations
              /\ <<setup[b].tenant[1], setup[b].install>> \in brought
              /\ UNION setup[b].taken \subseteq GrantOf(setup[b].install)
BY DEF SetupOK, SetupsFiled

\* More that was brought disturbs nothing.
LEMMA BringingKeeps ==
  ASSUME brought \subseteq brought', UNCHANGED <<seen, applying, applied, installation, repository>>
  PROVE  (ApplyingOK => ApplyingOK') /\ (FiledOK => FiledOK')
BY DEF ApplyingOK, OneApplier, DeliveriesFiled, FiledOK, FiledUnderThePayer

\* The reference leads to a tenant of the customer who follows the link.
LEMMA ArriveKeeps ==
  ASSUME TenancyIInv, NEW b \in Browsers, NEW i \in Installations, NEW s \in Subscriptions, Arrive(b, i, s)
  PROVE  EnrolmentIInv'
<1>1. ForgeOK /\ HooksOK /\ ApplyingOK /\ FiledOK /\ PendingOK /\ SetupOK /\ BroughtOK
  BY EnrolmentInParts DEF TenancyIInv
<1>2. PICK t \in Tenants :
        /\ provider[t].ref = s
        /\ setup' = [setup EXCEPT ![b] = [Shut EXCEPT !.at = "bound", !.install = i, !.tenant = t]]
  BY DEF Arrive
<1>3. /\ brought' = brought \cup {<<CustomerOf[s], i>>}
      /\ UNCHANGED <<installation, repository, pending, forge, hooks, seen, applying, applied>>
  BY DEF Arrive, AtSetup
<1>4. t[1] = CustomerOf[s]
  <2>1. ProvidersOK
    BY BillingInParts DEF TenancyIInv
  <2> QED
    BY <1>2, <2>1, NamesApart DEF ProvidersOK
<1>5. PICK r : r = [Shut EXCEPT !.at = "bound", !.install = i, !.tenant = t]
  OBVIOUS
<1>6. r \in SetupRecords /\ r.at = "bound" /\ r.install = i /\ r.tenant = t /\ r.taken = {}
  BY <1>5 DEF Shut, SetupRecords
<1>7. SetupOK'
  <2>1. <<r.tenant[1], r.install>> \in brought' /\ UNION r.taken \subseteq GrantOf(r.install)
    BY <1>3, <1>4, <1>6
  <2> QED
    BY <1>1, <1>2, <1>3, <1>5, <1>6, <2>1, SetupMoves
<1>8. BroughtOK'
  BY <1>1, <1>3 DEF BroughtOK
<1>9. ApplyingOK' /\ FiledOK'
  BY <1>1, <1>3, BringingKeeps
<1> QED
  BY <1>1, <1>3, <1>7, <1>8, <1>9, PartsUntouched, EnrolmentInPartsNext

LEMMA TakeKeeps ==
  ASSUME EnrolmentIInv, NEW b \in Browsers, Take(b)
  PROVE  EnrolmentIInv'
<1>1. ForgeOK /\ HooksOK /\ ApplyingOK /\ FiledOK /\ PendingOK /\ SetupOK /\ BroughtOK
  BY EnrolmentInParts
<1>2. PICK old \in SetupRecords : old = setup[b] /\ old.at = "bound"
  BY <1>1, SetupFields DEF Take
<1>3. PICK i \in Installations : i = old.install
  BY <1>1, <1>2, SetupFields
<1>4. PICK parked : parked = pending[i]
  OBVIOUS
<1>5. parked \subseteq SUBSET GrantOf(i) /\ parked \in SUBSET SUBSET Repositories
  BY <1>1, <1>3, <1>4 DEF PendingOK
<1>6. PICK r : r = [old EXCEPT !.at = "taken", !.taken = parked]
  OBVIOUS
<1>7. r \in SetupRecords /\ r.at = "taken" /\ r.taken = parked /\ r.tenant = old.tenant /\ r.install = i
  BY <1>3, <1>5, <1>6 DEF SetupRecords
<1>8. /\ setup' = [setup EXCEPT ![b] = r] /\ pending' = [pending EXCEPT ![i] = {}]
      /\ UNCHANGED <<installation, repository, brought, forge, hooks, seen, applying, applied>>
  BY <1>1, <1>2, <1>3, <1>4, <1>6 DEF Take, AtSetup, SetupOK
<1>9. SetupOK'
  <2>1. old.tenant \in Tenants /\ <<old.tenant[1], i>> \in brought
    BY <1>1, <1>2, <1>3, SetupFields
  <2>2. UNION r.taken \subseteq GrantOf(r.install)
    BY <1>5, <1>7
  <2> QED
    BY <1>1, <1>3, <1>7, <1>8, <2>1, <2>2, SetupMoves
<1>10. PendingOK'
  <2>1. Cardinality({}) <= 1
    <3>1. Cardinality({}) = 0
      BY FS_EmptySet
    <3> QED
      BY <3>1
  <2> QED
    BY <1>1, <1>3, <1>8, <2>1, PendingSet
<1> QED
  BY <1>1, <1>8, <1>9, <1>10, PartsUntouched, EnrolmentInPartsNext

LEMMA EnrolKeeps ==
  ASSUME EnrolmentIInv, NEW b \in Browsers, Enrol(b)
  PROVE  EnrolmentIInv'
<1>1. ForgeOK /\ HooksOK /\ ApplyingOK /\ FiledOK /\ PendingOK /\ SetupOK /\ BroughtOK
  BY EnrolmentInParts
<1>2. PICK old \in SetupRecords : old = setup[b] /\ old.at = "taken"
  BY <1>1, SetupFields DEF Enrol
<1>3. PICK t \in Tenants, i \in Installations :
        /\ t = old.tenant /\ i = old.install
        /\ <<t[1], i>> \in brought /\ UNION old.taken \subseteq GrantOf(i)
  BY <1>1, <1>2, SetupFields
<1>4. PICK r : r = [old EXCEPT !.at = "enrolled"]
  OBVIOUS
<1>5. /\ r \in SetupRecords /\ r.at = "enrolled" /\ r.taken = old.taken
      /\ r.tenant = old.tenant /\ r.install = old.install
  BY <1>4 DEF SetupRecords
<1>6. PICK accepted \in Acceptable(t, UNION old.taken) :
        repository' = [repository EXCEPT ![t] = [x \in Repositories |-> IF x \in accepted THEN "live" ELSE @[x]]]
  BY <1>2, <1>3 DEF Enrol
<1>7. accepted \in SUBSET GrantOf(i)
  BY <1>3, <1>6, AcceptedWasAsked
<1>8. /\ setup' = [setup EXCEPT ![b] = r] /\ installation' = [installation EXCEPT ![t][i] = "live"]
      /\ UNCHANGED <<pending, brought, forge, hooks, seen, applying, applied>>
  BY <1>1, <1>2, <1>3, <1>4 DEF Enrol, Goes, AtSetup, SetupOK
<1>9. /\ repository' \in [Tenants -> RepositoryRows]
      /\ \A u \in Tenants, x \in Repositories :
           repository'[u][x] # "none" => repository[u][x] # "none" \/ (u = t /\ x \in GrantOf(i))
  BY <1>1, <1>6, <1>7, AcceptedSet, Zenon
<1>10. /\ installation' \in [Tenants -> InstallationRows]
       /\ \A u \in Tenants, j \in Installations :
            installation'[u][j] # "none" => installation[u][j] # "none" \/ (u = t /\ j = i)
  <2>1. installation' = [installation EXCEPT ![t][i] = "live"] /\ t \in Tenants /\ i \in Installations
    BY <1>3, <1>8
  <2> HIDE DEF InstallationRows
  <2> QED
    BY <1>1, <2>1, InstallationSet
<1>11. FiledOK'
  BY <1>1, <1>3, <1>8, <1>9, <1>10, WritingKeepsFiled DEF WrittenFor
<1>12. SetupOK'
  BY <1>1, <1>3, <1>5, <1>8, SetupMoves
<1> QED
  BY <1>1, <1>8, <1>11, <1>12, PartsUntouched, EnrolmentInPartsNext

\* The request is over, answered or not.
LEMMA SetupEndsKeeps ==
  ASSUME EnrolmentIInv, NEW b \in Browsers, Consume(b) \/ SetupDies(b)
  PROVE  EnrolmentIInv'
<1>1. ForgeOK /\ HooksOK /\ ApplyingOK /\ FiledOK /\ PendingOK /\ SetupOK /\ BroughtOK
  BY EnrolmentInParts
<1>2. /\ setup' = [setup EXCEPT ![b] = Shut]
      /\ UNCHANGED <<installation, repository, pending, brought, forge, hooks, seen, applying, applied>>
  BY DEF Consume, SetupDies, AtSetup
<1>3. SetupOK'
  BY <1>1, <1>2, ShutIsShut, SetupMoves
<1> QED
  BY <1>1, <1>2, <1>3, PartsUntouched, EnrolmentInPartsNext

LEMMA EnrolmentPreserved ==
  ASSUME TenancyIInv, EnrolmentNext
  PROVE  EnrolmentIInv'
<1>1. EnrolmentIInv
  BY DEF TenancyIInv
<1>2. ASSUME NEW i \in Installations, ForgeActs(i) PROVE EnrolmentIInv'
  BY <1>1, <1>2, ForgeKeeps
<1>3. ASSUME NEW h \in seen, Redeliver(h) PROVE EnrolmentIInv'
  BY <1>1, <1>3, RedeliverKeeps
<1>4. ASSUME NEW h \in hooks, Receive(h) PROVE EnrolmentIInv'
  BY <1>1, <1>4, ReceiveKeeps
<1>5. ASSUME NEW d \in applying,
             LookUp(d) \/ CountRoom(d) \/ Grant(d) \/ Adjust(d) \/ Park(d) \/ HookDies(d)
      PROVE  EnrolmentIInv'
  BY <1>1, <1>5, LookUpKeeps, CountKeeps, GrantKeeps, AdjustKeeps, ParkKeeps, HookDiesKeeps
<1>6. ASSUME NEW b \in Browsers, NEW i \in Installations, NEW s \in Subscriptions, Arrive(b, i, s)
      PROVE  EnrolmentIInv'
  BY <1>6, ArriveKeeps
<1>7. ASSUME NEW b \in Browsers, Take(b) \/ Enrol(b) \/ Consume(b) \/ SetupDies(b) PROVE EnrolmentIInv'
  BY <1>1, <1>7, TakeKeeps, EnrolKeeps, SetupEndsKeeps
<1> QED
  BY <1>2, <1>3, <1>4, <1>5, <1>6, <1>7 DEF EnrolmentNext

\* What enrolment does to Billing's state: a reference is consumed.
LEMMA EnrolmentKeepsBilling ==
  ASSUME TenancyIInv, EnrolmentNext
  PROVE  BillingIInv'
<1>1. /\ AtStripeOK /\ EventsOK /\ HandlingsOK /\ ProvidersOK /\ SubscriptionsOK /\ ExistingOK
      /\ mishaps \in 0..MaxMishaps /\ SetupOK
  BY BillingInParts, EnrolmentInParts DEF TenancyIInv
<1>2. UNCHANGED <<stripe, unanswered, claims, handling, provisioned, forsaken, subscription>>
  BY DEF EnrolmentNext, HandlingBilling
<1>3. AtStripeOK' /\ EventsOK' /\ HandlingsOK' /\ SubscriptionsOK'
  BY <1>1, <1>2 DEF AtStripeOK, StripeOK, EventsOK, HandlingsOK, OneHandler, SubscriptionsOK, OneTenantPerSubscription
<1>4. mishaps' \in 0..MaxMishaps
  <2>1. Mishap \/ UNCHANGED mishaps
    BY DEF EnrolmentNext, Redeliver, Receive, LookUp, CountRoom, Grant, Adjust, Park, HookDies, Answered,
         Arrive, Take, Enrol, Consume, SetupDies
  <2> QED
    BY <1>1, <2>1, MishapsInBounds
<1>5. CASE UNCHANGED provider
  <2>1. ProvidersOK' /\ ExistingOK'
    BY <1>1, <1>2, <1>5 DEF ProvidersOK, ExistingOK
  <2> QED
    BY <1>3, <1>4, <2>1, BillingInPartsNext
<1>6. ASSUME NEW b \in Browsers, Consume(b) PROVE BillingIInv'
  <2>1. PICK t \in Tenants : t = setup[b].tenant
    BY <1>1, <1>6, SetupFields DEF Consume
  <2>2. provider[t] \in ProviderRows
    BY <1>1 DEF ProvidersOK
  <2>3. PICK p : p = [provider[t] EXCEPT !.ref = NoRef]
    OBVIOUS
  <2>4. p \in ProviderRows /\ p.ref = NoRef /\ p.exists = provider[t].exists
    BY <2>2, <2>3 DEF ProviderRows
  <2>5. provider' = [provider EXCEPT ![t] = p]
    BY <1>1, <1>6, <2>1, <2>3 DEF Consume, ProvidersOK
  <2>6. /\ provider' \in [Tenants -> ProviderRows] /\ provider'[t] = p
        /\ \A u \in Tenants \ {t} : provider'[u] = provider[u]
    BY <1>1, <2>4, <2>5 DEF ProvidersOK
  <2>7. ProvidersOK'
    BY <1>1, <2>4, <2>6 DEF ProvidersOK
  <2>8. ExistingOK'
    BY <1>1, <1>2, <2>4, <2>6 DEF ExistingOK
  <2> QED
    BY <1>3, <1>4, <2>7, <2>8, BillingInPartsNext
<1>7. UNCHANGED provider \/ \E b \in Browsers : Consume(b)
  BY DEF EnrolmentNext, Arrive, Take, Enrol, SetupDies
<1> QED
  BY <1>5, <1>6, <1>7

-----------------------------------------------------------------------------
(* The theorems *)

LEMMA EnrolmentInitially == EnrolmentInit => EnrolmentIInv
<1> SUFFICES ASSUME EnrolmentInit PROVE EnrolmentIInv
  OBVIOUS
<1>1. ForgeOK
  <2>1. forge = [i \in Installations |-> [state |-> "absent", sent |-> 0]]
    BY DEF EnrolmentInit
  <2>2. [state |-> "absent", sent |-> 0] \in ForgeRecords
    BY EnrolmentAssumption DEF ForgeRecords
  <2> QED
    BY <2>1, <2>2 DEF ForgeOK
<1>2. HooksOK /\ ApplyingOK /\ BroughtOK
  BY DEF EnrolmentInit, HooksOK, HooksOwn, ApplyingOK, OneApplier, DeliveriesFiled, BroughtOK
<1>3. FiledOK
  <2>1. /\ installation = [t \in Tenants |-> [i \in Installations |-> "none"]]
        /\ repository = [t \in Tenants |-> [r \in Repositories |-> "none"]]
    BY DEF EnrolmentInit
  <2>2. installation \in [Tenants -> InstallationRows] /\ repository \in [Tenants -> RepositoryRows]
    BY <2>1 DEF InstallationRows, RepositoryRows
  <2>3. FiledUnderThePayer
    BY <2>1, GrantsAreRepositories DEF FiledUnderThePayer
  <2> QED
    BY <2>2, <2>3 DEF FiledOK
<1>4. PendingOK
  <2>1. pending = [i \in Installations |-> {}]
    BY DEF EnrolmentInit
  <2>2. Cardinality({}) = 0
    BY FS_EmptySet
  <2>3. \A i \in Installations : pending[i] = {} /\ Cardinality(pending[i]) = 0
    BY <2>1, <2>2
  <2>4. \A i \in Installations : pending[i] \subseteq SUBSET GrantOf(i) /\ Cardinality(pending[i]) <= 1
    BY <2>3
  <2> QED
    BY <2>1, <2>4 DEF PendingOK
<1>5. SetupOK
  <2>1. setup = [b \in Browsers |-> Shut]
    BY DEF EnrolmentInit
  <2> QED
    BY <2>1, ShutIsShut DEF SetupOK, SetupsFiled
<1> QED
  BY <1>1, <1>2, <1>3, <1>4, <1>5, EnrolmentInParts

LEMMA TenancyPreserved ==
  ASSUME TenancyIInv, [TenancyNext]_tenancyVars
  PROVE  TenancyIInv'
<1>1. CASE BillingNext /\ UNCHANGED enrolmentVars
  <2>1. BillingIInv'
    BY <1>1, BillingPreserved DEF TenancyIInv
  <2>2. UNCHANGED <<forge, hooks, seen, applying, applied, installation, repository, pending, setup, brought>>
    BY <1>1 DEF enrolmentVars
  <2>3. EnrolmentIInv'
    BY <2>2, EnrolmentInParts, EnrolmentInPartsNext, PartsUntouched DEF TenancyIInv
  <2> QED
    BY <2>1, <2>3 DEF TenancyIInv
<1>2. CASE EnrolmentNext
  BY <1>2, EnrolmentPreserved, EnrolmentKeepsBilling DEF TenancyIInv
<1>3. CASE UNCHANGED tenancyVars
  <2>1. UNCHANGED <<forge, hooks, seen, applying, applied, installation, repository, pending, setup, brought>>
    BY <1>3 DEF tenancyVars, enrolmentVars
  <2>2. UNCHANGED <<stripe, unanswered, claims, handling, provisioned, forsaken, provider, subscription, mishaps>>
    BY <1>3 DEF tenancyVars, billingVars
  <2>3. EnrolmentIInv'
    BY <2>1, EnrolmentInParts, EnrolmentInPartsNext, PartsUntouched DEF TenancyIInv
  <2>4. EventsOK' /\ HandlingsOK'
    BY <2>2, BillingInParts DEF TenancyIInv, EventsOK, HandlingsOK, OneHandler
  <2>5. BillingIInv'
    BY <2>2, <2>4, WebhookKeeps DEF TenancyIInv
  <2> QED
    BY <2>3, <2>5 DEF TenancyIInv
<1> QED
  BY <1>1, <1>2, <1>3 DEF TenancyNext

LEMMA TenancyInvariant == TenancySpec => []TenancyIInv
<1>1. TenancyInit => TenancyIInv
  BY BillingInitially, EnrolmentInitially DEF TenancyInit, TenancyIInv
<1>2. TenancyIInv /\ [TenancyNext]_tenancyVars => TenancyIInv'
  BY TenancyPreserved
<1> QED
  BY <1>1, <1>2, PTL DEF TenancySpec

\* Every variable of Billing and of Enrolment keeps to its type; in particular
\* what is handled is claimed, and what has been applied was seen.
THEOREM TenancyTypeCorrect == TenancySpec => [](BillingTypeOK /\ EnrolmentTypeOK)
<1>1. TenancyIInv => BillingTypeOK /\ EnrolmentTypeOK
  BY DEF TenancyIInv, BillingIInv, EnrolmentIInv
<1> QED
  BY <1>1, TenancyInvariant, PTL

\* A subscription pays for one tenant, whichever of its events are handled at
\* once, retried or redelivered (provision_subscription, migrations/012_billing.sql,
\* 013_provision_subscription.sql).
THEOREM OneTenantEach == TenancySpec => []OneTenantPerSubscription
<1>1. TenancyIInv => OneTenantPerSubscription
  BY DEF TenancyIInv, BillingIInv
<1> QED
  BY <1>1, TenancyInvariant, PTL

\* An installation and its repositories are filed under a tenant of a customer
\* who brought it to /setup, while subscriptions are bought, change and end,
\* and deliveries and browsers race (src/http/setup.ts, webhook-apply.ts).
THEOREM FiledUnderCustomer == TenancySpec => []FiledUnderThePayer
<1>1. TenancyIInv => FiledUnderThePayer
  BY DEF TenancyIInv, EnrolmentIInv
<1> QED
  BY <1>1, TenancyInvariant, PTL

\* A delivery takes effect once, so a redelivery re-enables nothing
\* (claim_webhook_delivery, migrations/006_webhooks.sql).
THEOREM RedeliveryIsIdle == TenancySpec => RedeliveryNeverReinstates
<1> DEFINE Reinstated ==
      \A t \in Tenants : \A i \in Installations :
        (installation[t][i] = "suspended" /\ installation'[t][i] = "live") => applied' # applied \/ setup' # setup
<1>1. ASSUME TenancyIInv, [TenancyNext]_tenancyVars
      PROVE  Reinstated
  <2>1. ApplyingOK /\ SetupOK
    BY <1>1, EnrolmentInParts DEF TenancyIInv
  <2>2. CASE UNCHANGED installation
    BY <2>2
  <2>3. ASSUME NEW d \in applying, Answered(d)
        PROVE  applied' # applied
    BY <2>1, <2>3 DEF Answered, ApplyingOK, OneApplier
  <2>4. ASSUME NEW b \in Browsers, Enrol(b)
        PROVE  setup' # setup
    <3>1. setup[b] \in SetupRecords /\ setup[b].at = "taken" /\ setup' = [setup EXCEPT ![b].at = "enrolled"]
      BY <2>1, <2>4, SetupFields DEF Enrol, Goes
    <3>2. setup'[b].at = "enrolled"
      BY <2>1, <3>1 DEF SetupOK, SetupRecords
    <3> QED
      BY <3>1, <3>2
  <2>5. \/ UNCHANGED installation
        \/ \E d \in applying : Answered(d)
        \/ \E b \in Browsers : Enrol(b)
    BY <1>1 DEF TenancyNext, tenancyVars, enrolmentVars, EnrolmentNext, ForgeActs, Sends, AtForge, Redeliver,
         Receive, LookUp, CountRoom, Grant, Adjust, Park, HookDies, Arrive, Take, Consume, SetupDies
  <2> QED
    BY <2>2, <2>3, <2>4, <2>5
<1>2. TenancyIInv /\ [TenancyNext]_tenancyVars => [Reinstated]_tenancyVars
  BY <1>1
<1> QED
  BY <1>2, TenancyInvariant, PTL DEF TenancySpec, RedeliveryNeverReinstates, tenancyVars
=============================================================================
