----------------------------- MODULE MCPlatform -----------------------------
(***************************************************************************)
(* Small instances of components that share no state and owe nothing       *)
(* eventually, each with the others at rest: change detection, what a      *)
(* change means to a consumer, the enrolment of installations with two     *)
(* subscriptions in place, the brakes on the writes of one installation,   *)
(* the limiter of requests and the audit chain of minted tokens.  focus is *)
(* the one that moves.                                                     *)
(***************************************************************************)
EXTENDS ChangeDetection, Consumers, Enrolment, Outbound, RateLimiter, AuditChain, TLC

CONSTANTS s1, s2, i1, r1, r2, j1, j2, j3, Focuses
VARIABLE focus

-----------------------------------------------------------------------------
(* A 0.x line whose next minor drops an export, a later major that changes  *)
(* a signature, a patch that ships no declarations, and a prerelease.       *)

Old   == V(0, 2, 3)
New   == V(0, 3, 0)
Patch == V(0, 2, 9)
Later == V(2, 0, 0)
Rc    == [release |-> <<0, 3, 0>>, pre |-> <<<<1, 2>>, <<0, 1>>>>]

MCReleases == {Old, New, Patch, Later}
MCMarket   == MCReleases \cup {Rc}
MCTypesVersions == {V(0, 9, 0)}

Both(x, y) == [s \in {"open", "close"} |-> Symbol("function", IF s = "open" THEN x ELSE y)]
OpenOnly   == [s \in {"open"} |-> Symbol("function", 1)]

MCOwnSurface ==
  Old :> {Both(1, 1)} @@ New :> {OpenOnly} @@ Later :> {Both(1, 2)} @@ Patch :> {}
MCTypesSurface == [t \in MCTypesVersions |-> {Both(1, 1)}]

One(t) == {Words({t})}
MCRanges ==
  { One(Token("^", <<0, 2>>)), One(Token("^", <<0, 0, 3>>)), One(Token("~", <<0, 2>>)), One(Token("", <<0, X>>)),
    {Words({Token(">=", <<0, 2, 3>>), Token("<", <<2>>)})},
    {Hyphen(Token("", <<0, 2>>), Token("", <<0, 2>>)), Words({Token("=", <<2, 0, 0>>)})},
    One(Token(">", <<0, 2, 3>>)), {Anything}, NotARange }

\* Partial versions.
MCPartials == { One(Token("^", <<0>>)), One(Token("<=", <<0, 2>>)), One(Token("~", <<0, 2, 3>>)) }

-----------------------------------------------------------------------------
(* Two customers, whose plan has room for one repository fewer than an      *)
(* installation may grant.                                                  *)

MCCustomerOf == s1 :> "c1" @@ s2 :> "c2"
MCPlans == "starter" :> 1
ASSUME StarterIsSold == "starter" \in DOMAIN Plans
MCInstallationOf == r1 :> i1 @@ r2 :> i1

\* Purchases whose two events were provisioned, the session's first.
Bought(s) == [Unsold EXCEPT !.status = "active", !.plan = "starter", !.version = 1]
EventsOf(s) == [sub : {s}, n : {1}, kind : {"checkout", "subscription"}, status : {"active"}, plan : {"starter"}]
Paid(t) == {s \in Subscriptions : t = SlugFor(TRUE, CustomerOf[s])}

BilledInit ==
  /\ stripe = [s \in Subscriptions |-> Bought(s)]
  /\ unanswered = {} /\ handling = {} /\ forsaken = {} /\ mishaps = 0
  /\ claims = UNION {EventsOf(s) : s \in Subscriptions} /\ provisioned = claims
  /\ provider = [t \in Tenants |-> [exists |-> Paid(t) # {}, ref |->
       IF Paid(t) = {} THEN NoRef ELSE CHOOSE s \in Paid(t) : TRUE]]
  /\ subscription = [t \in Tenants |-> IF Paid(t) = {} THEN NoSubscription
       ELSE [sub |-> CHOOSE s \in Paid(t) : TRUE, status |-> "active", plan |-> "starter", dated |-> TRUE]]

-----------------------------------------------------------------------------
MCTargetOf == j1 :> r1 @@ j2 :> r1 @@ j3 :> r2

-----------------------------------------------------------------------------
accountVars == <<billingVars, enrolmentVars>>
controlVars == <<outboundVars, limiterVars, chainVars>>

MCInit ==
  /\ focus \in Focuses
  /\ DetectionInit /\ ConsumersInit /\ BilledInit /\ EnrolmentInit
  /\ OutboundInit /\ LimiterInit /\ ChainInit

ControlNext ==
  \/ focus = "outbound" /\ OutboundNext /\ UNCHANGED <<limiterVars, chainVars>>
  \/ focus = "limiter"  /\ LimiterNext  /\ UNCHANGED <<outboundVars, chainVars>>
  \/ focus = "audit"    /\ ChainNext    /\ UNCHANGED <<outboundVars, limiterVars>>

MCNext ==
  /\ UNCHANGED focus
  /\ \/ focus = "sweep"     /\ DetectionNext /\ UNCHANGED <<consumerVars, accountVars, controlVars>>
     \/ focus = "consumer"  /\ ConsumersNext /\ UNCHANGED <<detectionVars, accountVars, controlVars>>
     \/ focus = "enrolment" /\ EnrolmentNext /\ UNCHANGED <<detectionVars, consumerVars, controlVars>>
     \/ ControlNext /\ UNCHANGED <<detectionVars, consumerVars, accountVars>>

MCSpec == MCInit /\ [][MCNext]_<<detectionVars, consumerVars, accountVars, controlVars, focus>>

\* Types, of the modules that move here.
PlatformTypeOK ==
  /\ DetectionTypeOK /\ ConsumersTypeOK /\ EnrolmentTypeOK
  /\ OutboundTypeOK /\ LimiterTypeOK /\ ChainTypeOK
=============================================================================
