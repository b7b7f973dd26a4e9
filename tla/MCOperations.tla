----------------------------- MODULE MCOperations -----------------------------
(***************************************************************************)
(* Small instances of the components that owe something eventually, and of *)
(* one generation of a migration, each with the others at rest: the job    *)
(* queue of two worker processes, the tenant pool of one, the provisioning *)
(* of purchases and the agent.  focus is the one that moves.               *)
(***************************************************************************)
EXTENDS Billing, ConnectionPool, MigrationAgent, TLC

CONSTANTS s1, Jobs, Keys, Workers, NoKey, NoWorker, MaxAttempts, MaxDisruptions, Focuses
VARIABLES row, att, proc, polling, disruptions, focus

MCCustomerOf == s1 :> "c1"
MCPlans == "starter" :> 1

-----------------------------------------------------------------------------
(* Two sources, one of them twice on the prompt's edge, and a hook: it is not *)
(* among the paths the radius leaves out, but the policy knows it.            *)

MCSelected == <<"index", "api", "hook">>
MCByName   == <<"api", "hook", "index">>
MCWatched  == "index" :> {} @@ "api" :> {"dep"} @@ "hook" :> {}

Line(tokens) == Append(tokens, Newline)
Long  == Line(<<"use">>) \o Line(<<"x">>) \o Line(<<"y">>) \o Line(<<"x">>) \o Line(<<"z">>)
Open  == Line(<<"x">>) \o <<"use">>
Twice == Line(<<"use">>) \o Line(<<"use", "x">>)
Odd   == Line(<<"y", Undecodable>>) \o Line(<<"use">>)
Idle  == Line(<<"x">>)
Blob  == <<"use", Binary>>
Rule  == Line(<<Dashes, "use">>) \o Line(<<"x">>)

MCTrees ==
  [{"index"} -> {Long, Open, Twice, Odd, Idle, Blob}]
  \cup [{"index", "api"} -> {Open, Twice}]
  \cup {"index" :> Rule, "index" :> Open @@ "hook" :> Open, "index" :> Open @@ "hook" :> Idle,
         "index" :> Long @@ "api" :> Open @@ "hook" :> Idle,
         "index" :> Odd @@ "api" :> Twice @@ "hook" :> Open}

Edits ==
  [path : {"index", "api", "hook"}, find : {<<"use">>, <<"x">>, <<"z", Newline>>},
   replace : {<<"use">>, <<>>, <<"use", Newline>>, <<"z", Newline>>,
              <<"y", Newline, "x">>, <<Newline, Plusses>>, <<"host">>, <<"dep">>}]
Seconds == [path : {"index"}, find : {<<"use">>, <<"x">>}, replace : {<<>>, <<"z", Newline>>, <<"host">>}]
Words == {"use", "x", "y", "z", "host", "dep", Newline, Plusses, Dashes, Undecodable, Replacement, Binary}
MCProposals ==
  {<<>>} \cup {<<e>> : e \in Edits} \cup {<<e, f>> : e \in {e \in Edits : e.replace # <<"host">>}, f \in Seconds}
  \cup {<<e, e, e>> : e \in Seconds}

-----------------------------------------------------------------------------
\* The queue of the process whose pool this is: the same run loop.
Queue == INSTANCE JobQueue WITH RolloutKeys <- {}

poolVars  == vars
queueVars == <<row, att, proc, polling, disruptions>>

\* No worker process was ever started.
QueueAtRest ==
  /\ row = [j \in Jobs |-> Queue!NoRow]
  /\ att = [j \in Jobs |-> [n \in Queue!AttemptNos |-> Queue!NoAttempt]]
  /\ proc = [w \in Workers |-> "not started"]
  /\ polling = [w \in Workers |-> FALSE]
  /\ disruptions = 0

MCInit ==
  /\ focus \in Focuses
  /\ BillingInit /\ Init /\ AgentInit
  /\ focus # "agent" => tree = CHOOSE t \in Trees : TRUE
  /\ IF focus = "queue" THEN Queue!Init ELSE QueueAtRest

MCNext ==
  /\ UNCHANGED focus
  /\ \/ focus = "billing" /\ BillingNext /\ UNCHANGED <<poolVars, queueVars, agentVars>>
     \/ focus = "pool"    /\ Next        /\ UNCHANGED <<billingVars, queueVars, agentVars>>
     \/ focus = "queue"   /\ Queue!Next  /\ UNCHANGED <<billingVars, poolVars, agentVars>>
     \/ focus = "agent"   /\ AgentNext   /\ UNCHANGED <<billingVars, poolVars, queueVars>>

\* A component at rest owes nothing.
MCSpec ==
  /\ MCInit /\ [][MCNext]_<<billingVars, poolVars, queueVars, agentVars, focus>>
  /\ BillingFairness /\ Fairness /\ Queue!Fairness

\* Types, of what moves here.
OperationsTypeOK == BillingTypeOK /\ TypeOK /\ AgentTypeOK

\* No job is lost to a dead worker (src/workflow/queue.ts).
EveryJobSettles == Queue!EveryJobSettles
=============================================================================
