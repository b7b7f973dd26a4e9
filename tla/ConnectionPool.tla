--------------------------- MODULE ConnectionPool ---------------------------
(***************************************************************************)
(* The tenant connection pool of a worker process (src/db/client.ts) and   *)
(* who holds on to it: runJob keeps one connection for the whole handler   *)
(* of a job, every step that touches the database takes a second one, and  *)
(* the approval trigger takes one for each enqueue.  The pool itself is    *)
(* pg.Pool: at most `max' connections, and a first-come-first-served queue *)
(* with no timeout (connectionTimeoutMillis is not set).                   *)
(*                                                                         *)
(* Reports and dequeues use the platform pool, whose holders never wait    *)
(* for anything else, and are left out.                                    *)
(***************************************************************************)
EXTENDS Naturals, Sequences, FiniteSets

CONSTANTS
  Runners,      \* jobs the process can have in memory at once
  Ticks,        \* background callers of withTenant
  Connections,  \* the connections of the pool, PoolConfig.max of them
  Concurrency,  \* WorkerOptions.concurrency
  BatchSize,    \* QueueOptions.batchSize
  Free          \* no holder

Clients == Runners \cup Ticks

ASSUME ClientAssumption == Runners \cap Ticks = {} /\ Free \notin Clients
ASSUME SizeAssumption   ==
  /\ IsFiniteSet(Runners) /\ IsFiniteSet(Connections)
  /\ {Concurrency, BatchSize} \subseteq Nat \ {0}

VARIABLES
  phase,   \* phase[c]: how far client c is
  holder,  \* holder[x]: who has checked connection x out
  queue    \* the clients whose connect() is pending, oldest first

vars == <<phase, holder, queue>>

\* launched: runJob was called; handler: it has its transaction; nested: a
\* step of it has one too; connecting and awaiting: waiting for those.
Waiting == {"connecting", "awaiting"}
Holding == {"handler", "awaiting", "nested"}
Phases  == {"idle", "launched", "reporting"} \cup Waiting \cup Holding

InFlight == {s \in Runners : phase[s] # "idle"}

-----------------------------------------------------------------------------
(* pool.connect() and client.release() *)

\* c asks for a connection: it gets one at once or waits in line.
Connect(c, got, pending) ==
  \/ \E x \in Connections :
       /\ holder[x] = Free
       /\ holder' = [holder EXCEPT ![x] = c]
       /\ phase' = [phase EXCEPT ![c] = got]
       /\ UNCHANGED queue
  \/ /\ \A x \in Connections : holder[x] # Free
     /\ queue' = Append(queue, c)
     /\ phase' = [phase EXCEPT ![c] = pending]
     /\ UNCHANGED holder

Served(p) == IF p = "connecting" THEN "handler" ELSE "nested"

\* Mutant of Release: the newest in line is served first.
Release_Newest(c, next) ==
  \E x \in Connections :
    /\ holder[x] = c
    /\ IF queue = <<>>
       THEN /\ holder' = [holder EXCEPT ![x] = Free]
            /\ phase' = [phase EXCEPT ![c] = next]
            /\ UNCHANGED queue
       ELSE LET h == queue[Len(queue)]
            IN  /\ holder' = [holder EXCEPT ![x] = h]
                /\ phase' = [phase EXCEPT ![c] = next, ![h] = Served(@)]
                /\ queue' = SubSeq(queue, 1, Len(queue) - 1)

\* c gives a connection back, and the head of the line gets it.
Release(c, next) ==
  \E x \in Connections :
    /\ holder[x] = c
    /\ IF queue = <<>>
       THEN /\ holder' = [holder EXCEPT ![x] = Free]
            /\ phase' = [phase EXCEPT ![c] = next]
            /\ UNCHANGED queue
       ELSE LET h == Head(queue)
            IN  /\ holder' = [holder EXCEPT ![x] = h]
                /\ phase' = [phase EXCEPT ![c] = next, ![h] = Served(@)]
                /\ queue' = Tail(queue)

-----------------------------------------------------------------------------
(* The process *)

\* Mutant of Launch: the loop takes a batch whatever it holds.
Launch_Saturated(B) ==
  /\ B # {} /\ B \subseteq Runners \ InFlight /\ Cardinality(B) <= BatchSize
  /\ phase' = [c \in Clients |-> IF c \in B THEN "launched" ELSE phase[c]]
  /\ UNCHANGED <<holder, queue>>

\* The run loop: a batch is launched whenever there is room for one job.
Launch(B) ==
  /\ Cardinality(InFlight) < Concurrency
  /\ B # {} /\ B \subseteq Runners \ InFlight /\ Cardinality(B) <= BatchSize
  /\ phase' = [c \in Clients |-> IF c \in B THEN "launched" ELSE phase[c]]
  /\ UNCHANGED <<holder, queue>>

\* The interval of a background caller.
Tick(t) ==
  /\ phase[t] = "idle"
  /\ phase' = [phase EXCEPT ![t] = "launched"]
  /\ UNCHANGED <<holder, queue>>

\* withTenant around the handler, or around an enqueue.
Begin(c) == phase[c] = "launched" /\ Connect(c, "handler", "connecting")

\* A step calls withTenant while the handler's transaction is open.
StepBegins(s) == phase[s] = "handler" /\ Connect(s, "nested", "awaiting")

StepEnds(s) == phase[s] = "nested" /\ Release(s, "handler")

\* COMMIT or ROLLBACK, and `finally { client.release() }'.
Ends(c) ==
  /\ phase[c] = "handler"
  /\ Release(c, IF c \in Runners THEN "reporting" ELSE "idle")

\* The report, and `inFlight -= 1'.
Reports(s) ==
  /\ phase[s] = "reporting"
  /\ phase' = [phase EXCEPT ![s] = "idle"]
  /\ UNCHANGED <<holder, queue>>

-----------------------------------------------------------------------------

Init ==
  /\ phase = [c \in Clients |-> "idle"]
  /\ holder = [x \in Connections |-> Free]
  /\ queue = <<>>

Next ==
  \/ \E B \in SUBSET Runners : Launch(B)
  \/ \E t \in Ticks : Tick(t)
  \/ \E c \in Clients : Begin(c) \/ Ends(c)
  \/ \E s \in Runners : StepBegins(s) \/ StepEnds(s) \/ Reports(s)

Spec == Init /\ [][Next]_vars

\* Promises are scheduled, statements are bounded by the statement timeout,
\* and a handler has finitely many steps (ctx.step refuses a key twice).
Fairness ==
  /\ \A c \in Clients : WF_vars(Begin(c))
  /\ \A t \in Ticks : WF_vars(Ends(t))
  /\ \A s \in Runners : SF_vars(Ends(s)) /\ WF_vars(StepEnds(s)) /\ WF_vars(Reports(s))

-----------------------------------------------------------------------------
(* Properties *)

TypeOK ==
  /\ phase \in [Clients -> Phases]
  /\ holder \in [Connections -> Clients \cup {Free}]
  /\ queue \in Seq(Clients)

\* What the configuration has to satisfy, and nothing checks: the pool is
\* larger than the number of jobs the run loop may hold.
PoolIsLargeEnough == Concurrency - 1 + BatchSize < Cardinality(Connections)

\* Jobs never wait on each other for good: there is always a connection that
\* is free, or whose holder is not itself waiting for another one.  Violated,
\* no step of the process can ever give one back.
NoCircularWait ==
  \E x \in Connections : holder[x] = Free \/ phase[holder[x]] # "awaiting"

\* Whoever asks for a connection gets it, whatever batches and ticks arrive.
EveryRequestIsServed ==
  \A c \in Clients : phase[c] \in Waiting ~> phase[c] \notin Waiting
=============================================================================
