------------------------ MODULE ConnectionPoolProofs ------------------------
(***************************************************************************)
(* What holds of ConnectionPool for every pool, concurrency and batch size.*)
(***************************************************************************)
EXTENDS ConnectionPool, FiniteSetTheorems, SequenceTheorems, TLAPS

-----------------------------------------------------------------------------
(* The inductive invariant *)

\* Whoever is in line waits, and is in line once.
LineOK ==
  /\ \A i \in 1 .. Len(queue) : phase[queue[i]] \in Waiting
  /\ \A i, j \in 1 .. Len(queue) : queue[i] = queue[j] => i = j

\* Nobody holds a connection before being served or after releasing it; only
\* a client with a nested transaction holds two, and nobody holds three.
HoldersOK ==
  /\ \A x \in Connections : holder[x] # Free => phase[holder[x]] \in Holding
  /\ \A x, y \in Connections :
       holder[x] # Free /\ holder[x] = holder[y] /\ phase[holder[x]] # "nested"
         => x = y
  /\ \A x, y, z \in Connections :
       holder[x] # Free /\ holder[x] = holder[y] /\ holder[y] = holder[z]
         => x = y \/ y = z \/ x = z

\* A background caller never nests.
TicksOK ==
  \A t \in Ticks : phase[t] \in {"idle", "launched", "connecting", "handler"}

InFlightBound == Cardinality(InFlight) <= Concurrency - 1 + BatchSize

IInv == TypeOK /\ LineOK /\ HoldersOK /\ TicksOK /\ InFlightBound

-----------------------------------------------------------------------------
(* How many jobs are in flight *)

LEMMA InFlightFinite ==
  /\ IsFiniteSet(InFlight)
  /\ Cardinality(InFlight) \in Nat
<1>1. InFlight \in SUBSET Runners
  BY DEF InFlight
<1> QED
  BY <1>1, SizeAssumption, FS_Subset, FS_CardinalityType

\* A step that puts no idle job in flight keeps the bound.
LEMMA NobodyArrives ==
  ASSUME InFlightBound, InFlight' \subseteq InFlight
  PROVE  InFlightBound'
<1>1. Cardinality(InFlight') <= Cardinality(InFlight)
  BY InFlightFinite, FS_Subset
<1>2. Cardinality(InFlight') \in Nat
  BY InFlightFinite, FS_Subset, FS_CardinalityType
<1> QED
  BY <1>1, <1>2, InFlightFinite, SizeAssumption DEF InFlightBound

\* A batch launched with room for one job overshoots by the batch at most.
LEMMA LaunchBound ==
  ASSUME TypeOK, NEW B \in SUBSET Runners, Launch(B)
  PROVE  InFlightBound'
<1>1. InFlight' = InFlight \cup B
  BY DEF Launch, InFlight, TypeOK, Clients
<1>2. IsFiniteSet(B) /\ Cardinality(B) \in Nat
  BY SizeAssumption, FS_Subset, FS_CardinalityType
<1>3. InFlight \cap B = {}
  BY DEF Launch
<1>4. Cardinality(InFlight \cup B) = Cardinality(InFlight) + Cardinality(B)
  BY <1>2, <1>3, InFlightFinite, FS_Union, FS_EmptySet
<1>5. Cardinality(InFlight) < Concurrency /\ Cardinality(B) <= BatchSize
  BY DEF Launch
<1> QED
  BY <1>1, <1>2, <1>4, <1>5, InFlightFinite, SizeAssumption DEF InFlightBound

-----------------------------------------------------------------------------
(* connect() and release() *)

\* What a client in state from asks for, and what it will be.
Asks(c, got, pending) ==
  \/ phase[c] = "launched" /\ got = "handler" /\ pending = "connecting"
  \/ c \in Runners /\ phase[c] = "handler" /\ got = "nested"
     /\ pending = "awaiting"

LEMMA ConnectKeeps ==
  ASSUME IInv, NEW c \in Clients, NEW got, NEW pending,
         Asks(c, got, pending), Connect(c, got, pending)
  PROVE  IInv'
<1> USE DEF IInv
<1>1. got \in Phases /\ pending \in Phases
  BY DEF Asks, Phases, Waiting, Holding
<1>2. InFlight' \subseteq InFlight
  <2>1. phase' = [phase EXCEPT ![c] = got] \/ phase' = [phase EXCEPT ![c] = pending]
    BY DEF Connect
  <2> QED
    BY <2>1 DEF InFlight, Asks, TypeOK, Clients
<1>3. InFlightBound'
  BY <1>2, NobodyArrives
<1>4. CASE \E x \in Connections :
             /\ holder[x] = Free
             /\ holder' = [holder EXCEPT ![x] = c]
             /\ phase' = [phase EXCEPT ![c] = got]
             /\ UNCHANGED queue
  <2> PICK x \in Connections :
             /\ holder[x] = Free
             /\ holder' = [holder EXCEPT ![x] = c]
             /\ phase' = [phase EXCEPT ![c] = got]
             /\ UNCHANGED queue
    BY <1>4
  <2>1. TypeOK'
    BY <1>1 DEF TypeOK
  <2>2. LineOK'
    <3>1. \A i \in 1 .. Len(queue) : queue[i] \in Clients /\ queue[i] # c
      BY DEF LineOK, TypeOK, Asks, Waiting
    <3> QED
      BY <3>1 DEF LineOK, TypeOK
  <2>3. HoldersOK'
    <3>1. \A y \in Connections : holder'[y] = IF y = x THEN c ELSE holder[y]
      BY DEF TypeOK
    <3>2. \A d \in Clients : phase'[d] = IF d = c THEN got ELSE phase[d]
      BY DEF TypeOK
    <3>3. c # Free /\ \A y \in Connections : holder[y] \in Clients \cup {Free}
      BY ClientAssumption DEF TypeOK
    <3>4. CASE phase[c] = "launched" /\ got = "handler"
      <4>1. \A y \in Connections : holder[y] # c
        BY <3>3, <3>4 DEF HoldersOK, Holding
      <4> QED
        BY <3>1, <3>2, <3>3, <3>4, <4>1 DEF HoldersOK, Holding
    <3>5. CASE phase[c] = "handler" /\ got = "nested"
      <4>1. \A y, z \in Connections : holder[y] = c /\ holder[z] = c => y = z
        BY <3>3, <3>5 DEF HoldersOK
      <4> QED
        BY <3>1, <3>2, <3>3, <3>5, <4>1 DEF HoldersOK, Holding
    <3> QED
      BY <3>4, <3>5 DEF Asks
  <2>4. TicksOK'
    BY ClientAssumption DEF TicksOK, TypeOK, Clients, Asks
  <2> QED
    BY <1>3, <2>1, <2>2, <2>3, <2>4
<1>5. CASE /\ \A x \in Connections : holder[x] # Free
           /\ queue' = Append(queue, c)
           /\ phase' = [phase EXCEPT ![c] = pending]
           /\ UNCHANGED holder
  <2>1. TypeOK'
    BY <1>1, <1>5 DEF TypeOK
  <2>2. LineOK'
    <3>1. \A i \in 1 .. Len(queue) : queue[i] \in Clients /\ queue[i] # c
      BY DEF LineOK, TypeOK, Asks, Waiting
    <3>2. /\ Len(queue') = Len(queue) + 1
          /\ \A i \in 1 .. Len(queue) : queue'[i] = queue[i]
          /\ queue'[Len(queue) + 1] = c
      BY <1>5, AppendProperties DEF TypeOK
    <3>3. Len(queue) \in Nat
      BY LenProperties DEF TypeOK
    <3>4. \A d \in Clients : phase'[d] = IF d = c THEN pending ELSE phase[d]
      BY <1>5 DEF TypeOK
    <3>5. pending \in Waiting
      BY DEF Asks, Waiting
    <3>6. \A i \in 1 .. Len(queue') :
             i \in 1 .. Len(queue) \/ i = Len(queue) + 1
      BY <3>2, <3>3
    <3> QED
      BY <3>1, <3>2, <3>3, <3>4, <3>5, <3>6 DEF LineOK
  <2>3. HoldersOK'
    <3>1. \A d \in Clients : phase'[d] = IF d = c THEN pending ELSE phase[d]
      BY <1>5 DEF TypeOK
    <3>2. \A y \in Connections : holder[y] \in Clients \cup {Free}
      BY DEF TypeOK
    <3>3. CASE phase[c] = "launched" /\ pending = "connecting"
      <4>1. \A y \in Connections : holder[y] # c
        BY <3>3, ClientAssumption DEF HoldersOK, Holding
      <4> QED
        BY <1>5, <3>1, <3>2, <4>1 DEF HoldersOK
    <3>4. CASE phase[c] = "handler" /\ pending = "awaiting"
      BY <1>5, <3>1, <3>2, <3>4 DEF HoldersOK, Holding
    <3> QED
      BY <3>3, <3>4 DEF Asks
  <2>4. TicksOK'
    BY <1>5, ClientAssumption DEF TicksOK, TypeOK, Clients, Asks
  <2> QED
    BY <1>3, <2>1, <2>2, <2>3, <2>4
<1> QED
  BY <1>4, <1>5 DEF Connect

\* What a client gives a connection back from, and what it will be.
Gives(c, next) ==
  \/ c \in Runners /\ phase[c] = "nested" /\ next = "handler"
  \/ c \in Runners /\ phase[c] = "handler" /\ next = "reporting"
  \/ c \in Ticks /\ phase[c] = "handler" /\ next = "idle"

LEMMA HandOverKeeps ==
  ASSUME IInv, NEW c \in Clients, NEW next, Gives(c, next), Release(c, next)
  PROVE  IInv'
<1> USE DEF IInv
<1>1. next \in Phases /\ next \notin Waiting
  BY DEF Gives, Phases, Waiting, Holding
<1> PICK x \in Connections :
      /\ holder[x] = c
      /\ IF queue = <<>>
         THEN /\ holder' = [holder EXCEPT ![x] = Free]
              /\ phase' = [phase EXCEPT ![c] = next]
              /\ UNCHANGED queue
         ELSE /\ holder' = [holder EXCEPT ![x] = Head(queue)]
              /\ phase' = [phase EXCEPT ![c] = next,
                                       ![Head(queue)] = Served(@)]
              /\ queue' = Tail(queue)
  BY DEF Release
\* The only connection of c, unless it is nested; then one other is left.
<1>2. /\ c # Free
      /\ \A y \in Connections : holder[y] \in Clients \cup {Free}
      /\ phase[c] = "handler" => \A y \in Connections : holder[y] = c => y = x
      /\ \A y, z \in Connections :
           holder[y] = c /\ holder[z] = c /\ y # x /\ z # x => y = z
  BY ClientAssumption DEF TypeOK, HoldersOK
<1>3. CASE queue = <<>>
  <2>1. \A d \in Clients : phase'[d] = IF d = c THEN next ELSE phase[d]
    BY <1>3 DEF TypeOK
  <2>2. \A y \in Connections :
          holder'[y] = IF y = x THEN Free ELSE holder[y]
    BY <1>3 DEF TypeOK
  <2>3. TypeOK'
    BY <1>1, <1>3 DEF TypeOK
  <2>4. LineOK'
    <3>1. queue' = <<>> /\ Len(queue') = 0
      BY <1>3
    <3> QED
      BY <3>1 DEF LineOK
  <2>5. HoldersOK'
    <3>1. CASE phase[c] = "nested" /\ next = "handler"
      BY <1>2, <2>1, <2>2, <3>1 DEF HoldersOK, Holding
    <3>2. CASE phase[c] = "handler"
      <4>1. \A y \in Connections : holder'[y] # c
        BY <1>2, <2>2, <3>2
      <4> QED
        BY <1>2, <2>1, <2>2, <4>1 DEF HoldersOK
    <3> QED
      BY <3>1, <3>2 DEF Gives
  <2>6. TicksOK'
    BY <2>1, ClientAssumption DEF TicksOK, Clients, Gives
  <2>7. InFlight' \subseteq InFlight
    BY <2>1 DEF InFlight, Clients, Gives
  <2> QED
    BY <2>3, <2>4, <2>5, <2>6, <2>7, NobodyArrives
<1>4. CASE queue # <<>>
  <2> DEFINE h == Head(queue)
  <2>1. /\ Len(queue) \in Nat /\ Len(queue) >= 1
        /\ h = queue[1] /\ h \in Clients /\ phase[h] \in Waiting /\ h # c
    BY <1>4, LenProperties, HeadTailProperties, EmptySeq
       DEF TypeOK, LineOK, Gives, Waiting
  <2>2. /\ queue' \in Seq(Clients)
        /\ Len(queue') = Len(queue) - 1
        /\ \A i \in 1 .. Len(queue') : queue'[i] = queue[i + 1]
    <3>1. queue' = Tail(queue) /\ queue \in Seq(Clients)
      BY <1>4 DEF TypeOK
    <3>2. /\ Tail(queue) \in Seq(Clients)
          /\ Len(Tail(queue)) = Len(queue) - 1
          /\ \A i \in 1 .. Len(Tail(queue)) : Tail(queue)[i] = queue[i + 1]
      BY <1>4, <3>1, HeadTailProperties
    <3> QED
      BY <3>1, <3>2
  <2> HIDE DEF h
  <2>3. \A d \in Clients :
          phase'[d] = IF d = c THEN next
                      ELSE IF d = h THEN Served(phase[h]) ELSE phase[d]
    BY <1>4, <2>1 DEF TypeOK, h
  <2>4. \A y \in Connections :
          holder'[y] = IF y = x THEN h ELSE holder[y]
    BY <1>4 DEF TypeOK, h
  <2>5. TypeOK'
    <3>1. Served(phase[h]) \in Phases
      BY DEF Served, Phases, Holding
    <3> QED
      BY <1>1, <1>4, <2>1, <2>2, <3>1 DEF TypeOK, h
  <2>6. LineOK'
    <3>1. \A i \in 1 .. Len(queue') :
            /\ i + 1 \in 1 .. Len(queue)
            /\ queue[i + 1] \in Clients
            /\ phase[queue[i + 1]] \in Waiting
            /\ queue[i + 1] # c
      BY <2>1, <2>2 DEF LineOK, TypeOK, Gives, Waiting
    <3>2. \A i \in 1 .. Len(queue') : queue[i + 1] # h
      BY <2>1, <2>2, <3>1 DEF LineOK
    <3>3. \A i \in 1 .. Len(queue') : phase'[queue'[i]] \in Waiting
      BY <2>2, <2>3, <3>1, <3>2
    <3>4. \A i, j \in 1 .. Len(queue') : queue'[i] = queue'[j] => i = j
      <4> SUFFICES ASSUME NEW i \in 1 .. Len(queue'), NEW j \in 1 .. Len(queue'),
                          queue'[i] = queue'[j]
                   PROVE  i = j
        OBVIOUS
      <4>1. i + 1 = j + 1
        BY <2>2, <3>1 DEF LineOK
      <4> QED
        BY <4>1, <2>1, <2>2
    <3> QED
      BY <3>3, <3>4 DEF LineOK
  <2>7. HoldersOK'
    <3>1. \/ phase[h] = "connecting" /\ phase'[h] = "handler"
             /\ \A y \in Connections : holder[y] # h
          \/ phase[h] = "awaiting" /\ phase'[h] = "nested"
             /\ \A y, z \in Connections :
                  holder[y] = h /\ holder[z] = h => y = z
      BY <2>1, <2>3, ClientAssumption DEF Served, Waiting, HoldersOK, Holding
    <3>2. \/ phase[c] = "nested" /\ phase'[c] = "handler"
          \/ phase[c] = "handler" /\ \A y \in Connections : holder'[y] # c
      BY <1>2, <2>1, <2>3, <2>4 DEF Gives
    <3>3. h # Free
      BY <2>1, ClientAssumption
    <3>4. \A y \in Connections : holder'[y] # Free => phase'[holder'[y]] \in Holding
      BY <1>2, <2>1, <2>3, <2>4, <3>1, <3>2 DEF HoldersOK, Holding
    <3>5. \A y, z \in Connections :
            holder'[y] # Free /\ holder'[y] = holder'[z]
            /\ phase'[holder'[y]] # "nested" => y = z
      BY <1>2, <2>1, <2>3, <2>4, <3>1, <3>2 DEF HoldersOK
    <3>6. \A u, v, w \in Connections :
            holder'[u] # Free /\ holder'[u] = holder'[v] /\ holder'[v] = holder'[w]
              => u = v \/ v = w \/ u = w
      BY <1>2, <2>1, <2>4, <3>1 DEF HoldersOK
    <3> QED
      BY <3>4, <3>5, <3>6 DEF HoldersOK
  <2>8. TicksOK'
    <3>1. h \in Ticks => Served(phase[h]) = "handler"
      BY <2>1 DEF TicksOK, Served, Waiting
    <3> QED
      BY <2>3, <3>1, ClientAssumption DEF TicksOK, Clients, Gives
  <2>9. InFlight' \subseteq InFlight
    BY <2>1, <2>3 DEF InFlight, Clients, Gives, Waiting
  <2> QED
    BY <2>5, <2>6, <2>7, <2>8, <2>9, NobodyArrives
<1> QED
  BY <1>3, <1>4

-----------------------------------------------------------------------------
(* The invariant *)

LEMMA InitIInv == Init => IInv
<1> SUFFICES ASSUME Init PROVE IInv
  OBVIOUS
<1> USE DEF Init
<1>1. TypeOK
  BY EmptySeq DEF TypeOK, Phases
<1>2. LineOK
  BY DEF LineOK
<1>3. HoldersOK /\ TicksOK
  BY DEF HoldersOK, TicksOK, Clients
<1>4. InFlight = {}
  BY DEF InFlight, Clients
<1>5. InFlightBound
  BY <1>4, FS_EmptySet, SizeAssumption DEF InFlightBound
<1> QED
  BY <1>1, <1>2, <1>3, <1>5 DEF IInv

LEMMA NextIInv == IInv /\ [Next]_vars => IInv'
<1> SUFFICES ASSUME IInv, [Next]_vars PROVE IInv'
  OBVIOUS
<1>1. ASSUME NEW B \in SUBSET Runners, Launch(B) PROVE IInv'
  <2>1. \A d \in Clients : phase'[d] = IF d \in B THEN "launched" ELSE phase[d]
    BY <1>1 DEF Launch
  <2>2. \A d \in B : phase[d] = "idle" /\ d \in Clients /\ d \notin Ticks
    BY <1>1, ClientAssumption DEF Launch, InFlight, Clients
  <2>3. TypeOK'
    BY <1>1 DEF IInv, TypeOK, Launch, Phases
  <2>4. LineOK'
    <3>1. \A i \in 1 .. Len(queue) : queue[i] \in Clients \ B
      BY <2>2 DEF IInv, LineOK, TypeOK, Waiting
    <3> QED
      BY <1>1, <2>1, <3>1 DEF IInv, LineOK, Launch
  <2>5. HoldersOK'
    <3>1. \A x \in Connections : holder[x] \in (Clients \ B) \cup {Free}
      BY <2>2, ClientAssumption DEF IInv, HoldersOK, TypeOK, Holding
    <3> QED
      BY <1>1, <2>1, <3>1 DEF IInv, HoldersOK, Launch
  <2>6. TicksOK'
    BY <2>1, <2>2 DEF IInv, TicksOK, Clients
  <2>7. InFlightBound'
    BY <1>1, LaunchBound DEF IInv
  <2> QED
    BY <2>3, <2>4, <2>5, <2>6, <2>7 DEF IInv
<1>2. ASSUME NEW t \in Ticks, Tick(t) PROVE IInv'
  <2>1. \A d \in Clients : phase'[d] = IF d = t THEN "launched" ELSE phase[d]
    BY <1>2 DEF Tick, IInv, TypeOK
  <2>2. TypeOK'
    BY <1>2 DEF IInv, TypeOK, Tick, Phases
  <2>3. LineOK'
    BY <1>2, <2>1 DEF IInv, TypeOK, LineOK, Tick, Waiting
  <2>4. HoldersOK'
    BY <1>2, <2>1 DEF IInv, TypeOK, HoldersOK, Tick, Holding
  <2>5. TicksOK'
    BY <2>1 DEF IInv, TicksOK, Clients
  <2>6. InFlight' \subseteq InFlight
    BY <2>1, ClientAssumption DEF InFlight, Clients
  <2> QED
    BY <2>2, <2>3, <2>4, <2>5, <2>6, NobodyArrives DEF IInv
<1>3. ASSUME NEW c \in Clients, Begin(c) PROVE IInv'
  BY <1>3, ConnectKeeps DEF Begin, Asks
<1>4. ASSUME NEW s \in Runners, StepBegins(s) PROVE IInv'
  BY <1>4, ConnectKeeps DEF StepBegins, Asks, Clients
<1>5. ASSUME NEW s \in Runners, StepEnds(s) PROVE IInv'
  BY <1>5, HandOverKeeps DEF StepEnds, Gives, Clients
<1>6. ASSUME NEW c \in Clients, Ends(c) PROVE IInv'
  <2>1. CASE c \in Runners
    BY <1>6, <2>1, HandOverKeeps DEF Ends, Gives
  <2>2. CASE c \notin Runners
    BY <1>6, <2>2, HandOverKeeps DEF Ends, Gives, Clients
  <2> QED
    BY <2>1, <2>2
<1>7. ASSUME NEW s \in Runners, Reports(s) PROVE IInv'
  <2>1. \A d \in Clients : phase'[d] = IF d = s THEN "idle" ELSE phase[d]
    BY <1>7 DEF Reports, IInv, TypeOK
  <2>2. TypeOK'
    BY <1>7 DEF IInv, TypeOK, Reports, Phases
  <2>3. LineOK'
    BY <1>7, <2>1 DEF IInv, TypeOK, LineOK, Reports, Waiting
  <2>4. HoldersOK'
    BY <1>7, <2>1 DEF IInv, TypeOK, HoldersOK, Reports, Holding
  <2>5. TicksOK'
    BY <2>1 DEF IInv, TicksOK, Clients
  <2>6. InFlight' \subseteq InFlight
    BY <2>1 DEF InFlight, Clients
  <2> QED
    BY <2>2, <2>3, <2>4, <2>5, <2>6, NobodyArrives DEF IInv
<1>8. CASE UNCHANGED vars
  BY <1>8 DEF vars, IInv, TypeOK, LineOK, HoldersOK, TicksOK, InFlightBound,
              InFlight
<1> QED
  BY <1>1, <1>2, <1>3, <1>4, <1>5, <1>6, <1>7, <1>8 DEF Next

\* The line, the holders and the number of jobs in flight are as described
\* above in every reachable state (withTenant, startWorker).
THEOREM PoolInvariantHolds == Spec => []IInv
BY InitIInv, NextIInv, PTL DEF Spec

\* Every variable keeps its type.
THEOREM PoolTypeCorrect == Spec => []TypeOK
<1>1. IInv => TypeOK
  BY DEF IInv
<1> QED
  BY <1>1, PoolInvariantHolds, PTL

\* The run loop never holds more jobs than a batch on top of one short of
\* its concurrency (startWorker).
THEOREM InFlightIsBounded == Spec => []InFlightBound
<1>1. IInv => InFlightBound
  BY DEF IInv
<1> QED
  BY <1>1, PoolInvariantHolds, PTL

-----------------------------------------------------------------------------
(* No circular wait *)

\* If every connection were held by a client that waits for another one, the
\* holders would be pairwise distinct jobs in flight, as many as connections.
LEMMA LargeEnough == IInv /\ PoolIsLargeEnough => NoCircularWait
<1> SUFFICES ASSUME IInv, PoolIsLargeEnough, ~NoCircularWait
             PROVE  FALSE
  OBVIOUS
<1>1. \A x \in Connections : holder[x] # Free /\ phase[holder[x]] = "awaiting"
  BY DEF NoCircularWait
<1>2. \A x \in Connections : holder[x] \in InFlight
  BY <1>1 DEF IInv, TypeOK, TicksOK, InFlight, Clients
<1>3. \A x, y \in Connections : holder[x] = holder[y] => x = y
  BY <1>1 DEF IInv, HoldersOK
<1>4. holder \in [Connections -> InFlight]
  BY <1>2 DEF IInv, TypeOK
<1>5. Cardinality(InFlight) < Cardinality(Connections)
  <2>1. Cardinality(InFlight) <= Concurrency - 1 + BatchSize
    BY DEF IInv, InFlightBound
  <2>2. Cardinality(Connections) \in Nat
    BY SizeAssumption, FS_CardinalityType
  <2> QED
    BY <2>1, <2>2, InFlightFinite, SizeAssumption DEF PoolIsLargeEnough
<1>6. \E x, y \in Connections : x # y /\ holder[x] = holder[y]
  BY <1>4, <1>5, InFlightFinite, SizeAssumption, FS_PigeonHole
<1> QED
  BY <1>3, <1>6

\* Jobs never wait on each other for good, whatever the number of jobs and
\* background callers, as soon as the pool has one connection more than the
\* run loop may hold jobs (client.ts: max; worker.ts: concurrency).
THEOREM PoolNeverDeadlocks ==
  ASSUME PoolIsLargeEnough
  PROVE  Spec => []NoCircularWait
<1>1. IInv => NoCircularWait
  BY LargeEnough
<1> QED
  BY <1>1, PoolInvariantHolds, PTL
=============================================================================
