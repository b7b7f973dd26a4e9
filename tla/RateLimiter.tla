----------------------------- MODULE RateLimiter -----------------------------
(***************************************************************************)
(* src/http/rate-limit.ts, before /checkout: a fixed window for everyone   *)
(* and one per client address, in one process.  A window opens with the    *)
(* first request after the last one has ended, not on a clock.             *)
(***************************************************************************)
EXTENDS Integers, Sequences, FiniteSets

CONSTANTS
  Addresses,
  PerClient, Global,  \* allowed per window
  WindowLength,
  MaxTracked,         \* addresses held
  MaxTime             \* bound: ticks of the clock

ASSUME RateLimiterAssumption ==
  /\ {PerClient, Global, WindowLength, MaxTracked, MaxTime} \subseteq Nat \ {0}
  /\ PerClient <= Global

VARIABLES
  time,
  globalWindow,   \* [count, resetAt]
  tracked,        \* the addresses of the map, in the order of their insertion
  windows,        \* windows[a], while a is tracked
  passed          \* passed[t]: requests that were allowed at t

limiterVars == <<time, globalWindow, tracked, windows, passed>>

Fresh == [count |-> 0, resetAt |-> time + WindowLength]
Current(window) == IF time >= window.resetAt THEN Fresh ELSE window
Counted(window) == [window EXCEPT !.count = @ + 1]
IsTracked(a) == \E k \in DOMAIN tracked : tracked[k] = a
ClientWindow(a) == IF IsTracked(a) THEN Current(windows[a]) ELSE Fresh
Inserted(a) == IF IsTracked(a) THEN tracked ELSE Append(tracked, a)

\* #evict, when one more than MaxTracked is held: the first that has expired,
\* or else the first of all.
Evicted(order, held) ==
  LET expired == {k \in DOMAIN order : time >= held[order[k]].resetAt}
      victim == IF expired = {} THEN 1 ELSE CHOOSE k \in expired : \A l \in expired : k <= l
  IN  IF Len(order) <= MaxTracked THEN order
      ELSE SubSeq(order, 1, victim - 1) \o SubSeq(order, victim + 1, Len(order))

\* A refused request may open the window of everyone, but counts in none.
Refuse(a) ==
  LET window == Current(globalWindow)
  IN  /\ globalWindow' = window
      /\ window.count >= Global \/ ClientWindow(a).count >= PerClient
      /\ UNCHANGED <<time, tracked, windows, passed>>

\* Mutant of Allow: what an address spends is counted in its own window only.
Allow_Uncounted(a) ==
  /\ Current(globalWindow).count < Global /\ ClientWindow(a).count < PerClient
  /\ globalWindow' = Current(globalWindow)
  /\ windows' = [windows EXCEPT ![a] = Counted(ClientWindow(a))]
  /\ tracked' = Evicted(Inserted(a), windows')
  /\ passed' = [passed EXCEPT ![time] = @ + 1]
  /\ UNCHANGED time

Allow(a) ==
  /\ Current(globalWindow).count < Global /\ ClientWindow(a).count < PerClient
  /\ globalWindow' = Counted(Current(globalWindow))
  /\ windows' = [windows EXCEPT ![a] = Counted(ClientWindow(a))]
  /\ tracked' = Evicted(Inserted(a), windows')
  /\ passed' = [passed EXCEPT ![time] = @ + 1]
  /\ UNCHANGED time

ClockTicks ==
  /\ time < MaxTime /\ time' = time + 1
  /\ UNCHANGED <<globalWindow, tracked, windows, passed>>

LimiterInit ==
  /\ time = 0
  /\ globalWindow = Fresh
  /\ tracked = <<>>
  /\ windows = [a \in Addresses |-> Fresh]
  /\ passed = [t \in 0..MaxTime |-> 0]

LimiterNext == ClockTicks \/ \E a \in Addresses : Allow(a) \/ Refuse(a)

-----------------------------------------------------------------------------
LimiterTypeOK ==
  /\ time \in 0..MaxTime
  /\ globalWindow \in [count : 0..Global, resetAt : 0..MaxTime + WindowLength]
  /\ windows \in [Addresses -> [count : 0..PerClient, resetAt : 0..MaxTime + WindowLength]]
  /\ tracked \in Seq(Addresses)
  /\ passed \in [0..MaxTime -> Nat]

\* The requests let through in a window's length from t on: when, and the how
\* manieth of its tick.
Passed(t) ==
  Cardinality({p \in (t .. t + WindowLength - 1) \X (1 .. 2 * Global + 1) :
                 p[1] <= MaxTime /\ p[2] <= passed[p[1]]})

\* Whatever the addresses and however their windows are evicted, no stretch of
\* one window's length lets more than two windows' worth of requests through,
\* and no more addresses are held than there is room for
\* (src/http/rate-limit.ts:17, :135).
SpendingIsBounded ==
  /\ \A t \in 0..time : Passed(t) <= 2 * Global
  /\ Len(tracked) <= MaxTracked
=============================================================================
