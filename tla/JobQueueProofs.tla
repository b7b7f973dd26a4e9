--------------------------- MODULE JobQueueProofs ---------------------------
(***************************************************************************)
(* What holds of JobQueue for every set of rows, keys and workers and      *)
(* every attempt ceiling, batch size and number of disruptions.            *)
(***************************************************************************)
EXTENDS JobQueue, TLAPS

-----------------------------------------------------------------------------
(* The inductive invariant *)

\* Why a reclaim never exceeds the budget: a row waiting for a retry has
\* attempts left, and a running row that may be reclaimed has had its
\* disruption.
RetryPaidFor ==
  \A j \in Jobs :
    /\ row[j].status \in {"absent", "pending"} => row[j].attempts = 0
    /\ row[j].status = "failed" => row[j].attempts < MaxAttempts
    /\ row[j].status = "running" =>
         /\ row[j].attempts >= 1
         /\ \/ row[j].lease = "live" /\ Active(j, Current(j))
            \/ row[j].attempts < MaxAttempts + disruptions

IInv ==
  /\ TypeOK
  /\ BoundedRetry
  /\ LeaseNamesLatestAttempt
  /\ RetryPaidFor

-----------------------------------------------------------------------------
(* Facts about the definitions the actions are built from *)

LEMMA AttemptNosRange ==
  /\ AttemptNos \subseteq Nat \ {0}
  /\ \A n \in Nat : n \in AttemptNos <=> 1 <= n /\ n <= MaxAttempts + MaxDisruptions
BY BoundAssumption DEF AttemptNos

\* A row lives in the fields of Row whatever a report or a lease does to it.
LEMMA ReleasedType ==
  ASSUME NEW r \in Row, NEW st \in Status
  PROVE  /\ Released(r, st) \in Row
         /\ Released(r, st).status = st
         /\ Released(r, st).attempts = r.attempts
         /\ Released(r, st).key = r.key
BY DEF Released, Row

LEMMA AfterFailureType ==
  ASSUME NEW r \in Row
  PROVE  /\ AfterFailure(r) \in Row
         /\ AfterFailure(r).attempts = r.attempts
         /\ AfterFailure(r).key = r.key
         /\ \/ AfterFailure(r).status = "dead"
            \/ AfterFailure(r).status = "failed" /\ r.attempts < MaxAttempts
<1>1. "dead" \in Status /\ "failed" \in Status
  BY DEF Status, Waiting, Finished
<1>2. r.attempts \in Nat /\ MaxAttempts \in Nat
  BY BoundAssumption DEF Row
<1>3. CASE r.attempts >= MaxAttempts
  BY <1>1, <1>3, ReleasedType DEF AfterFailure
<1>4. CASE ~(r.attempts >= MaxAttempts)
  BY <1>1, <1>2, <1>4, ReleasedType DEF AfterFailure
<1> QED
  BY <1>3, <1>4

LEMMA LeasedType ==
  ASSUME NEW r \in Row, NEW w \in Workers,
         r.attempts < MaxAttempts + MaxDisruptions
  PROVE  /\ Leased(r, w) \in Row
         /\ Leased(r, w).status = "running"
         /\ Leased(r, w).attempts = r.attempts + 1
         /\ Leased(r, w).leasedBy = w
         /\ Leased(r, w).lease = "live"
         /\ Leased(r, w).key = r.key
<1>1. r.attempts + 1 \in 0 .. (MaxAttempts + MaxDisruptions)
  BY BoundAssumption DEF Row
<1> QED
  BY <1>1 DEF Leased, Row, Status

LEMMA NoRowType == NoRow \in Row /\ NoAttempt \in Attempt
BY BoundAssumption
   DEF NoRow, Row, NoAttempt, Attempt, Status, Waiting, Finished, Phases, Verdicts

-----------------------------------------------------------------------------
(* The invariant holds initially and every action keeps it *)

LEMMA InitInv == Init => IInv
<1> SUFFICES ASSUME Init PROVE IInv
  OBVIOUS
<1>1. TypeOK
  BY NoRowType, BoundAssumption DEF Init, TypeOK
<1>2. BoundedRetry /\ RetryPaidFor
  BY BoundAssumption DEF Init, BoundedRetry, RetryPaidFor, NoRow
<1>3. LeaseNamesLatestAttempt
  BY DEF Init, LeaseNamesLatestAttempt, Active, NoAttempt
<1> QED
  BY <1>1, <1>2, <1>3 DEF IInv

\* Rows that are enqueued, cancelled or deleted: no attempt changes.
LEMMA RowStepInv == IInv /\ RowStep => IInv'
<1> SUFFICES ASSUME IInv, RowStep PROVE IInv'
  OBVIOUS
<1> USE DEF IInv
<1>1. ASSUME NEW k \in Keys, Enqueue(k) PROVE IInv'
  <2>1. PICK j \in Jobs, due \in BOOLEAN :
          /\ row[j].status = "absent"
          /\ row' = [row EXCEPT ![j] = [NoRow EXCEPT !.status = "pending",
                                                     !.key = k, !.due = due]]
    BY <1>1 DEF Enqueue
  <2> DEFINE new == [NoRow EXCEPT !.status = "pending", !.key = k, !.due = due]
  <2>2. new \in Row /\ new.status = "pending" /\ new.attempts = 0
    <3>1. "pending" \in Status
      BY DEF Status, Waiting
    <3>2. new \in Row
      BY <3>1, NoRowType DEF Row
    <3>3. new.status = "pending" /\ new.attempts = 0
      BY DEF NoRow
    <3> QED
      BY <3>2, <3>3
  <2>3. UNCHANGED <<att, proc, polling, disruptions>>
    BY <1>1 DEF Enqueue
  <2>4. TypeOK'
    BY <2>1, <2>2, <2>3 DEF TypeOK
  <2>5. \A i \in Jobs : row'[i] = IF i = j THEN new ELSE row[i]
    BY <2>1 DEF TypeOK
  <2> HIDE DEF new
  <2>6. BoundedRetry' /\ RetryPaidFor'
    <3>1. BoundedRetry'
      BY <2>2, <2>3, <2>5, BoundAssumption DEF BoundedRetry, TypeOK
    <3>2. RetryPaidFor'
      BY <2>2, <2>3, <2>5 DEF RetryPaidFor, Active, Current
    <3> QED
      BY <3>1, <3>2
  <2>7. row[j].attempts = 0
    BY <2>1 DEF RetryPaidFor
  <2>8. LeaseNamesLatestAttempt'
    BY <2>2, <2>3, <2>5, <2>7 DEF LeaseNamesLatestAttempt, Active, Current
  <2> QED
    BY <2>4, <2>6, <2>8
<1>2. ASSUME NEW S \in SUBSET Jobs, NEW st \in {"cancelled", "deleted"},
             row' = [j \in Jobs |-> IF j \in S
                                    THEN [row[j] EXCEPT !.status = st]
                                    ELSE row[j]],
             UNCHANGED <<att, proc, polling, disruptions>>
      PROVE  IInv'
  <2>1. TypeOK'
    BY <1>2 DEF TypeOK, Row, Status, Finished
  <2>2. \A j \in Jobs : /\ row'[j].attempts = row[j].attempts
                        /\ row'[j].leasedBy = row[j].leasedBy
                        /\ row'[j].lease = row[j].lease
                        /\ row'[j].status \in {row[j].status, st}
    BY <1>2 DEF TypeOK, Row
  <2>3. BoundedRetry' /\ RetryPaidFor'
    BY <1>2, <2>2 DEF BoundedRetry, RetryPaidFor, Active, Current
  <2>4. LeaseNamesLatestAttempt'
    BY <1>2, <2>2 DEF LeaseNamesLatestAttempt, Active, Current
  <2> QED
    BY <2>1, <2>3, <2>4
<1>3. ASSUME NEW S \in SUBSET Jobs, Delete(S) PROVE IInv'
  BY <1>2, <1>3 DEF Delete
<1>4. CASE CancelQueued
  BY <1>2, <1>4 DEF CancelQueued
<1>5. CASE ClearMigrations
  BY <1>3, <1>5 DEF ClearMigrations, Clearable
<1>6. ASSUME NEW k \in RolloutKeys, ReplanRollout(k) PROVE IInv'
  BY <1>3, <1>6 DEF ReplanRollout, RolloutOf
<1> QED
  BY <1>1, <1>4, <1>5, <1>6 DEF RowStep

\* The run loop: dequeue takes rows and starts their next attempt; a crash
\* drops attempts and counts as a disruption.
LEMMA WorkerStepInv ==
  ASSUME IInv, NEW w \in Workers, WorkerStep(w)
  PROVE  IInv'
<1> USE DEF IInv
<1>1. ASSUME NEW B \in SUBSET Runnable, Take(w, B) PROVE IInv'
  <2>1. \A j \in B : /\ j \in Jobs /\ row[j].attempts \in Nat
                     /\ row[j].attempts < MaxAttempts + disruptions
                     /\ row[j].attempts < MaxAttempts + MaxDisruptions
    BY BoundAssumption
       DEF Runnable, RetryPaidFor, TypeOK, Row, Waiting
  <2>2. \A j \in Jobs :
          row'[j] = IF j \in B THEN Leased(row[j], w) ELSE row[j]
    BY <1>1 DEF Take
  <2>3. \A j \in Jobs : row[j] \in Row
    BY DEF TypeOK
  <2>4. \A j \in B : /\ row'[j] \in Row
                     /\ row'[j].status = "running"
                     /\ row'[j].attempts = row[j].attempts + 1
                     /\ row'[j].leasedBy = w
                     /\ row'[j].lease = "live"
    BY <2>1, <2>2, <2>3, LeasedType
  <2>5. \A j \in Jobs \ B : row'[j] = row[j] /\ att'[j] = att[j]
    BY <1>1, <2>2 DEF Take
  <2>6. \A j \in B : row[j].attempts + 1 \in AttemptNos
    BY <2>1, AttemptNosRange, BoundAssumption
  <2>7. \A j \in B, n \in AttemptNos :
          att'[j][n] = IF n = row[j].attempts + 1
                       THEN [phase |-> "handler", worker |-> w]
                       ELSE att[j][n]
    BY <1>1, <2>1 DEF Take, TypeOK
  <2>8. UNCHANGED <<proc, disruptions>> /\ polling' \in [Workers -> BOOLEAN]
    BY <1>1 DEF Take, TypeOK
  <2>9. TypeOK'
    <3>1. row' \in [Jobs -> Row]
      BY <1>1, <2>2, <2>3, <2>4 DEF Take
    <3>2. [phase |-> "handler", worker |-> w] \in Attempt
      BY DEF Attempt, Phases
    <3>3. att' \in [Jobs -> [AttemptNos -> Attempt]]
      BY <1>1, <3>2 DEF Take, TypeOK
    <3> QED
      BY <2>8, <3>1, <3>3 DEF TypeOK
  <2>10. BoundedRetry'
    BY <2>1, <2>4, <2>5, <2>8, BoundAssumption DEF BoundedRetry, TypeOK
  <2>11. LeaseNamesLatestAttempt'
    <3>1. ASSUME NEW j \in B, NEW n \in AttemptNos, Active(j, n)'
          PROVE  /\ n <= row[j].attempts + 1
                 /\ n = row[j].attempts + 1 => att'[j][n].worker = w
      <4>1. CASE n = row[j].attempts + 1
        BY <2>1, <2>7, <4>1
      <4>2. CASE n # row[j].attempts + 1
        BY <2>1, <2>7, <3>1, <4>2, AttemptNosRange
           DEF LeaseNamesLatestAttempt, Active, Current
      <4> QED
        BY <4>1, <4>2
    <3>2. ASSUME NEW j \in Jobs \ B, NEW n \in AttemptNos, Active(j, n)'
          PROVE  /\ n <= Current(j)'
                 /\ n = Current(j)' /\ row'[j].status = "running" =>
                      row'[j].leasedBy = att'[j][n].worker
      BY <2>5, <3>2 DEF LeaseNamesLatestAttempt, Active, Current
    <3> QED
      BY <2>4, <3>1, <3>2 DEF LeaseNamesLatestAttempt, Current
  <2>12. RetryPaidFor'
    <3>1. \A j \in B : Active(j, Current(j))'
      BY <2>1, <2>4, <2>6, <2>7 DEF Active, Current
    <3>2. \A j \in Jobs \ B : Active(j, Current(j))' = Active(j, Current(j))
      BY <2>5 DEF Active, Current
    <3> QED
      BY <2>1, <2>4, <2>5, <2>8, <3>1, <3>2 DEF RetryPaidFor
  <2> QED
    BY <2>9, <2>10, <2>11, <2>12
<1>2. CASE Dequeue(w)
  BY <1>1, <1>2 DEF Dequeue
<1>3. CASE Crash(w)
  <2>1. UNCHANGED row /\ disruptions' = disruptions + 1
        /\ disruptions < MaxDisruptions /\ disruptions \in Nat
    BY <1>3, BoundAssumption DEF Crash, Disrupt, TypeOK
  <2>2. \A j \in Jobs, n \in AttemptNos :
          att'[j][n] \in {att[j][n], NoAttempt}
    BY <1>3 DEF Crash, Forget
  <2>3. TypeOK'
    BY <1>3, <2>1, NoRowType, BoundAssumption
       DEF Crash, Forget, TypeOK
  <2>4. \A j \in Jobs : row[j].attempts \in Nat
    BY BoundAssumption DEF TypeOK, Row
  <2>5. BoundedRetry' /\ RetryPaidFor'
    BY <2>1, <2>4, BoundAssumption DEF BoundedRetry, RetryPaidFor
  <2>6. LeaseNamesLatestAttempt'
    BY <2>1, <2>2 DEF LeaseNamesLatestAttempt, Active, Current, NoAttempt
  <2> QED
    BY <2>3, <2>5, <2>6
<1>4. ASSUME UNCHANGED <<row, att, disruptions>>,
             proc' \in [Workers -> {"up", "draining", "down"}],
             polling' \in [Workers -> BOOLEAN]
      PROVE  IInv'
  BY <1>4 DEF TypeOK, BoundedRetry, RetryPaidFor, LeaseNamesLatestAttempt,
              Active, Current
<1>5. CASE Poll(w) \/ Stop(w) \/ Drained(w) \/ Restart(w)
  BY <1>4, <1>5 DEF Poll, Stop, Drained, Restart, TypeOK
<1> QED
  BY <1>2, <1>3, <1>5 DEF WorkerStep

\* A verdict reported under the lease ends the attempt and releases the row;
\* reported without it, it ends the attempt and nothing else.
LEMMA ReportInv ==
  ASSUME IInv, NEW j \in Jobs, NEW n \in AttemptNos,
         NEW v \in Verdicts, NEW r \in Row,
         r.attempts = row[j].attempts, r.key = row[j].key,
         \/ r.status \in Finished
         \/ r.status = "failed" /\ r.attempts < MaxAttempts,
         Report(j, n, v, r)
  PROVE  IInv'
<1> USE DEF IInv
<1>1. Active(j, n)
  BY DEF Report, Active, Verdicts
<1>2. UNCHANGED <<proc, polling, disruptions>>
  BY DEF Report
<1>3. \A i \in Jobs, m \in AttemptNos :
        att'[i][m] = IF i = j /\ m = n THEN NoAttempt ELSE att[i][m]
  BY DEF Report, SetAttempt, TypeOK
<1>4. TypeOK'
  <2>1. att' \in [Jobs -> [AttemptNos -> Attempt]]
    BY NoRowType DEF Report, SetAttempt, TypeOK
  <2>2. row' \in [Jobs -> Row]
    BY DEF Report, TypeOK
  <2> QED
    BY <1>2, <2>1, <2>2 DEF TypeOK
<1>5. \A i \in Jobs : \/ row'[i] = row[i]
                      \/ i = j /\ row'[i] = r
  BY DEF Report, TypeOK
<1>6. BoundedRetry'
  BY <1>2, <1>5 DEF BoundedRetry
<1>7. r.status # "running" /\ r.status \notin {"absent", "pending"}
  BY DEF Finished
<1>8. LeaseNamesLatestAttempt'
  BY <1>3, <1>5, <1>7
     DEF LeaseNamesLatestAttempt, Active, Current, NoAttempt
<1>9. RetryPaidFor'
  <2>1. ASSUME NEW i \in Jobs, row'[i] = row[i], row[i].status = "running"
        PROVE  Active(i, Current(i)) => Active(i, Current(i))'
    <3>1. CASE i = j /\ n = Current(j)
      \* The attempt holds the lease, so the report would have released it.
      <4>1. Owns(att[j][n].worker, j)
        BY <1>1, <2>1, <3>1 DEF LeaseNamesLatestAttempt, Owns
      <4>2. row'[j] = r
        BY <4>1 DEF Report, TypeOK
      <4> QED
        BY <1>7, <2>1, <3>1, <4>2
    <3>2. CASE ~(i = j /\ n = Current(j))
      <4>1. Current(i)' = Current(i)
        BY <2>1 DEF Current
      <4>2. CASE i = j
        BY <3>2, <4>1, <4>2 DEF Report, SetAttempt, TypeOK, Active
      <4>3. CASE i # j
        BY <4>1, <4>3 DEF Report, SetAttempt, TypeOK, Active
      <4> QED
        BY <4>2, <4>3
    <3> QED
      BY <3>1, <3>2
  <2>2. \A i \in Jobs : row[i].attempts \in Nat
    BY BoundAssumption DEF TypeOK, Row
  <2>3. ASSUME NEW i \in Jobs, row'[i] = row[i]
        PROVE  RetryPaidFor!(i)'
    BY <1>2, <2>1, <2>2, <2>3 DEF RetryPaidFor
  <2>4. ASSUME NEW i \in Jobs, row'[i] = r
        PROVE  RetryPaidFor!(i)'
    BY <1>7, <2>4 DEF Finished
  <2> QED
    BY <1>5, <2>3, <2>4 DEF RetryPaidFor
<1> QED
  BY <1>4, <1>6, <1>8, <1>9

LEMMA AttemptStepInv ==
  ASSUME IInv, NEW j \in Jobs, NEW n \in AttemptNos, AttemptStep(j, n)
  PROVE  IInv'
<1> USE DEF IInv
<1>0. row[j] \in Row /\ {"succeeded", "dead"} \subseteq Status \cap Finished
  BY DEF TypeOK, Status, Finished
<1>1. ASSUME NEW v \in Verdicts, HandlerReturns(j, n, v) PROVE IInv'
  <2>1. UNCHANGED <<row, proc, polling, disruptions>>
    BY <1>1 DEF HandlerReturns
  <2>2. \A i \in Jobs, m \in AttemptNos :
          /\ Active(i, m)' = Active(i, m)
          /\ att'[i][m].worker = att[i][m].worker
    <3>1. ASSUME NEW i \in Jobs, NEW m \in AttemptNos, i = j /\ m = n
          PROVE  /\ att[i][m].phase = "handler" /\ att'[i][m].phase = v
                 /\ att'[i][m].worker = att[i][m].worker
      BY <1>1, <3>1 DEF HandlerReturns, SetAttempt, TypeOK, Attempt
    <3>2. ASSUME NEW i \in Jobs, NEW m \in AttemptNos, ~(i = j /\ m = n)
          PROVE  att'[i][m] = att[i][m]
      BY <1>1, <3>2 DEF HandlerReturns, SetAttempt, TypeOK
    <3> QED
      BY <3>1, <3>2 DEF Active, Verdicts
  <2>3. TypeOK'
    <3>1. v \in Phases /\ att[j][n] \in Attempt
      BY DEF Phases, TypeOK
    <3>2. [att[j][n] EXCEPT !.phase = v] \in Attempt
      BY <3>1 DEF Attempt
    <3> QED
      BY <1>1, <2>1, <3>2 DEF HandlerReturns, SetAttempt, TypeOK
  <2>4. BoundedRetry' /\ LeaseNamesLatestAttempt'
    BY <2>1, <2>2 DEF BoundedRetry, LeaseNamesLatestAttempt, Current
  <2>5. \A i \in Jobs : Active(i, Current(i)) => Active(i, Current(i))'
    BY <1>1, <2>1
       DEF HandlerReturns, SetAttempt, TypeOK, Active, Attempt, Verdicts, Current
  <2>6. RetryPaidFor'
    BY <2>1, <2>5 DEF RetryPaidFor
  <2> QED
    BY <2>3, <2>4, <2>6
<1>2. CASE ExecutionError(j, n)
  <2>1. UNCHANGED <<row, proc, polling>> /\ disruptions' = disruptions + 1
        /\ disruptions < MaxDisruptions /\ disruptions \in Nat
    BY <1>2, BoundAssumption DEF ExecutionError, Disrupt, TypeOK
  <2>2. \A i \in Jobs, m \in AttemptNos :
          att'[i][m] \in {att[i][m], NoAttempt}
    BY <1>2 DEF ExecutionError, SetAttempt, TypeOK
  <2>3. TypeOK'
    BY <1>2, <2>1, NoRowType, BoundAssumption
       DEF ExecutionError, SetAttempt, TypeOK
  <2>4. \A i \in Jobs : row[i].attempts \in Nat
    BY BoundAssumption DEF TypeOK, Row
  <2>5. BoundedRetry' /\ RetryPaidFor'
    BY <2>1, <2>4, BoundAssumption DEF BoundedRetry, RetryPaidFor
  <2>6. LeaseNamesLatestAttempt'
    BY <2>1, <2>2 DEF LeaseNamesLatestAttempt, Active, Current, NoAttempt
  <2> QED
    BY <2>3, <2>5, <2>6
<1>3. CASE Complete(j, n)
  BY <1>0, <1>3, ReleasedType, ReportInv DEF Complete, Verdicts
<1>4. CASE Kill(j, n)
  BY <1>0, <1>4, ReleasedType, ReportInv DEF Kill, Verdicts
<1>5. CASE Fail(j, n)
  BY <1>0, <1>5, AfterFailureType, ReportInv DEF Fail, Verdicts, Finished
<1>6. CASE Heartbeat(j, n)
  <2>1. UNCHANGED <<att, proc, polling, disruptions>>
    BY <1>6 DEF Heartbeat
  <2>2. \A i \in Jobs : /\ row'[i].status = row[i].status
                        /\ row'[i].attempts = row[i].attempts
                        /\ row'[i].leasedBy = row[i].leasedBy
                        /\ row'[i].lease \in {row[i].lease, "live"}
    BY <1>6 DEF Heartbeat, TypeOK, Row
  <2>3. TypeOK'
    BY <1>6, <2>1 DEF Heartbeat, TypeOK, Row
  <2>4. BoundedRetry' /\ LeaseNamesLatestAttempt'
    BY <2>1, <2>2 DEF BoundedRetry, LeaseNamesLatestAttempt, Active, Current
  <2>5. RetryPaidFor'
    BY <2>1, <2>2 DEF RetryPaidFor, Active, Current
  <2> QED
    BY <2>3, <2>4, <2>5
<1> QED
  BY <1>1, <1>2, <1>3, <1>4, <1>5, <1>6 DEF AttemptStep, Reported

LEMMA ClockStepInv ==
  ASSUME IInv, NEW j \in Jobs, LeaseExpires(j) \/ BecomesDue(j)
  PROVE  IInv'
<1> USE DEF IInv
<1>1. UNCHANGED <<att, proc, polling>>
  BY DEF LeaseExpires, BecomesDue
<1>0. \A i \in Jobs : row[i] \in Row /\ row[i].attempts \in Nat
  BY BoundAssumption DEF TypeOK, Row
<1>2. \A i \in Jobs : /\ row'[i].status = row[i].status
                      /\ row'[i].attempts = row[i].attempts
                      /\ row'[i].leasedBy = row[i].leasedBy
                      /\ row[i].attempts \in Nat
  <2>1. CASE LeaseExpires(j)
    BY <1>0, <2>1 DEF LeaseExpires, TypeOK, Row
  <2>2. CASE BecomesDue(j)
    BY <1>0, <2>2 DEF BecomesDue, TypeOK, Row
  <2> QED
    BY <2>1, <2>2
<1>3. row' \in [Jobs -> Row]
  <2>1. [row[j] EXCEPT !.lease = "expired"] \in Row
    BY <1>0 DEF Row
  <2>2. [row[j] EXCEPT !.due = TRUE] \in Row
    BY <1>0 DEF Row
  <2> QED
    BY <2>1, <2>2 DEF LeaseExpires, BecomesDue, TypeOK
<1>4. disruptions \in Nat /\ disruptions' \in 0 .. MaxDisruptions
      /\ disruptions' \in {disruptions, disruptions + 1}
  BY BoundAssumption DEF LeaseExpires, BecomesDue, Disrupt, TypeOK
<1>5. TypeOK'
  BY <1>1, <1>3, <1>4 DEF TypeOK
<1>6. BoundedRetry' /\ LeaseNamesLatestAttempt'
  BY <1>1, <1>2, <1>4, BoundAssumption
     DEF BoundedRetry, LeaseNamesLatestAttempt, Active, Current
<1>7. RetryPaidFor'
  <2>1. CASE LeaseExpires(j)
    <3>1. \A i \in Jobs \ {j} : row'[i] = row[i]
      BY <2>1 DEF LeaseExpires, TypeOK
    <3>2. row[j].attempts < MaxAttempts + disruptions'
      \* Either the attempt is working and its slowness is counted, or what
      \* stopped it was counted already.
      BY <1>2, <1>4, <2>1, BoundAssumption
         DEF LeaseExpires, Disrupt, BoundedRetry, RetryPaidFor
    <3>3. RetryPaidFor!(j)'
      BY <1>2, <2>1, <3>2 DEF LeaseExpires, RetryPaidFor
    <3>4. \A i \in Jobs \ {j} : RetryPaidFor!(i)'
      BY <1>1, <1>2, <1>4, <3>1, BoundAssumption
         DEF RetryPaidFor, Active, Current
    <3> QED
      BY <3>3, <3>4 DEF RetryPaidFor
  <2>2. CASE BecomesDue(j)
    <3>1. \A i \in Jobs : row'[i].lease = row[i].lease
      BY <2>2 DEF BecomesDue, TypeOK, Row
    <3> QED
      BY <1>1, <1>2, <2>2, <3>1 DEF BecomesDue, RetryPaidFor, Active, Current
  <2> QED
    BY <2>1, <2>2
<1> QED
  BY <1>5, <1>6, <1>7

LEMMA NextInv == IInv /\ [Next]_vars => IInv'
<1> SUFFICES ASSUME IInv, [Next]_vars PROVE IInv'
  OBVIOUS
<1>1. CASE UNCHANGED vars
  BY <1>1 DEF vars, IInv, TypeOK, BoundedRetry, LeaseNamesLatestAttempt,
              RetryPaidFor, Active, Current
<1>2. CASE Next
  BY <1>2, RowStepInv, WorkerStepInv, AttemptStepInv, ClockStepInv DEF Next
<1> QED
  BY <1>1, <1>2

THEOREM InvariantHolds == Spec => []IInv
BY InitInv, NextInv, PTL DEF Spec

-----------------------------------------------------------------------------
(* What the invariant gives *)

\* Every variable keeps its type in every reachable state.
THEOREM TypeCorrect == Spec => []TypeOK
<1>1. IInv => TypeOK
  BY DEF IInv
<1> QED
  BY <1>1, InvariantHolds, PTL

\* However leases expire and workers die, a job is started at most
\* max_attempts times plus once per disruption.
THEOREM RetryIsBounded == Spec => []BoundedRetry
<1>1. IInv => BoundedRetry
  BY DEF IInv
<1> QED
  BY <1>1, InvariantHolds, PTL

\* The holder of a running row's lease is the worker of its latest attempt.
THEOREM LeaseIsAttempts == Spec => []LeaseNamesLatestAttempt
<1>1. IInv => LeaseNamesLatestAttempt
  BY DEF IInv
<1> QED
  BY <1>1, InvariantHolds, PTL

-----------------------------------------------------------------------------
(* Outcomes *)

\* What a step does to the table, as far as keys and outcomes go.
FinalRow(j) ==
  row[j].status \in Finished =>
    \/ row'[j] = row[j]
    \/ /\ row'[j].status = "deleted"
       /\ row[j].status = "succeeded" => row[j].key \in RolloutKeys

LEMMA FinishedRowsStay == IInv /\ [Next]_vars => \A j \in Jobs : FinalRow(j)
<1> SUFFICES ASSUME IInv, [Next]_vars, NEW j \in Jobs,
                    row[j].status \in Finished
             PROVE  \/ row'[j] = row[j]
                    \/ /\ row'[j].status = "deleted"
                       /\ row[j].status = "succeeded" =>
                            row[j].key \in RolloutKeys
  BY DEF FinalRow
<1>0. row \in [Jobs -> Row] /\ row[j].status # "running"
      /\ row[j].status \notin Waiting \cup {"absent", "deleted"}
  BY DEF IInv, TypeOK, Finished, Waiting
<1>1. CASE \E k \in Keys : Enqueue(k)
  BY <1>0, <1>1 DEF Enqueue
<1>2. CASE \E k \in RolloutKeys : ReplanRollout(k)
  BY <1>0, <1>2 DEF ReplanRollout, RolloutOf, Delete, Row
<1>3. CASE CancelQueued
  BY <1>0, <1>3 DEF CancelQueued
<1>4. CASE ClearMigrations
  BY <1>0, <1>4 DEF ClearMigrations, Clearable, Delete, Row
<1>5. ASSUME NEW w \in Workers, WorkerStep(w) PROVE row'[j] = row[j]
  <2>1. CASE Dequeue(w)
    BY <1>0, <2>1 DEF Dequeue, Take, Runnable
  <2> QED
    BY <1>5, <2>1
       DEF WorkerStep, Poll, Stop, Drained, Crash, Restart
<1>6. ASSUME NEW i \in Jobs, NEW n \in AttemptNos, AttemptStep(i, n)
      PROVE  row'[j] = row[j]
  <2>1. ASSUME NEW v, NEW r, Report(i, n, v, r) PROVE row'[j] = row[j]
    BY <1>0, <2>1 DEF Report, Owns
  <2>2. CASE Reported(i, n)
    BY <2>1, <2>2 DEF Reported, Complete, Fail, Kill
  <2>3. CASE Heartbeat(i, n)
    BY <1>0, <2>3 DEF Heartbeat, Owns
  <2> QED
    BY <1>6, <2>2, <2>3 DEF AttemptStep, HandlerReturns, ExecutionError
<1>7. ASSUME NEW i \in Jobs, LeaseExpires(i) \/ BecomesDue(i)
      PROVE  row'[j] = row[j]
  BY <1>0, <1>7 DEF LeaseExpires, BecomesDue
<1> QED
  BY <1>1, <1>2, <1>3, <1>4, <1>5, <1>6, <1>7 DEF Next, RowStep, vars

\* A finished row is never changed, and a succeeded migration never deleted.
THEOREM OutcomesAreFinal == Spec => OutcomeIsFinal
<1>1. IInv /\ [Next]_vars => [\A j \in Jobs : FinalRow(j)]_vars
  BY FinishedRowsStay
<1>2. OutcomeIsFinal <=> [][\A j \in Jobs : FinalRow(j)]_vars
  BY DEF OutcomeIsFinal, FinalRow
<1> QED
  BY <1>1, <1>2, InvariantHolds, PTL DEF Spec

-----------------------------------------------------------------------------
(* Keys *)

\* The unique index: enqueue_job makes a row only for a key without one.
OneRowPerKey ==
  \A i, j \in Jobs :
    Present(i) /\ Present(j) /\ row[i].key = row[j].key => i = j

KeyInv == OneRowPerKey /\ \A j \in Jobs : Present(j) => row[j].key \in Keys

\* Only enqueue_job makes a row present or gives it a key.
LEMMA KeysStay ==
  ASSUME IInv, [Next]_vars
  PROVE  \/ \E k \in Keys : Enqueue(k)
         \/ \A j \in Jobs : /\ row'[j].key = row[j].key
                            /\ Present(j)' => Present(j)
<1> DEFINE Kept ==
      \A j \in Jobs :
        /\ row'[j].key = row[j].key
        /\ Present(j)' => Present(j)
<1> USE DEF Present
<1>0. \A j \in Jobs : row[j] \in Row
  BY DEF IInv, TypeOK
<1>1. ASSUME NEW S \in SUBSET Jobs, NEW st \in {"cancelled", "deleted"},
             \A j \in S : st = "cancelled" => Present(j),
             row' = [j \in Jobs |-> IF j \in S
                                    THEN [row[j] EXCEPT !.status = st]
                                    ELSE row[j]]
      PROVE  Kept
  BY <1>0, <1>1 DEF Row
<1>2. CASE \E k \in RolloutKeys : ReplanRollout(k)
  BY <1>1, <1>2 DEF ReplanRollout, RolloutOf, Delete
<1>3. CASE CancelQueued
  BY <1>1, <1>3 DEF CancelQueued, Waiting
<1>4. CASE ClearMigrations
  BY <1>1, <1>4 DEF ClearMigrations, Clearable, Delete
<1>5. ASSUME NEW w \in Workers, WorkerStep(w) PROVE Kept
  <2>1. ASSUME NEW B \in SUBSET Runnable, Take(w, B) PROVE Kept
    <3>1. \A j \in B : Present(j)
      BY DEF Runnable, Waiting
    <3>2. \A j \in Jobs : Leased(row[j], w).key = row[j].key
      BY <1>0 DEF Leased, Row
    <3> QED
      BY <2>1, <3>1, <3>2 DEF Take
  <2>2. CASE Dequeue(w)
    BY <2>1, <2>2 DEF Dequeue
  <2>3. CASE UNCHANGED row
    BY <2>3
  <2> QED
    BY <1>5, <2>2, <2>3
       DEF WorkerStep, Poll, Stop, Drained, Crash, Restart
<1>6. ASSUME NEW i \in Jobs, NEW n \in AttemptNos, AttemptStep(i, n)
      PROVE  Kept
  <2>1. ASSUME NEW v, NEW r, r.key = row[i].key, Report(i, n, v, r) PROVE Kept
    BY <1>0, <2>1 DEF Report, Owns, IInv, TypeOK
  <2>2. \A st \in Status : Released(row[i], st).key = row[i].key
    BY <1>0, ReleasedType
  <2>3. AfterFailure(row[i]).key = row[i].key
    BY <1>0, AfterFailureType
  <2>4. CASE Reported(i, n)
    BY <2>1, <2>2, <2>3, <2>4
       DEF Reported, Complete, Fail, Kill, Status, Finished
  <2>5. CASE Heartbeat(i, n)
    BY <1>0, <2>5 DEF Heartbeat, Owns, IInv, TypeOK, Row
  <2>6. CASE UNCHANGED row
    BY <2>6
  <2> QED
    BY <1>6, <2>4, <2>5, <2>6 DEF AttemptStep, HandlerReturns, ExecutionError
<1>7. ASSUME NEW i \in Jobs PROVE LeaseExpires(i) => Kept
  BY <1>0 DEF LeaseExpires, IInv, TypeOK, Row
<1>8. ASSUME NEW i \in Jobs PROVE BecomesDue(i) => Kept
  BY <1>0 DEF BecomesDue, IInv, TypeOK, Row
<1>9. CASE UNCHANGED vars
  BY <1>9 DEF vars
<1> QED
  BY <1>2, <1>3, <1>4, <1>5, <1>6, <1>7, <1>8, <1>9 DEF Next, RowStep

LEMMA KeyInvStep == IInv /\ KeyInv /\ [Next]_vars => KeyInv'
<1> SUFFICES ASSUME IInv, KeyInv, [Next]_vars PROVE KeyInv'
  OBVIOUS
<1>1. ASSUME NEW k \in Keys, Enqueue(k) PROVE KeyInv'
  <2>1. PICK j \in Jobs, due \in BOOLEAN :
          /\ row[j].status = "absent"
          /\ row' = [row EXCEPT ![j] = [NoRow EXCEPT !.status = "pending",
                                                     !.key = k, !.due = due]]
    BY <1>1 DEF Enqueue
  <2>2. row'[j].key = k /\ \A i \in Jobs \ {j} : row'[i] = row[i]
    BY <2>1 DEF IInv, TypeOK, NoRow
  <2>3. \A i \in Jobs \ {j} : Present(i)' => Present(i) /\ row[i].key # k
    BY <1>1, <2>2 DEF Enqueue, Present
  <2> QED
    BY <2>2, <2>3 DEF KeyInv, OneRowPerKey, Present
<1>2. CASE \A j \in Jobs : /\ row'[j].key = row[j].key
                           /\ Present(j)' => Present(j)
  <2>1. \A j \in Jobs : Present(j)' => row'[j].key \in Keys
    BY <1>2 DEF KeyInv
  <2>2. \A i, j \in Jobs :
          Present(i)' /\ Present(j)' /\ row'[i].key = row'[j].key => i = j
    BY <1>2 DEF KeyInv, OneRowPerKey
  <2> QED
    BY <2>1, <2>2 DEF KeyInv, OneRowPerKey, Present
<1> QED
  BY <1>1, <1>2, KeysStay

\* What MigrationsExecuteAlone needs of the index: of the rows that share a
\* key, all but one are deleted.
LEMMA KeysAreUnique == Spec => []OneRowPerKey
<1>1. Init => KeyInv
  BY DEF Init, KeyInv, OneRowPerKey, Present, NoRow
<1>2. KeyInv => OneRowPerKey
  BY DEF KeyInv
<1> QED
  BY <1>1, <1>2, KeyInvStep, InvariantHolds, PTL DEF Spec

-----------------------------------------------------------------------------
(* Who may report *)

\* The body of OnlyLeaseHolderReports for one attempt.
HolderReports(j, n) ==
  /\ Active(j, n) /\ att'[j][n] = NoAttempt
  /\ row[j].status = "running" /\ row'[j].status # "running"
  => att[j][n].worker = row[j].leasedBy

\* Only a report both ends an attempt and takes its row out of running.
LEMMA ReporterHoldsLease ==
  ASSUME IInv, [Next]_vars, NEW j \in Jobs, NEW n \in AttemptNos
  PROVE  HolderReports(j, n)
<1> SUFFICES ASSUME Active(j, n), att'[j][n] = NoAttempt,
                    row[j].status = "running", row'[j].status # "running"
             PROVE  att[j][n].worker = row[j].leasedBy
  BY DEF HolderReports
<1>0. row \in [Jobs -> Row] /\ att \in [Jobs -> [AttemptNos -> Attempt]]
      /\ att'[j][n] # att[j][n]
  BY DEF IInv, TypeOK, Active, NoAttempt
<1>1. ASSUME att' = att PROVE FALSE
  BY <1>0, <1>1
<1>2. ASSUME row' = row PROVE FALSE
  BY <1>2
<1>3. CASE RowStep
  BY <1>1, <1>3
     DEF RowStep, Enqueue, ReplanRollout, CancelQueued, ClearMigrations, Delete
<1>4. ASSUME NEW w \in Workers, WorkerStep(w) PROVE FALSE
  <2>1. ASSUME NEW B \in SUBSET Runnable, Take(w, B) PROVE FALSE
    <3>1. CASE j \in B
      BY <2>1, <3>1 DEF Take, Leased, IInv, TypeOK, Row
    <3>2. CASE j \notin B
      BY <1>0, <2>1, <3>2 DEF Take
    <3> QED
      BY <3>1, <3>2
  <2>2. ~Dequeue(w)
    BY <2>1 DEF Dequeue
  <2> QED
    BY <1>2, <1>4, <2>2
       DEF WorkerStep, Poll, Stop, Drained, Crash, Restart
<1>5. ASSUME NEW i \in Jobs, NEW m \in AttemptNos, AttemptStep(i, m)
      PROVE  att[j][n].worker = row[j].leasedBy
  <2>1. ASSUME NEW v, NEW r, Report(i, m, v, r)
        PROVE  att[j][n].worker = row[j].leasedBy
    <3>1. i = j /\ m = n
      BY <1>0, <2>1 DEF Report, SetAttempt
    <3>2. Owns(att[j][n].worker, j)
      BY <2>1, <3>1 DEF Report
    <3> QED
      BY <3>2 DEF Owns
  <2>2. CASE Reported(i, m)
    BY <2>1, <2>2 DEF Reported, Complete, Fail, Kill
  <2> QED
    BY <1>1, <1>2, <1>5, <2>2
       DEF AttemptStep, HandlerReturns, ExecutionError, Heartbeat
<1>6. ASSUME NEW i \in Jobs, LeaseExpires(i) \/ BecomesDue(i) PROVE FALSE
  BY <1>1, <1>6 DEF LeaseExpires, BecomesDue
<1> QED
  BY <1>1, <1>3, <1>4, <1>5, <1>6 DEF Next, vars

\* A worker that lost its lease to another cannot report the job's outcome.
THEOREM LostLeaseCannotReport == Spec => OnlyLeaseHolderReports
<1>1. IInv /\ [Next]_vars =>
        [\A j \in Jobs, n \in AttemptNos : HolderReports(j, n)]_vars
  BY ReporterHoldsLease
<1>2. OnlyLeaseHolderReports <=>
        [][\A j \in Jobs, n \in AttemptNos : HolderReports(j, n)]_vars
  BY DEF OnlyLeaseHolderReports, HolderReports
<1> QED
  BY <1>1, <1>2, InvariantHolds, PTL DEF Spec

-----------------------------------------------------------------------------
(* One executor per migration *)

\* As long as nothing was disrupted, whatever is under way is the latest
\* attempt at a running row, or at a rollout an operator has deleted.
SoleExecutor ==
  disruptions = 0 =>
    \A j \in Jobs :
      /\ \A n \in AttemptNos : Active(j, n) =>
           /\ n = Current(j)
           /\ \/ row[j].status = "running"
              \/ row[j].status = "deleted" /\ row[j].key \in RolloutKeys
      /\ row[j].status = "running" =>
           row[j].lease = "live" /\ Active(j, Current(j))

\* Split by actor, as the invariant's proof is.
LEMMA SoleRowStep ==
  ASSUME IInv, SoleExecutor, RowStep
  PROVE  SoleExecutor'
<1> SUFFICES ASSUME disruptions = 0, NEW j \in Jobs
             PROVE  SoleExecutor!2!(j)'
  BY DEF SoleExecutor, RowStep, Enqueue, ReplanRollout, CancelQueued,
         ClearMigrations, Delete
<1>0. row[j] \in Row /\ SoleExecutor!2!(j) /\ att' = att
  BY DEF IInv, TypeOK, SoleExecutor, RowStep, Enqueue, ReplanRollout,
         CancelQueued, ClearMigrations, Delete
<1>1. ASSUME row'[j] = row[j] PROVE SoleExecutor!2!(j)'
  BY <1>0, <1>1 DEF Active, Current
<1>2. ASSUME row[j].status \notin {"running", "deleted"},
             row'[j].status # "running"
      PROVE  SoleExecutor!2!(j)'
  BY <1>0, <1>2 DEF Active, Current
<1>3. ASSUME NEW k \in Keys, Enqueue(k) PROVE SoleExecutor!2!(j)'
  <2>1. \/ row'[j] = row[j]
        \/ row[j].status = "absent" /\ row'[j].status = "pending"
    BY <1>3 DEF Enqueue, IInv, TypeOK, NoRow
  <2> QED
    BY <1>1, <1>2, <2>1
<1>4. CASE CancelQueued
  <2>1. \/ row'[j] = row[j]
        \/ row[j].status \in Waiting /\ row'[j].status = "cancelled"
    BY <1>0, <1>4 DEF CancelQueued, Row
  <2> QED
    BY <1>1, <1>2, <2>1 DEF Waiting
<1>5. CASE ClearMigrations
  <2>1. \/ row'[j] = row[j]
        \/ row[j].status \in {"dead", "cancelled"}
           /\ row'[j].status = "deleted"
    BY <1>0, <1>5 DEF ClearMigrations, Delete, Clearable, Row
  <2> QED
    BY <1>1, <1>2, <2>1
<1>6. ASSUME NEW k \in RolloutKeys, ReplanRollout(k)
      PROVE  SoleExecutor!2!(j)'
  <2>1. \/ row'[j] = row[j]
        \/ /\ row'[j].status = "deleted" /\ row'[j].key \in RolloutKeys
           /\ row'[j].attempts = row[j].attempts
    BY <1>0, <1>6 DEF ReplanRollout, RolloutOf, Delete, Row
  <2> QED
    BY <1>0, <1>1, <2>1 DEF Active, Current
<1> QED
  BY <1>3, <1>4, <1>5, <1>6 DEF RowStep

LEMMA SoleWorkerStep ==
  ASSUME IInv, SoleExecutor, NEW w \in Workers, WorkerStep(w)
  PROVE  SoleExecutor'
<1>1. CASE Crash(w)
  BY <1>1, BoundAssumption DEF Crash, Disrupt, SoleExecutor, IInv, TypeOK
<1>2. CASE Poll(w) \/ Stop(w) \/ Drained(w) \/ Restart(w)
  BY <1>2 DEF Poll, Stop, Drained, Restart, SoleExecutor, Active, Current
<1>3. ASSUME NEW B \in SUBSET Runnable, Take(w, B), disruptions = 0,
             NEW j \in Jobs
      PROVE  SoleExecutor!2!(j)'
  <2>0. row[j] \in Row /\ SoleExecutor!2!(j) /\ att[j] \in [AttemptNos -> Attempt]
    BY <1>3 DEF IInv, TypeOK, SoleExecutor
  <2>1. CASE j \notin B
    <3>1. row'[j] = row[j] /\ att'[j] = att[j]
      BY <1>3, <2>1 DEF Take
    <3> QED
      BY <2>0, <3>1 DEF Active, Current
  <2>2. CASE j \in B
    <3>1. row[j].status \in Waiting
      BY <2>0, <2>2 DEF Runnable
    <3>2. \A n \in AttemptNos : ~Active(j, n)
      BY <2>0, <3>1 DEF Waiting
    <3>3. /\ row[j].attempts \in Nat
          /\ row[j].attempts < MaxAttempts + MaxDisruptions
      BY <3>1, BoundAssumption
         DEF IInv, TypeOK, RetryPaidFor, Waiting, Row
    <3>4. row[j].attempts + 1 \in AttemptNos
      BY <3>3, AttemptNosRange, BoundAssumption
    <3>5. /\ row'[j].status = "running" /\ row'[j].lease = "live"
          /\ row'[j].attempts = row[j].attempts + 1
      BY <1>3, <2>0, <2>2, <3>3, LeasedType DEF Take
    <3>6. att'[j] = [att[j] EXCEPT ![row[j].attempts + 1] =
                       [phase |-> "handler", worker |-> w]]
      BY <1>3, <2>2 DEF Take
    <3>7. \A n \in AttemptNos :
            Active(j, n)' <=> n = row[j].attempts + 1
      BY <2>0, <3>2, <3>4, <3>6 DEF Active
    <3>8. Current(j)' = row[j].attempts + 1
      BY <3>5 DEF Current
    <3>9. Active(j, Current(j))'
      BY <2>0, <3>4, <3>6, <3>8 DEF Active
    <3> QED
      BY <3>5, <3>7, <3>8, <3>9
  <2> QED
    BY <2>1, <2>2
<1>4. CASE Dequeue(w)
  <2>1. PICK B \in SUBSET Runnable : Take(w, B)
    BY <1>4 DEF Dequeue
  <2>2. disruptions' = disruptions
    BY <2>1 DEF Take
  <2> QED
    BY <1>3, <2>1, <2>2 DEF SoleExecutor
<1> QED
  BY <1>1, <1>2, <1>4 DEF WorkerStep

LEMMA SoleAttemptStep ==
  ASSUME IInv, SoleExecutor,
         NEW i \in Jobs, NEW m \in AttemptNos, AttemptStep(i, m)
  PROVE  SoleExecutor'
<1>1. CASE ExecutionError(i, m)
  BY <1>1, BoundAssumption
     DEF ExecutionError, Disrupt, SoleExecutor, IInv, TypeOK
<1>2. ASSUME NEW v \in Verdicts, HandlerReturns(i, m, v)
      PROVE  SoleExecutor'
  <2>1. UNCHANGED <<row, disruptions>>
    BY <1>2 DEF HandlerReturns
  <2>2. \A j \in Jobs, n \in AttemptNos :
          att[j][n].phase # "none" <=> att'[j][n].phase # "none"
    BY <1>2 DEF HandlerReturns, SetAttempt, IInv, TypeOK, Attempt, Verdicts
  <2>3. \A j \in Jobs : row[j].status = "running" => Current(j) \in AttemptNos
    BY BoundAssumption, AttemptNosRange
       DEF IInv, TypeOK, RetryPaidFor, Row, Current
  <2> QED
    BY <2>1, <2>2, <2>3 DEF SoleExecutor, Active, Current
<1>3. CASE Heartbeat(i, m)
  <2>1. UNCHANGED <<att, disruptions>>
    BY <1>3 DEF Heartbeat
  <2>2. \A j \in Jobs : /\ row'[j].status = row[j].status
                        /\ row'[j].key = row[j].key
                        /\ row'[j].attempts = row[j].attempts
                        /\ row'[j].lease \in {row[j].lease, "live"}
    BY <1>3 DEF Heartbeat, IInv, TypeOK, Row
  <2> QED
    BY <2>1, <2>2 DEF SoleExecutor, Active, Current
<1>4. ASSUME NEW v \in Verdicts, NEW r, r.status # "running",
             Report(i, m, v, r), disruptions = 0, NEW j \in Jobs
      PROVE  SoleExecutor!2!(j)'
  <2>0. /\ SoleExecutor!2!(j) /\ Active(i, m)
        /\ row \in [Jobs -> Row] /\ att \in [Jobs -> [AttemptNos -> Attempt]]
    BY <1>4 DEF IInv, TypeOK, SoleExecutor, Report, Active, Verdicts
  <2>1. CASE j # i
    <3>1. row'[j] = row[j] /\ att'[j] = att[j]
      BY <1>4, <2>0, <2>1 DEF Report, SetAttempt
    <3> QED
      BY <2>0, <3>1 DEF Active, Current
  <2>2. CASE j = i
    <3>1. m = Current(j)
      BY <2>0, <2>2
    <3>2. \A n \in AttemptNos : ~Active(j, n)'
      <4>1. att'[j][m] = NoAttempt
        BY <1>4, <2>0, <2>2 DEF Report, SetAttempt
      <4>2. \A n \in AttemptNos \ {m} : att'[j][n] = att[j][n]
        BY <1>4, <2>0, <2>2 DEF Report, SetAttempt
      <4> QED
        BY <2>0, <3>1, <4>1, <4>2 DEF Active, NoAttempt
    <3>3. row'[j].status # "running"
      <4>1. row[j].status = "running" => Owns(att[i][m].worker, i)
        BY <2>0, <2>2, <3>1 DEF Owns, IInv, LeaseNamesLatestAttempt
      <4> QED
        BY <1>4, <2>0, <2>2, <4>1 DEF Report
    <3> QED
      BY <3>2, <3>3
  <2> QED
    BY <2>1, <2>2
<1>5. CASE Reported(i, m)
  <2>1. PICK v, r : /\ v \in Verdicts /\ r.status # "running"
                    /\ Report(i, m, v, r)
    <3>1. row[i] \in Row /\ {"succeeded", "dead"} \subseteq Status
      BY DEF IInv, TypeOK, Status, Finished
    <3> QED
      BY <1>5, <3>1, ReleasedType, AfterFailureType
         DEF Reported, Complete, Kill, Fail, Verdicts
  <2>2. disruptions' = disruptions
    BY <2>1 DEF Report
  <2> QED
    BY <1>4, <2>1, <2>2 DEF SoleExecutor
<1> QED
  BY <1>1, <1>2, <1>3, <1>5 DEF AttemptStep

LEMMA SoleClockStep ==
  ASSUME IInv, SoleExecutor, NEW i \in Jobs, LeaseExpires(i) \/ BecomesDue(i)
  PROVE  SoleExecutor'
<1>1. CASE LeaseExpires(i)
  BY <1>1, BoundAssumption
     DEF LeaseExpires, Disrupt, SoleExecutor, IInv, TypeOK
<1>2. CASE BecomesDue(i)
  <2>1. UNCHANGED <<att, disruptions>>
    BY <1>2 DEF BecomesDue
  <2>2. \A j \in Jobs : /\ row'[j].status = row[j].status
                        /\ row'[j].key = row[j].key
                        /\ row'[j].attempts = row[j].attempts
                        /\ row'[j].lease = row[j].lease
    BY <1>2 DEF BecomesDue, IInv, TypeOK, Row
  <2> QED
    BY <2>1, <2>2 DEF SoleExecutor, Active, Current
<1> QED
  BY <1>1, <1>2

\* An undisrupted migration has at most one attempt under way, over all the
\* rows that ever held its key.
THEOREM MigrationsExecuteAlone == Spec => []MigrationExecutesAlone
<1>1. Init => SoleExecutor
  BY DEF Init, SoleExecutor, Active, NoRow, NoAttempt
<1>2. IInv /\ SoleExecutor /\ [Next]_vars => SoleExecutor'
  <2>1. CASE UNCHANGED vars
    BY <2>1 DEF vars, SoleExecutor, Active, Current
  <2> QED
    BY <2>1, SoleRowStep, SoleWorkerStep, SoleAttemptStep, SoleClockStep
       DEF Next
<1>3. SoleExecutor /\ OneRowPerKey => MigrationExecutesAlone
  BY DEF SoleExecutor, OneRowPerKey, MigrationExecutesAlone, MigrationKeys,
         Present
<1> QED
  BY <1>1, <1>2, <1>3, KeysAreUnique, InvariantHolds, PTL DEF Spec

-----------------------------------------------------------------------------
(* The queue implements JobLifecycle *)

\* The abstract state of all rows.
Mapped == [j \in Jobs |-> LifecycleState(j)]

\* Rows outside S keep their state and those of S go from From to st.
LEMMA MoveIs ==
  ASSUME NEW S \in SUBSET Jobs, NEW From, NEW st,
         \A j \in S : LifecycleState(j) \in From /\ LifecycleState(j)' = st,
         \A j \in Jobs \ S : LifecycleState(j)' = LifecycleState(j)
  PROVE  Lifecycle!Move(S, From, st)
BY DEF Lifecycle!Move

LEMMA StepRefines == IInv /\ [Next]_vars => [Lifecycle!Next]_Mapped
<1> SUFFICES ASSUME IInv, [Next]_vars PROVE Lifecycle!Next \/ Mapped' = Mapped
  BY DEF Mapped
<1>0. /\ row \in [Jobs -> Row] /\ row' \in [Jobs -> Row]
  BY NextInv DEF IInv, TypeOK
<1>a. ASSUME NEW j \in Jobs
      PROVE  /\ row[j].status = "absent" => LifecycleState(j) = "none"
             /\ row[j].status \in Waiting => LifecycleState(j) = "waiting"
             /\ row[j].status \notin Waiting \cup {"absent"} =>
                  LifecycleState(j) = row[j].status
             /\ row'[j].status \in Waiting => LifecycleState(j)' = "waiting"
             /\ row'[j].status \notin Waiting \cup {"absent"} =>
                  LifecycleState(j)' = row'[j].status
             /\ row'[j].status = row[j].status =>
                  LifecycleState(j)' = LifecycleState(j)
  BY <1>0 DEF LifecycleState, Waiting
<1>b. ASSUME \A j \in Jobs : row'[j].status = row[j].status
      PROVE  Mapped' = Mapped
  BY <1>a, <1>b DEF Mapped
<1> USE DEF Waiting
<1>1. ASSUME NEW k \in Keys, Enqueue(k) PROVE Lifecycle!Next
  <2>1. PICK j \in Jobs : /\ row[j].status = "absent"
                          /\ row'[j].status = "pending"
                          /\ \A i \in Jobs \ {j} : row'[i] = row[i]
    BY <1>0, <1>1 DEF Enqueue, NoRow
  <2>2. Lifecycle!Submit(j)
    BY <1>a, <2>1, MoveIs DEF Lifecycle!Submit
  <2> QED
    BY <2>2 DEF Lifecycle!Next
<1>2. ASSUME NEW S \in SUBSET Jobs, Delete(S), \A j \in S : Present(j)
      PROVE  Lifecycle!Next
  <2>1. \A j \in S : /\ LifecycleState(j) \in Lifecycle!States \ {"none", "deleted"}
                     /\ LifecycleState(j)' = "deleted"
    BY <1>0, <1>2, <1>a
       DEF Delete, Present, Row, Status, Finished, Lifecycle!States,
           Lifecycle!Outcomes
  <2>2. \A j \in Jobs \ S : LifecycleState(j)' = LifecycleState(j)
    BY <1>2, <1>a DEF Delete
  <2>3. Lifecycle!Remove(S)
    BY <2>1, <2>2, MoveIs DEF Lifecycle!Remove
  <2> QED
    BY <2>3 DEF Lifecycle!Next
<1>3. ASSUME NEW k \in RolloutKeys, ReplanRollout(k) PROVE Lifecycle!Next
  BY <1>2, <1>3 DEF ReplanRollout, RolloutOf
<1>4. CASE ClearMigrations
  BY <1>2, <1>4 DEF ClearMigrations, Clearable, Present
<1>5. CASE CancelQueued
  <2> DEFINE S == {j \in Jobs : row[j].status \in Waiting
                                /\ row[j].key \in MigrationKeys}
  <2>1. \A j \in S : row'[j].status = "cancelled"
    BY <1>0, <1>5 DEF CancelQueued, Row
  <2>2. \A j \in Jobs \ S : row'[j] = row[j]
    BY <1>5 DEF CancelQueued
  <2>3. Lifecycle!Cancel(S)
    BY <1>a, <2>1, <2>2, MoveIs DEF Lifecycle!Cancel
  <2> QED
    BY <2>3 DEF Lifecycle!Next
<1>6. ASSUME NEW w \in Workers, WorkerStep(w)
      PROVE  Lifecycle!Next \/ Mapped' = Mapped
  <2>1. ASSUME NEW B \in SUBSET Runnable, Take(w, B) PROVE Lifecycle!Next
    \* Reclaimed rows were running and still are.
    <3> DEFINE S == {j \in B : row[j].status \in Waiting}
    <3>1. \A j \in B : row'[j].status = "running"
      <4> SUFFICES ASSUME NEW j \in B PROVE row'[j].status = "running"
        OBVIOUS
      <4>1. row[j] \in Row /\ row'[j] = Leased(row[j], w)
        BY <1>0, <2>1 DEF Take, Runnable
      <4> QED
        BY <4>1 DEF Leased, Row
    <3>2. \A j \in Jobs \ S : row'[j].status = row[j].status
      BY <2>1, <3>1 DEF Take, Runnable
    <3>3. S \in SUBSET Jobs
      BY DEF Runnable
    <3>4. Lifecycle!Start(S)
      BY <1>a, <3>1, <3>2, <3>3, MoveIs DEF Lifecycle!Start
    <3> QED
      BY <3>3, <3>4 DEF Lifecycle!Next
  <2>2. CASE Dequeue(w)
    BY <2>1, <2>2 DEF Dequeue
  <2>3. CASE UNCHANGED row
    BY <1>b, <2>3
  <2> QED
    BY <1>6, <2>2, <2>3
       DEF WorkerStep, Poll, Stop, Drained, Crash, Restart
<1>7. ASSUME NEW i \in Jobs, NEW m \in AttemptNos, AttemptStep(i, m)
      PROVE  Lifecycle!Next \/ Mapped' = Mapped
  <2>1. ASSUME NEW v, NEW r, r.status \in {"succeeded", "dead", "failed"},
               Report(i, m, v, r)
        PROVE  Lifecycle!Next \/ Mapped' = Mapped
    <3>1. CASE ~Owns(att[i][m].worker, i)
      BY <1>b, <2>1, <3>1 DEF Report
    <3>2. CASE Owns(att[i][m].worker, i)
      <4>1. /\ row[i].status = "running" /\ row'[i] = r
            /\ \A j \in Jobs \ {i} : row'[j] = row[j]
        BY <1>0, <2>1, <3>2 DEF Report, Owns
      <4>2. CASE r.status = "failed"
        <5>1. Lifecycle!Retry(i)
          BY <1>a, <4>1, <4>2, MoveIs DEF Lifecycle!Retry
        <5> QED
          BY <5>1 DEF Lifecycle!Next
      <4>3. CASE r.status \in {"succeeded", "dead"}
        <5>1. Lifecycle!Finish(i, r.status)
          BY <1>a, <4>1, <4>3, MoveIs DEF Lifecycle!Finish
        <5> QED
          BY <4>3, <5>1 DEF Lifecycle!Next, Lifecycle!Outcomes
      <4> QED
        BY <2>1, <4>2, <4>3
    <3> QED
      BY <3>1, <3>2
  <2>2. CASE Reported(i, m)
    <3>1. row[i] \in Row /\ {"succeeded", "dead"} \subseteq Status
      BY <1>0 DEF Status, Finished
    <3> QED
      BY <2>1, <2>2, <3>1, ReleasedType, AfterFailureType
         DEF Reported, Complete, Kill, Fail
  <2>3. CASE Heartbeat(i, m)
    BY <1>0, <1>b, <2>3 DEF Heartbeat, Row
  <2>4. CASE UNCHANGED row
    BY <1>b, <2>4
  <2> QED
    BY <1>7, <2>2, <2>3, <2>4 DEF AttemptStep, HandlerReturns, ExecutionError
<1>8. ASSUME NEW i \in Jobs, LeaseExpires(i) \/ BecomesDue(i)
      PROVE  Mapped' = Mapped
  BY <1>0, <1>b, <1>8 DEF LeaseExpires, BecomesDue, Row
<1>9. CASE UNCHANGED vars
  BY <1>b, <1>9 DEF vars
<1> QED
  BY <1>1, <1>3, <1>4, <1>5, <1>6, <1>7, <1>8, <1>9 DEF Next, RowStep

\* Leases, attempts and processes come and go behind a row that is
\* submitted once, waits, runs and ends in one outcome.
THEOREM QueueImplementsLifecycle == Spec => ImplementsLifecycle
<1>1. Init => Lifecycle!Init
  <2>1. ASSUME Init, NEW j \in Jobs PROVE LifecycleState(j) = "none"
    <3>1. row[j].status = "absent"
      BY <2>1 DEF Init, NoRow
    <3> QED
      BY <3>1 DEF LifecycleState, Waiting
  <2> QED
    BY <2>1 DEF Lifecycle!Init
<1>2. IInv /\ [Next]_vars => [Lifecycle!Next]_Mapped
  BY StepRefines
<1>3. ImplementsLifecycle <=> Lifecycle!Init /\ [][Lifecycle!Next]_Mapped
  BY DEF ImplementsLifecycle, Lifecycle!Spec, Mapped
<1> QED
  BY <1>1, <1>2, <1>3, InvariantHolds, PTL DEF Spec
=============================================================================
