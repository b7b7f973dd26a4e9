---------------------------- MODULE JobLifecycle ----------------------------
(***************************************************************************)
(* What the job table promises to everyone who is not a worker: a row is   *)
(* submitted once, waits, runs, perhaps waits again, and ends in one       *)
(* outcome that nothing but an operator's delete replaces.                 *)
(*                                                                         *)
(* Leases, attempts, worker processes and the reports they send are absent *)
(* on purpose; JobQueue has them, and implements this module.              *)
(***************************************************************************)

CONSTANT Jobs          \* row identities, each used for one row

VARIABLE state         \* state[j]: where row j is in its life

Outcomes == {"succeeded", "dead", "cancelled"}
States   == {"none", "waiting", "running", "deleted"} \cup Outcomes

Init == state = [j \in Jobs |-> "none"]

\* Moves every row of S, all of them in one of the states of From, to st.
Move(S, From, st) ==
  /\ \A j \in S : state[j] \in From
  /\ state' = [j \in Jobs |-> IF j \in S THEN st ELSE state[j]]

Submit(j)    == Move({j}, {"none"}, "waiting")
Start(S)     == Move(S, {"waiting"}, "running")
Retry(j)     == Move({j}, {"running"}, "waiting")
Finish(j, o) == o # "cancelled" /\ Move({j}, {"running"}, o)
Cancel(S)    == Move(S, {"waiting"}, "cancelled")
Remove(S)    == Move(S, States \ {"none", "deleted"}, "deleted")

Next ==
  \/ \E j \in Jobs : Submit(j) \/ Retry(j) \/ \E o \in Outcomes : Finish(j, o)
  \/ \E S \in SUBSET Jobs : Start(S) \/ Cancel(S) \/ Remove(S)

Spec == Init /\ [][Next]_state
=============================================================================
